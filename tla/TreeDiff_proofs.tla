--------------------------- MODULE TreeDiff_proofs --------------------------
(***************************************************************************)
(* What edits do to trees, what the comparison of two trees lists, and how *)
(* a tree's hash follows from its files.  Edits, walks and comparisons are *)
(* recursive functions over paths, positions and numbers; what they compute*)
(* is established by induction on numbers, which follows from the          *)
(* pigeonhole principle of FiniteSetTheorems.                              *)
(***************************************************************************)
EXTENDS TreeDiff, FiniteSetTheorems, TLAPS

\* Induction, from the pigeonhole principle: were n not in S, the numbers up to n
\* would fit among those below n.
LEMMA SetInduction ==
    ASSUME NEW S, 0 \in S, \A i \in Nat : i \in S => i + 1 \in S
    PROVE  Nat \subseteq S
<1> SUFFICES ASSUME NEW n \in Nat, n \notin S PROVE FALSE
    OBVIOUS
<1> DEFINE f == [i \in 0 .. n |-> IF i \in S THEN i ELSE i - 1]
<1>1. \A i \in 0 .. n : i \notin S => i # 0 /\ i - 1 \in 0 .. (n - 1) /\ i - 1 \notin S
  <2> TAKE i \in 0 .. n
  <2> HAVE i \notin S
  <2>1. i # 0 /\ i - 1 \in Nat /\ (i - 1) + 1 = i
      OBVIOUS
  <2> QED
      BY <2>1
<1>2. \A i \in 0 .. n : i \in S => i \in 0 .. (n - 1)
    OBVIOUS
<1>3. f \in [0 .. n -> 0 .. (n - 1)]
    BY <1>1, <1>2
<1> DEFINE A == 0 .. n
           B == 0 .. (n - 1)
<1>4. IsFiniteSet(A) /\ Cardinality(A) = n + 1
  <2>1. 0 \in Int /\ n \in Int /\ ~(0 > n)
      OBVIOUS
  <2> QED
      BY <2>1, FS_Interval
<1>5. IsFiniteSet(B) /\ Cardinality(B) = n
  <2>1. 0 \in Int /\ n - 1 \in Int /\ (0 > n - 1 <=> n = 0) /\ (n - 1) - 0 + 1 = n
      OBVIOUS
  <2>2. /\ IsFiniteSet(0 .. (n - 1))
        /\ Cardinality(0 .. (n - 1)) = IF 0 > n - 1 THEN 0 ELSE (n - 1) - 0 + 1
      BY <2>1, FS_Interval
  <2> QED
      BY <2>1, <2>2
<1>6. Cardinality(B) < Cardinality(A)
    BY <1>4, <1>5
<1>7. f \in [A -> B]
    BY <1>3
<1> HIDE DEF f, A, B
<1>8. PICK i, j \in A : i # j /\ f[i] = f[j]
    BY <1>4, <1>5, <1>6, <1>7, FS_PigeonHole
<1> USE DEF f, A, B
<1> QED
    BY <1>1, <1>8

\* One sequence after another.
LEMMA Joined ==
    ASSUME NEW S, NEW s \in Seq(S), NEW t \in Seq(S)
    PROVE  /\ s \o t \in Seq(S) /\ Len(s \o t) = Len(s) + Len(t)
           /\ \A i \in 1 .. Len(s) : (s \o t)[i] = s[i]
           /\ \A j \in 1 .. Len(t) : (s \o t)[Len(s) + j] = t[j]
OBVIOUS

\* findNodeByPath goes down the path: the root, then entry by entry.
Below(rws, e, n) ==
    LET kids == IF e.isDir THEN Kids(rws, e.hash) ELSE Empty
    IN  IF n \in DOMAIN kids THEN kids[n] ELSE NoEntry

\* Each entry on a path is looked up in the one before (findNodeByPath).
LEMMA AlongEntries ==
    ASSUME NEW rws, NEW root, NEW p, Len(p) \in Nat
    PROVE  LET at == Along(rws, root, p)
           IN  at = [i \in 0 .. Len(p) |-> IF i = 0 THEN Dir(root) ELSE Below(rws, at[i - 1], p[i])]
<1> DEFINE F(n, f) == [i \in 0 .. n |-> IF i = 0 THEN Dir(root) ELSE Below(rws, f[i - 1], p[i])]
           T == {n \in Nat : \E f : f = F(n, f)}
<1>1. 0 \in T
  <2> DEFINE f == [i \in 0 .. 0 |-> Dir(root)]
  <2>1. f = F(0, f)
      OBVIOUS
  <2> QED
      BY <2>1
<1>2. ASSUME NEW n \in T PROVE n + 1 \in T
  <2>1. PICK f : f = F(n, f)
      BY <1>2
  <2> DEFINE g == [i \in 0 .. n + 1 |-> IF i \in 0 .. n THEN f[i] ELSE Below(rws, f[n], p[n + 1])]
  <2>2. g = F(n + 1, g)
    <3>1. ASSUME NEW i \in 0 .. n + 1, i # 0 PROVE i - 1 \in 0 .. n /\ g[i - 1] = f[i - 1]
        BY <3>1
    <3>2. ASSUME NEW i \in 0 .. n PROVE f[i] = IF i = 0 THEN Dir(root) ELSE Below(rws, f[i - 1], p[i])
        BY <2>1
    <3> HIDE DEF Below, Dir
    <3> QED
        BY <3>1, <3>2
  <2> HIDE DEF g
  <2>3. \E h : h = F(n + 1, h)
      BY <2>2
  <2>4. n + 1 \in Nat
      OBVIOUS
  <2> HIDE DEF F
  <2> QED
      BY <2>3, <2>4
<1>3. Len(p) \in T
  <2> HIDE DEF T
  <2> QED
      BY <1>1, <1>2, SetInduction
<1>4. \E f : f = F(Len(p), f)
    BY <1>3
<1> QED
    BY <1>4 DEF Along, Below

\* A directory's children with the entry below put at the name n, or taken away.
Level(kids, n, below) == IF below = NoEntry THEN Without(kids, n) ELSE WithKid(kids, n, below)

\* Each directory on an edited path lists, at the path's next name, what the level
\* below became.
LEMMA RebuiltLevels ==
    ASSUME NEW rws, NEW root, NEW p, Len(p) \in Nat \ {0}, NEW e
    PROVE  LET new == Rebuilt(rws, root, p, e)
           IN  new = [i \in 0 .. Len(p) - 1 |->
                        Level(Kids(rws, Along(rws, root, p)[i].hash), p[i + 1],
                              IF i = Len(p) - 1 THEN e ELSE EntryOf(new[i + 1]))]
<1> DEFINE m == Len(p) - 1
           kids(i) == Kids(rws, Along(rws, root, p)[i].hash)
           F(n, f) == [i \in m - n .. m |->
                          Level(kids(i), p[i + 1], IF i = m THEN e ELSE EntryOf(f[i + 1]))]
           T == {n \in Nat : \E f : f = F(n, f)}
<1>0. m \in Nat
    OBVIOUS
<1> HIDE DEF m, kids
<1>1. 0 \in T
  <2> DEFINE f == [i \in m .. m |-> Level(kids(i), p[i + 1], e)]
  <2>1. f = [i \in m .. m |-> Level(kids(i), p[i + 1], IF i = m THEN e ELSE EntryOf(f[i + 1]))]
    <3>1. \A i \in m .. m : i = m
        BY <1>0
    <3> QED
        BY <3>1
  <2>2. m - 0 = m
      BY <1>0
  <2>3. f = F(0, f)
      BY <2>1, <2>2
  <2> HIDE DEF f, F
  <2> QED
      BY <2>3
<1>2. ASSUME NEW n \in T PROVE n + 1 \in T
  <2>1. PICK f : f = F(n, f)
      BY <1>2
  <2>0. n \in Nat
      OBVIOUS
  <2> HIDE DEF T
  <2> DEFINE l == m - (n + 1)
             g == [i \in l .. m |->
                     IF i \in m - n .. m THEN f[i]
                     ELSE Level(kids(i), p[i + 1], EntryOf(f[i + 1]))]
  <2>2. g = F(n + 1, g)
    <3>1. ASSUME NEW i \in l .. m, i # m PROVE i + 1 \in m - n .. m /\ g[i + 1] = f[i + 1]
      <4>1. i + 1 \in m - n .. m /\ i + 1 \in l .. m
          BY <1>0, <2>0, <3>1
      <4> QED
          BY <4>1
    <3>2. ASSUME NEW i \in m - n .. m
          PROVE  f[i] = Level(kids(i), p[i + 1], IF i = m THEN e ELSE EntryOf(f[i + 1]))
        BY <2>1
    <3>3. \A i \in l .. m : i \notin m - n .. m => i # m
        BY <1>0, <2>0
    <3> HIDE DEF Level, l
    <3>4. \A i \in l .. m : g[i] = Level(kids(i), p[i + 1], IF i = m THEN e ELSE EntryOf(g[i + 1]))
        BY <3>1, <3>2, <3>3
    <3>5. g = [i \in l .. m |-> g[i]]
        OBVIOUS
    <3> HIDE DEF g
    <3> USE DEF l
    <3> QED
        BY <3>4, <3>5
  <2> HIDE DEF g, l
  <2>3. \E h : h = F(n + 1, h)
      BY <2>2
  <2>4. n + 1 \in Nat
      BY <2>0
  <2> HIDE DEF F
  <2> QED
      BY <2>3, <2>4 DEF T
<1>3. m \in T
  <2> HIDE DEF T
  <2> QED
      BY <1>0, <1>1, <1>2, SetInduction
<1>4. \E f : f = F(m, f)
    BY <1>3
<1>5. m - m = 0
    BY <1>0
<1>6. \E f : f = [i \in 0 .. m |-> Level(kids(i), p[i + 1], IF i = m THEN e ELSE EntryOf(f[i + 1]))]
    BY <1>4, <1>5
<1> QED
    BY <1>6 DEF Rebuilt, Level, m, kids

----------------------------------------------------------------------------
\* A file's hash is no directory's (hashes do not collide).
NoCollision == \A b \in Blobs : \A kids : b # HashOf(kids)

\* Children: finitely many, under names, each of the kind that its hash tells.
Names            == Nat \ {0}
EntryRight(e)    == e = IF e.hash \in Blobs THEN File(e.hash) ELSE Dir(e.hash)
KidsRight(kids)  ==
    /\ kids = [n \in DOMAIN kids |-> kids[n]]
    /\ DOMAIN kids \subseteq Names /\ IsFiniteSet(DOMAIN kids)
    /\ \A n \in DOMAIN kids : EntryRight(kids[n])

\* The row is the node of its key.
NodeRow(h, row) ==
    \/ h \in Blobs /\ row = BlobRow
    \/ row.type = "tree" /\ DOMAIN row.kids # {} /\ h = HashOf(row.kids) /\ KidsRight(row.kids)
Listed(kids) == {kids[n].hash : n \in DOMAIN kids}
RowsSound(rws) == \A h \in DOMAIN rws : NodeRow(h, rws[h]) /\ Listed(rws[h].kids) \subseteq DOMAIN rws

\* A directory that can be opened.
DirIn(D, h) == h = Empty \/ h \in D \ Blobs

\* Nodes that can be inserted in this order into rows with keys D.
Keys(adds, i)     == {adds[j].hash : j \in 1 .. i}
Storable(D, adds) ==
    /\ \E S : adds \in Seq(S)
    /\ \A i \in 1 .. Len(adds) :
          /\ NodeRow(adds[i].hash, adds[i].row)
          /\ Listed(adds[i].row.kids) \subseteq D \cup Keys(adds, i - 1)

\* The hash of no children.
LEMMA EmptyHash == HashOf(Empty) = Empty
BY DEF HashOf, Empty

\* The children of a node that is there, or of the empty tree.
LEMMA KidsOfNode ==
    ASSUME NEW rws, RowsSound(rws), NEW h, Opens(rws, h)
    PROVE  KidsRight(Kids(rws, h)) /\ Listed(Kids(rws, h)) \subseteq DOMAIN rws
<1>0. KidsRight(Empty) /\ Listed(Empty) = {}
    BY FS_EmptySet DEF KidsRight, Listed, Empty
<1>1. CASE h = Empty
    BY <1>0, <1>1 DEF Kids
<1>2. CASE h # Empty
    BY <1>0, <1>2 DEF Kids, Opens, RowsSound, NodeRow, BlobRow
<1> QED
    BY <1>1, <1>2

\* An entry: nothing, a file, or a directory that can be opened.
EntryIn(D, e) ==
    \/ e = NoEntry
    \/ e = Dir(e.hash) /\ DirIn(D, e.hash)
    \/ e = File(e.hash) /\ e.hash \in Blobs \cap D

\* Whose node can be opened, as a file's row has no children.
LEMMA EntryOpens == ASSUME NEW rws, NEW e, EntryIn(DOMAIN rws, e) PROVE Opens(rws, e.hash)
BY DEF EntryIn, DirIn, Opens, NoEntry

\* An entry's children are entries of nodes that are there, and only directories
\* have any.
LEMMA BelowIn ==
    ASSUME NoCollision, NEW rws, RowsSound(rws), NEW e, EntryIn(DOMAIN rws, e), NEW n
    PROVE  LET f == Below(rws, e, n)
           IN  /\ EntryIn(DOMAIN rws, f)
               /\ f # NoEntry => e.isDir /\ n \in Names /\ f = Kids(rws, e.hash)[n]
                                 /\ n \in DOMAIN Kids(rws, e.hash) /\ f.hash \in DOMAIN rws
<1> DEFINE kids == Kids(rws, e.hash)
           f    == Below(rws, e, n)
<1>1. KidsRight(kids) /\ Listed(kids) \subseteq DOMAIN rws
    BY EntryOpens, KidsOfNode
<1>2. f = IF e.isDir /\ n \in DOMAIN kids THEN kids[n] ELSE NoEntry
    BY DEF Below, Empty
<1> HIDE DEF kids, f
<1>3. CASE f = NoEntry
    BY <1>3 DEF EntryIn, f
<1>4. CASE f # NoEntry
  <2>1. e.isDir /\ n \in DOMAIN kids /\ f = kids[n]
      BY <1>2, <1>4
  <2>2. n \in Names /\ EntryRight(f) /\ f.hash \in DOMAIN rws
      BY <1>1, <2>1 DEF KidsRight, Listed
  <2>3. EntryIn(DOMAIN rws, f)
    <3>1. CASE f.hash \in Blobs
        BY <2>2, <3>1 DEF EntryIn, EntryRight
    <3>2. CASE f.hash \notin Blobs
        BY <2>2, <3>2 DEF EntryIn, EntryRight, DirIn
    <3> QED
        BY <3>1, <3>2
  <2> QED
      BY <2>1, <2>2, <2>3 DEF kids, f
<1> QED
    BY <1>3, <1>4

\* So are the entries on every path.
LEMMA PathIn ==
    ASSUME NoCollision, NEW rws, RowsSound(rws), NEW root, DirIn(DOMAIN rws, root),
           NEW p, Len(p) \in Nat, NEW i \in 0 .. Len(p)
    PROVE  EntryIn(DOMAIN rws, Along(rws, root, p)[i])
<1> DEFINE at == Along(rws, root, p)
           T == {k \in Nat : k <= Len(p) => EntryIn(DOMAIN rws, at[k])}
<1>1. at = [k \in 0 .. Len(p) |-> IF k = 0 THEN Dir(root) ELSE Below(rws, at[k - 1], p[k])]
    BY AlongEntries
<1> HIDE DEF at
<1>2. 0 \in T
  <2>1. at[0] = Dir(root)
      BY <1>1
  <2>2. EntryIn(DOMAIN rws, Dir(root))
    <3>1. Dir(root).hash = root
        BY DEF Dir
    <3> QED
        BY <3>1 DEF EntryIn
  <2> QED
      BY <2>1, <2>2
<1>3. ASSUME NEW k \in Nat, k \in T PROVE k + 1 \in T
  <2> SUFFICES ASSUME k + 1 <= Len(p) PROVE EntryIn(DOMAIN rws, at[k + 1])
      OBVIOUS
  <2>1. EntryIn(DOMAIN rws, at[k])
      BY <1>3
  <2>2. at[k + 1] = Below(rws, at[k], p[k + 1])
      BY <1>1
  <2> QED
      BY <2>1, <2>2, BelowIn
<1> HIDE DEF T
<1>4. i \in T
    BY <1>2, <1>3, SetInduction
<1> QED
    BY <1>4 DEF T, at

\* A directory's children after the entry at one name was put or taken away.
LEMMA LevelSound ==
    ASSUME NoCollision, NEW kids, KidsRight(kids), NEW n \in Names, NEW below,
           below = NoEntry \/ EntryRight(below)
    PROVE  LET new == Level(kids, n, below)
           IN  /\ KidsRight(new)
               /\ Listed(new) \subseteq Listed(kids) \cup (IF below = NoEntry THEN {} ELSE {below.hash})
               /\ below # NoEntry => new # Empty
               /\ new # Empty => DOMAIN new # {}
<1>1. CASE below = NoEntry
  <2> DEFINE new == [m \in DOMAIN kids \ {n} |-> kids[m]]
  <2>1. IsFiniteSet(DOMAIN kids \ {n})
      BY FS_Subset DEF KidsRight
  <2>2. KidsRight(new) /\ Listed(new) \subseteq Listed(kids)
      BY <2>1 DEF KidsRight, Listed
  <2>3. DOMAIN new = {} => new = Empty
      BY DEF Empty
  <2> QED
      BY <1>1, <2>2, <2>3 DEF Level, Without
<1>2. CASE below # NoEntry
  <2> DEFINE new == [m \in DOMAIN kids \cup {n} |-> IF m = n THEN below ELSE kids[m]]
  <2>1. IsFiniteSet(DOMAIN kids \cup {n})
      BY FS_AddElement DEF KidsRight
  <2>2. \A m \in DOMAIN new : EntryRight(new[m])
      BY <1>2 DEF KidsRight
  <2>3. KidsRight(new) /\ Listed(new) \subseteq Listed(kids) \cup {below.hash}
      BY <2>1, <2>2 DEF KidsRight, Listed
  <2>4. n \in DOMAIN new
      OBVIOUS
  <2>5. new # Empty /\ DOMAIN new # {}
      BY <2>4 DEF Empty
  <2> QED
      BY <1>2, <2>3, <2>5 DEF Level, WithKid
<1> QED
    BY <1>1, <1>2

\* Along a path, what is empty is at its end: below an empty directory there is
\* nothing.
LEMMA Threshold ==
    ASSUME NEW f, NEW n \in Nat,
           \A i \in 0 .. n - 1 : i + 1 \in 0 .. n - 1 /\ f[i + 1] # Empty => f[i] # Empty
    PROVE  \E k \in 0 .. n : \A i \in 0 .. n - 1 : f[i] # Empty <=> i < k
<1> DEFINE T == {m \in Nat : m <= n => \E k \in 0 .. m : \A i \in 0 .. m - 1 : f[i] # Empty <=> i < k}
<1>1. 0 \in T
    OBVIOUS
<1>2. ASSUME NEW m \in Nat, m \in T PROVE m + 1 \in T
  <2> SUFFICES ASSUME m + 1 <= n
               PROVE  \E k \in 0 .. m + 1 : \A i \in 0 .. (m + 1) - 1 : f[i] # Empty <=> i < k
      OBVIOUS
  <2>1. PICK k \in 0 .. m : \A i \in 0 .. m - 1 : f[i] # Empty <=> i < k
      BY <1>2
  <2>2. \A i \in 0 .. (m + 1) - 1 : i = m \/ i \in 0 .. m - 1
      OBVIOUS
  <2>3. CASE f[m] = Empty
    <3>1. \A i \in 0 .. (m + 1) - 1 : f[i] # Empty <=> i < k
        BY <2>1, <2>2, <2>3
    <3>2. k \in 0 .. m + 1
        OBVIOUS
    <3> WITNESS k \in 0 .. m + 1
    <3> QED
        BY <3>1
  <2>4. CASE f[m] # Empty
    <3>1. k = m
      <4>1. CASE m = 0
          BY <4>1
      <4>2. CASE m # 0
        <5>1. m - 1 \in 0 .. n - 1 /\ (m - 1) + 1 = m /\ m \in 0 .. n - 1 /\ m - 1 \in 0 .. m - 1
            BY <4>2
        <5>2. f[m - 1] # Empty
            BY <2>4, <5>1
        <5>3. m - 1 < k
            BY <2>1, <5>1, <5>2
        <5> QED
            BY <5>3
      <4> QED
          BY <4>1, <4>2
    <3>2. \A i \in 0 .. (m + 1) - 1 : f[i] # Empty <=> i < m + 1
        BY <2>1, <2>2, <2>4, <3>1
    <3> QED
        BY <3>2
  <2> QED
      BY <2>3, <2>4
<1> HIDE DEF T
<1>3. n \in T
    BY <1>1, <1>2, SetInduction
<1> QED
    BY <1>3 DEF T

----------------------------------------------------------------------------
(* How deep trees are.                                                     *)

\* The hashes of directories of which every subdirectory's hash is in L, and those
\* of directories of at most so many levels.
HashesOf(L) == UNION {[N -> Blobs \cup L] : N \in SUBSET Names}
Deep[k \in 0 .. MaxDepth] == IF k = 0 THEN {} ELSE HashesOf(Deep[k - 1])

LEMMA DeepIs ==
    /\ Deep[0] = {}
    /\ \A k \in 0 .. MaxDepth - 1 : Deep[k + 1] = HashesOf(Deep[k])
<1> DEFINE F(n, f) == [k \in 0 .. n |-> IF k = 0 THEN {} ELSE HashesOf(f[k - 1])]
           T == {n \in Nat : \E f : f = F(n, f)}
<1>1. 0 \in T
  <2> DEFINE f == [i \in 0 .. 0 |-> {}]
  <2>1. f = F(0, f)
      OBVIOUS
  <2> QED
      BY <2>1
<1>2. ASSUME NEW n \in T PROVE n + 1 \in T
  <2>1. PICK f : f = F(n, f)
      BY <1>2
  <2> DEFINE g == [i \in 0 .. n + 1 |-> IF i \in 0 .. n THEN f[i] ELSE HashesOf(f[n])]
  <2>2. g = F(n + 1, g)
    <3>1. ASSUME NEW i \in 0 .. n + 1, i # 0 PROVE i - 1 \in 0 .. n /\ g[i - 1] = f[i - 1]
        BY <3>1
    <3>2. ASSUME NEW i \in 0 .. n PROVE f[i] = IF i = 0 THEN {} ELSE HashesOf(f[i - 1])
        BY <2>1
    <3> HIDE DEF HashesOf
    <3> QED
        BY <3>1, <3>2
  <2> HIDE DEF g
  <2>3. \E h : h = F(n + 1, h)
      BY <2>2
  <2>4. n + 1 \in Nat
      OBVIOUS
  <2> HIDE DEF F
  <2> QED
      BY <2>3, <2>4
<1>3. MaxDepth \in Nat \ {0}
    BY WorkTreeAssumption
<1>4. MaxDepth \in T
  <2> HIDE DEF T
  <2> QED
      BY <1>1, <1>2, <1>3, SetInduction
<1>5. \E f : f = F(MaxDepth, f)
    BY <1>4
<1>6. Deep = F(MaxDepth, Deep)
    BY <1>5 DEF Deep
<1>7. ASSUME NEW k \in 0 .. MaxDepth - 1 PROVE Deep[k + 1] = HashesOf(Deep[k])
  <2>1. k + 1 \in 0 .. MaxDepth /\ k + 1 # 0 /\ (k + 1) - 1 = k
      BY <1>3
  <2> QED
      BY <1>6, <2>1
<1>8. Deep[0] = {}
  <2>1. 0 \in 0 .. MaxDepth
      BY <1>3
  <2> QED
      BY <1>6, <2>1
<1> QED
    BY <1>7, <1>8

\* The hash of a directory is made of those of its children.
LEMMA HashOfDir ==
    ASSUME NoCollision, NEW rws, RowsSound(rws), NEW h, DirIn(DOMAIN rws, h)
    PROVE  HashOf(Kids(rws, h)) = h
<1>1. CASE h = Empty
    BY <1>1, EmptyHash DEF Kids
<1>2. CASE h # Empty
    BY <1>2 DEF DirIn, RowsSound, NodeRow, Kids
<1> QED
    BY <1>1, <1>2

\* What is not a directory has no children.
LEMMA NoKids ==
    ASSUME NoCollision, NEW rws, RowsSound(rws), NEW e, EntryIn(DOMAIN rws, e), ~e.isDir
    PROVE  Kids(rws, e.hash) = Empty
<1>1. CASE e = NoEntry
    BY <1>1 DEF NoEntry, Kids
<1>2. CASE e = File(e.hash) /\ e.hash \in Blobs \cap DOMAIN rws
    BY <1>2 DEF Kids, RowsSound, NodeRow, NoCollision, BlobRow
<1>3. e # Dir(e.hash)
    BY DEF Dir
<1> QED
    BY <1>1, <1>2, <1>3 DEF EntryIn

\* A directory i names below the root has i levels less.
LEMMA DirDeep ==
    ASSUME NoCollision, NEW rws, RowsSound(rws), NEW root, DirIn(DOMAIN rws, root),
           root \in Deep[MaxDepth], NEW p, Len(p) \in Nat, NEW i \in 0 .. Len(p), i <= MaxDepth,
           Along(rws, root, p)[i].isDir
    PROVE  Along(rws, root, p)[i].hash \in Deep[MaxDepth - i]
<1> DEFINE at == Along(rws, root, p)
           T == {k \in Nat : k <= Len(p) /\ k <= MaxDepth /\ at[k].isDir =>
                                at[k].hash \in Deep[MaxDepth - k]}
<1>0. MaxDepth \in Nat
    BY WorkTreeAssumption
<1>1. at = [k \in 0 .. Len(p) |-> IF k = 0 THEN Dir(root) ELSE Below(rws, at[k - 1], p[k])]
    BY AlongEntries
<1>2. \A k \in 0 .. Len(p) : EntryIn(DOMAIN rws, at[k])
    BY PathIn
<1> HIDE DEF at
<1>3. 0 \in T
  <2>1. at[0] = Dir(root) /\ MaxDepth - 0 = MaxDepth
      BY <1>0, <1>1
  <2>2. at[0].hash = root
      BY <2>1 DEF Dir
  <2> QED
      BY <2>1, <2>2
<1>4. ASSUME NEW k \in Nat, k \in T PROVE k + 1 \in T
  <2> SUFFICES ASSUME k + 1 <= Len(p), k + 1 <= MaxDepth, at[k + 1].isDir
               PROVE  at[k + 1].hash \in Deep[MaxDepth - (k + 1)]
      OBVIOUS
  <2> DEFINE kids == Kids(rws, at[k].hash)
             n == p[k + 1]
             l == MaxDepth - (k + 1)
  <2>1. at[k + 1] = Below(rws, at[k], n)
      BY <1>1
  <2>2. at[k + 1] # NoEntry
      BY DEF NoEntry
  <2>3. EntryIn(DOMAIN rws, at[k]) /\ EntryIn(DOMAIN rws, at[k + 1])
      BY <1>2
  <2>4. at[k].isDir /\ n \in DOMAIN kids /\ at[k + 1] = kids[n]
      BY <2>1, <2>2, <2>3, BelowIn
  <2>5. DirIn(DOMAIN rws, at[k].hash) /\ DirIn(DOMAIN rws, at[k + 1].hash)
      BY <2>3, <2>4 DEF EntryIn, NoEntry, File
  <2>6. at[k].hash = HashOf(kids)
      BY <2>5, HashOfDir
  <2>7. l \in 0 .. MaxDepth - 1 /\ l + 1 = MaxDepth - k
      BY <1>0
  <2>8. at[k].hash \in HashesOf(Deep[l])
    <3>0. k <= Len(p) /\ k <= MaxDepth
        BY <1>0
    <3>1. at[k].hash \in Deep[MaxDepth - k]
        BY <1>4, <2>4, <3>0
    <3> HIDE DEF l
    <3> QED
        BY <2>7, <3>1, DeepIs
  <2> HIDE DEF l, kids
  <2>9. at[k + 1].hash \in Blobs \cup Deep[l]
    <3>1. HashOf(kids)[n] = at[k + 1].hash /\ n \in DOMAIN HashOf(kids)
        BY <2>4 DEF HashOf
    <3> QED
        BY <2>6, <2>8, <3>1 DEF HashesOf
  <2>10. at[k + 1].hash \notin Blobs
      BY <2>5, EmptyHash DEF DirIn, NoCollision
  <2> QED
      BY <2>9, <2>10 DEF l
<1> HIDE DEF T
<1>5. i \in T
    BY <1>3, <1>4, SetInduction
<1> QED
    BY <1>5 DEF T, at

\* A child put or taken away makes no level more.
LEMMA LevelDeep ==
    ASSUME NEW L, NEW kids, HashOf(kids) \in HashesOf(L), NEW n \in Names, NEW below,
           below = NoEntry \/ below.hash \in Blobs \cup L
    PROVE  HashOf(Level(kids, n, below)) \in HashesOf(L)
<1>1. DOMAIN kids \subseteq Names /\ \A m \in DOMAIN kids : kids[m].hash \in Blobs \cup L
    BY DEF HashOf, HashesOf
<1>2. CASE below = NoEntry
  <2> DEFINE g == HashOf(Without(kids, n))
  <2>1. g \in [DOMAIN kids \ {n} -> Blobs \cup L] /\ DOMAIN kids \ {n} \subseteq Names
      BY <1>1 DEF HashOf, Without
  <2> HIDE DEF g
  <2>2. g \in HashesOf(L)
      BY <2>1 DEF HashesOf
  <2> QED
      BY <1>2, <2>2 DEF Level, g
<1>3. CASE below # NoEntry
  <2> DEFINE g == HashOf(WithKid(kids, n, below))
  <2>1. g \in [DOMAIN kids \cup {n} -> Blobs \cup L] /\ DOMAIN kids \cup {n} \subseteq Names
      BY <1>1, <1>3 DEF HashOf, WithKid
  <2> HIDE DEF g
  <2>2. g \in HashesOf(L)
      BY <2>1 DEF HashesOf
  <2> QED
      BY <1>3, <2>2 DEF Level, g
<1> QED
    BY <1>2, <1>3

\* An empty directory has any number of levels but none.
LEMMA EmptyDeep == ASSUME NEW k \in 1 .. MaxDepth PROVE Empty \in Deep[k]
<1>1. k - 1 \in 0 .. MaxDepth - 1 /\ (k - 1) + 1 = k
    BY WorkTreeAssumption
<1>2. Empty \in [{} -> Blobs \cup Deep[k - 1]]
    BY DEF Empty
<1>3. Empty \in HashesOf(Deep[k - 1])
    BY <1>2 DEF HashesOf
<1> QED
    BY <1>1, <1>3, DeepIs

LEMMA EmptyRoot == Empty \in Deep[MaxDepth]
BY EmptyDeep, WorkTreeAssumption

\* A path that clients can name.
IsPath(p) == Len(p) \in 1 .. MaxDepth /\ \A i \in 1 .. Len(p) : p[i] \in Names

\* An edit of a path makes no tree deeper than paths are long.
LEMMA EditDeep ==
    ASSUME NoCollision, NEW rws, RowsSound(rws), NEW root, DirIn(DOMAIN rws, root),
           root \in Deep[MaxDepth],
           NEW p, IsPath(p),
           NEW e, e = NoEntry \/ \E b \in Blobs : e = File(b)
    PROVE  HashOf(Rebuilt(rws, root, p, e)[0]) \in Deep[MaxDepth]
<1> DEFINE m == Len(p) - 1
           new == Rebuilt(rws, root, p, e)
           at == Along(rws, root, p)
           kids(i) == Kids(rws, at[i].hash)
           under(i) == IF i = m THEN e ELSE EntryOf(new[i + 1])
           T == {k \in Nat : k <= m => HashOf(new[m - k]) \in Deep[MaxDepth - (m - k)]}
<1> Len(p) \in 1 .. MaxDepth /\ \A i \in 1 .. Len(p) : p[i] \in Names
    BY DEF IsPath
<1>0. MaxDepth \in Nat /\ m \in Nat /\ m < MaxDepth /\ Len(p) = m + 1 /\ Len(p) \in Nat \ {0}
    BY WorkTreeAssumption
<1>1. \A i \in 0 .. m : new[i] = Level(kids(i), p[i + 1], under(i))
  <2>1. Len(p) \in Nat \ {0}
      BY <1>0
  <2> QED
      BY <2>1, RebuiltLevels
<1>2. \A i \in 0 .. Len(p) : EntryIn(DOMAIN rws, at[i])
    BY <1>0, PathIn
<1>3. \A i \in 0 .. m : at[i].isDir => at[i].hash \in Deep[MaxDepth - i]
    BY <1>0, DirDeep
<1> HIDE DEF new, at, m
<1>4. ASSUME NEW i \in 0 .. m, i = m \/ HashOf(new[i + 1]) \in Deep[MaxDepth - (i + 1)]
      PROVE  HashOf(new[i]) \in Deep[MaxDepth - i]
  <2> DEFINE l == MaxDepth - (i + 1)
  <2>1. /\ l \in 0 .. MaxDepth - 1 /\ l + 1 = MaxDepth - i /\ MaxDepth - i \in 1 .. MaxDepth
        /\ i \in 0 .. Len(p) /\ p[i + 1] \in Names
      BY <1>0
  <2>2. HashOf(kids(i)) \in Deep[MaxDepth - i]
    <3>1. EntryIn(DOMAIN rws, at[i])
        BY <1>2, <2>1
    <3>2. CASE at[i].isDir
      <4>1. DirIn(DOMAIN rws, at[i].hash)
          BY <3>1, <3>2 DEF EntryIn, NoEntry, File
      <4> QED
          BY <1>3, <3>2, <4>1, HashOfDir
    <3>3. CASE ~at[i].isDir
      <4>1. kids(i) = Empty
          BY <3>1, <3>3, NoKids
      <4> QED
          BY <2>1, <4>1, EmptyDeep, EmptyHash
    <3> QED
        BY <3>2, <3>3
  <2>3. Deep[MaxDepth - i] = HashesOf(Deep[l])
    <3> HIDE DEF l
    <3> QED
        BY <2>1, DeepIs
  <2>4. under(i) = NoEntry \/ under(i).hash \in Blobs \cup Deep[l]
    <3>1. CASE i = m
        BY <3>1 DEF File
    <3>2. CASE i # m
        BY <1>4, <3>2 DEF EntryOf, Dir
    <3> QED
        BY <3>1, <3>2
  <2> HIDE DEF l, kids, under
  <2>5. HashOf(Level(kids(i), p[i + 1], under(i))) \in HashesOf(Deep[l])
      BY <2>1, <2>2, <2>3, <2>4, LevelDeep
  <2> QED
      BY <1>1, <2>3, <2>5
<1>5. 0 \in T
  <2>1. m \in 0 .. m /\ m - 0 = m
      BY <1>0
  <2> QED
      BY <1>4, <2>1
<1>6. ASSUME NEW k \in Nat, k \in T PROVE k + 1 \in T
  <2> SUFFICES ASSUME k + 1 <= m
               PROVE  HashOf(new[m - (k + 1)]) \in Deep[MaxDepth - (m - (k + 1))]
      OBVIOUS
  <2> DEFINE i == m - (k + 1)
  <2>1. i \in 0 .. m /\ i + 1 = m - k /\ k <= m
      BY <1>0
  <2>2. HashOf(new[m - k]) \in Deep[MaxDepth - (m - k)]
      BY <1>6, <2>1
  <2> HIDE DEF i
  <2>3. HashOf(new[i]) \in Deep[MaxDepth - i]
      BY <1>4, <2>1, <2>2
  <2> QED
      BY <2>3 DEF i
<1> HIDE DEF T
<1>7. m \in T
    BY <1>0, <1>5, <1>6, SetInduction
<1> QED
  <2>1. m - m = 0 /\ MaxDepth - 0 = MaxDepth
      BY <1>0
  <2>2. HashOf(new[m - m]) \in Deep[MaxDepth - (m - m)]
      BY <1>0, <1>7 DEF T
  <2> QED
      BY <2>1, <2>2 DEF new

----------------------------------------------------------------------------
(* What edits store.                                                      *)

\* An edit that can be stored, and its root opened after, of a tree no deeper than
\* paths are long.
Fits(D, edit) ==
    /\ Storable(D, edit.adds)
    /\ DirIn(D \cup Keys(edit.adds, Len(edit.adds)), edit.root)
    /\ edit.root \in Deep[MaxDepth]

\* What an edit inserts: a file's row, if any, and then those of directories.
NodeAt(new, i) == [hash |-> HashOf(new[i]), row |-> TreeRow(new[i])]
FileRow(e)     == [hash |-> e.hash, row |-> BlobRow]
FileFirst(e)   == IF e = NoEntry THEN 0 ELSE 1
AddsOf(new, e, left) ==
    (IF e = NoEntry THEN <<>> ELSE <<FileRow(e)>>) \o [j \in 1 .. left |-> NodeAt(new, left - j)]
LEMMA EditAdds ==
    ASSUME NEW new, NEW e, NEW left \in Nat
    PROVE  LET adds == AddsOf(new, e, left)
               l    == FileFirst(e)
           IN  /\ \E S : adds \in Seq(S)
               /\ Len(adds) = l + left
               /\ e # NoEntry => adds[1] = FileRow(e)
               /\ \A j \in 1 .. left : adds[l + j] = NodeAt(new, left - j)
<1> DEFINE file == FileRow(e)
           blob == IF e = NoEntry THEN <<>> ELSE <<file>>
           node(i) == NodeAt(new, i)
           dirs == [j \in 1 .. left |-> node(left - j)]
           S    == {file} \cup {dirs[j] : j \in 1 .. left}
           l    == IF e = NoEntry THEN 0 ELSE 1
<1>1. blob \in Seq(S) /\ Len(blob) = l /\ (e # NoEntry => blob[1] = file)
  <2>1. file \in S
      OBVIOUS
  <2> HIDE DEF S, file
  <2>2. CASE e = NoEntry
      BY <2>2
  <2>3. CASE e # NoEntry
      BY <2>1, <2>3
  <2> QED
      BY <2>2, <2>3
<1>2. dirs \in Seq(S) /\ Len(dirs) = left /\ \A j \in 1 .. left : dirs[j] = node(left - j)
  <2>1. \A j \in 1 .. left : dirs[j] \in S
      OBVIOUS
  <2> HIDE DEF S, node
  <2>2. dirs \in [1 .. left -> S]
      BY <2>1
  <2> QED
      BY <2>2
<1> HIDE DEF S, blob, dirs, file, node, l
<1>3. /\ blob \o dirs \in Seq(S) /\ Len(blob \o dirs) = l + left
      /\ \A i \in 1 .. Len(blob) : (blob \o dirs)[i] = blob[i]
      /\ \A j \in 1 .. left : (blob \o dirs)[l + j] = dirs[j]
  <2>1. blob \in Seq(S) /\ dirs \in Seq(S)
      BY <1>1, <1>2
  <2>2. /\ blob \o dirs \in Seq(S) /\ Len(blob \o dirs) = Len(blob) + Len(dirs)
        /\ \A i \in 1 .. Len(blob) : (blob \o dirs)[i] = blob[i]
        /\ \A j \in 1 .. Len(dirs) : (blob \o dirs)[Len(blob) + j] = dirs[j]
      BY <2>1, Joined
  <2>3. Len(blob) = l /\ Len(dirs) = left
      BY <1>1, <1>2
  <2> QED
      BY <2>2, <2>3, Zenon
<1>4. e # NoEntry => (blob \o dirs)[1] = file
    BY <1>1, <1>3 DEF l
<1>5. \E R : blob \o dirs \in Seq(R)
    BY <1>3, Zenon
<1>6. \A j \in 1 .. left : (blob \o dirs)[l + j] = node(left - j)
    BY <1>2, <1>3
<1> QED
    BY <1>3, <1>4, <1>5, <1>6 DEF l, blob, dirs, file, node, AddsOf, FileFirst

\* What an edit of a path inserts can be inserted in this order: the file first,
\* and each directory after the one it lists.
LEMMA EditFits ==
    ASSUME NoCollision, NEW rws, RowsSound(rws), NEW root, DirIn(DOMAIN rws, root),
           root \in Deep[MaxDepth], NEW p, IsPath(p),
           NEW e, e = NoEntry \/ \E b \in Blobs : e = File(b)
    PROVE  LET new  == Rebuilt(rws, root, p, e)
               edit == Edited(rws, root, p, e)
               keys == Keys(edit.adds, Len(edit.adds))
           IN  /\ Fits(DOMAIN rws, edit)
               /\ edit.root = HashOf(new[0])
               /\ e # NoEntry => e.hash \in keys
               /\ \A i \in 0 .. Len(p) - 1 : /\ KidsRight(new[i])
                                             /\ new[i] # Empty => HashOf(new[i]) \in keys
<1> DEFINE n == Len(p)
           D == DOMAIN rws
           new == Rebuilt(rws, root, p, e)
           kids(i) == Kids(rws, Along(rws, root, p)[i].hash)
           under(i) == IF i = n - 1 THEN e ELSE EntryOf(new[i + 1])
           left == CHOOSE k \in 0 .. n : \A i \in 0 .. n - 1 : new[i] # Empty <=> i < k
           file == FileRow(e)
           node(i) == NodeAt(new, i)
           adds == AddsOf(new, e, left)
           l == FileFirst(e)
<1> Len(p) \in Nat \ {0} /\ \A i \in 1 .. Len(p) : p[i] \in Names
    BY DEF IsPath
<1>0. n \in Nat \ {0} /\ \A i \in 0 .. n - 1 : p[i + 1] \in Names
    OBVIOUS
<1>1. \A i \in 0 .. n - 1 : new[i] = Level(kids(i), p[i + 1], under(i))
    BY RebuiltLevels
<1>2. ASSUME NEW i \in 0 .. n - 1 PROVE KidsRight(kids(i)) /\ Listed(kids(i)) \subseteq D
  <2>1. EntryIn(D, Along(rws, root, p)[i])
      BY PathIn
  <2> HIDE DEF D
  <2> QED
      BY <2>1, EntryOpens, KidsOfNode DEF D
<1> HIDE DEF n, kids, new
<1>3. ASSUME NEW i \in 0 .. n - 1
      PROVE  under(i) = NoEntry \/ EntryRight(under(i))
  <2>1. EntryOf(new[i + 1]) = NoEntry \/ EntryRight(EntryOf(new[i + 1]))
      BY DEF EntryOf, Dir, NoCollision, EntryRight
  <2>2. e = NoEntry \/ EntryRight(e)
      BY DEF File, EntryRight
  <2> QED
      BY <2>1, <2>2
<1>4. ASSUME NEW i \in 0 .. n - 1
      PROVE  /\ KidsRight(new[i])
             /\ Listed(new[i]) \subseteq D \cup (IF under(i) = NoEntry THEN {} ELSE {under(i).hash})
             /\ under(i) # NoEntry => new[i] # Empty
             /\ new[i] # Empty => DOMAIN new[i] # {}
  <2> HIDE DEF under, D
  <2>1. LET m == Level(kids(i), p[i + 1], under(i))
        IN  /\ KidsRight(m)
            /\ Listed(m) \subseteq Listed(kids(i)) \cup (IF under(i) = NoEntry THEN {} ELSE {under(i).hash})
            /\ under(i) # NoEntry => m # Empty
            /\ m # Empty => DOMAIN m # {}
      BY <1>0, <1>2, <1>3, LevelSound
  <2> QED
      BY <1>1, <1>2, <2>1
<1>5. left \in 0 .. n /\ \A i \in 0 .. n - 1 : new[i] # Empty <=> i < left
  <2>1. ASSUME NEW i \in 0 .. n - 1, i + 1 \in 0 .. n - 1, new[i + 1] # Empty PROVE new[i] # Empty
    <3>1. i # n - 1
        BY <1>0, <2>1
    <3>2. under(i) = Dir(HashOf(new[i + 1]))
        BY <2>1, <3>1 DEF EntryOf
    <3>3. under(i) # NoEntry
        BY <3>2 DEF Dir, NoEntry
    <3> HIDE DEF under
    <3> QED
        BY <1>4, <3>3
  <2>2. \E k \in 0 .. n : \A i \in 0 .. n - 1 : new[i] # Empty <=> i < k
      BY <1>0, <2>1, Threshold
  <2> QED
      BY <2>2
<1> HIDE DEF left
<1>6. e # NoEntry => left = n
  <2> SUFFICES ASSUME e # NoEntry PROVE left = n
      OBVIOUS
  <2>1. n - 1 \in 0 .. n - 1 /\ under(n - 1) = e
      BY <1>0
  <2>2. new[n - 1] # Empty
      BY <1>4, <2>1
  <2> QED
      BY <1>0, <1>5, <2>1, <2>2
<1>7. /\ \E S : adds \in Seq(S)
      /\ Len(adds) = l + left /\ l \in {0, 1} /\ (l = 1 <=> e # NoEntry)
      /\ l = 1 => adds[1] = file
      /\ \A j \in 1 .. left : adds[l + j] = node(left - j)
  <2>1. left \in Nat
      BY <1>0, <1>5
  <2>2. /\ \E S : adds \in Seq(S)
        /\ Len(adds) = l + left
        /\ e # NoEntry => adds[1] = file
        /\ \A j \in 1 .. left : adds[l + j] = node(left - j)
      BY <2>1, EditAdds
  <2>3. l \in {0, 1} /\ (l = 1 <=> e # NoEntry)
      BY DEF FileFirst
  <2> HIDE DEF l, adds, file, node
  <2> QED
      BY <2>2, <2>3, Zenon
<1> HIDE DEF l, adds
<1> USE DEF NodeAt, FileRow
<1>8. ASSUME NEW j \in 1 .. left
      PROVE  /\ NodeRow(HashOf(new[left - j]), TreeRow(new[left - j]))
             /\ Listed(new[left - j]) \subseteq D \cup Keys(adds, l + j - 1)
  <2> DEFINE i == left - j
  <2>1. i \in 0 .. n - 1 /\ i < left
      BY <1>0, <1>5
  <2>2. new[i] # Empty
      BY <1>5, <2>1
  <2>3. NodeRow(HashOf(new[i]), TreeRow(new[i]))
      BY <1>4, <2>1, <2>2 DEF NodeRow, TreeRow
  <2>4. under(i) # NoEntry => under(i).hash \in Keys(adds, l + j - 1)
    <3>1. CASE i = n - 1 /\ e # NoEntry
      <4>1. l = 1 /\ adds[1].hash = e.hash /\ 1 \in 1 .. l + j - 1
          BY <1>7, <3>1
      <4> QED
          BY <3>1, <4>1 DEF Keys
    <3>2. CASE i # n - 1 /\ new[i + 1] # Empty
      <4>1. i + 1 \in 0 .. n - 1
          BY <1>0, <2>1, <3>2
      <4>2. i + 1 < left
          BY <1>5, <3>2, <4>1
      <4>3. j - 1 \in 1 .. left /\ left - (j - 1) = i + 1 /\ l + (j - 1) \in 1 .. l + j - 1
          BY <1>0, <1>5, <1>7, <4>2
      <4>4. adds[l + (j - 1)] = node(left - (j - 1))
        <5> HIDE DEF node, i
        <5> QED
            BY <1>7, <4>3
      <4>5. under(i).hash = HashOf(new[i + 1])
          BY <3>2 DEF EntryOf, Dir
      <4>6. adds[l + (j - 1)].hash = under(i).hash
        <5> HIDE DEF under, i
        <5> QED
            BY <4>3, <4>4, <4>5
      <4> QED
          BY <4>3, <4>6 DEF Keys
    <3> QED
        BY <3>1, <3>2 DEF EntryOf
  <2> HIDE DEF under, i
  <2>5. Listed(new[i]) \subseteq D \cup Keys(adds, l + j - 1)
      BY <1>4, <2>1, <2>4
  <2> QED
      BY <2>3, <2>5 DEF i
<1>9. Storable(D, adds)
  <2> SUFFICES ASSUME NEW i \in 1 .. Len(adds)
               PROVE  /\ NodeRow(adds[i].hash, adds[i].row)
                      /\ Listed(adds[i].row.kids) \subseteq D \cup Keys(adds, i - 1)
      BY <1>7 DEF Storable
  <2>1. CASE i <= l
    <3>1. i = 1 /\ l = 1 /\ e # NoEntry /\ adds[i] = file
        BY <1>7, <2>1
    <3>2. e.hash \in Blobs
        BY <3>1 DEF File
    <3> QED
        BY <3>1, <3>2 DEF NodeRow, BlobRow, Listed, Empty
  <2>2. CASE i > l
    <3> DEFINE j == i - l
    <3>1. j \in 1 .. left /\ l + j = i /\ l + j - 1 = i - 1
        BY <1>0, <1>5, <1>7, <2>2
    <3>2. adds[i] = node(left - j)
        BY <1>7, <3>1
    <3> HIDE DEF j
    <3> QED
        BY <1>8, <3>1, <3>2 DEF TreeRow
  <2> QED
      BY <1>7, <2>1, <2>2
<1>10. DirIn(D \cup Keys(adds, Len(adds)), HashOf(new[0]))
  <2>1. CASE left = 0
    <3>1. new[0] = Empty
        BY <1>0, <1>5, <2>1
    <3> QED
        BY <3>1, EmptyHash DEF DirIn
  <2>2. CASE left # 0
    <3>1. left \in 1 .. left /\ left - left = 0 /\ l + left \in 1 .. Len(adds)
        BY <1>0, <1>5, <1>7, <2>2
    <3>2. adds[l + left] = node(left - left)
      <4> HIDE DEF node
      <4> QED
          BY <1>7, <3>1
    <3> QED
        BY <3>1, <3>2 DEF DirIn, Keys, NoCollision
  <2> QED
      BY <2>1, <2>2
<1>11. Edited(rws, root, p, e) = [root |-> HashOf(new[0]), adds |-> adds]
    BY DEF Edited, new, n, left, adds, AddsOf
<1>12. e # NoEntry => e.hash \in Keys(adds, Len(adds))
  <2> SUFFICES ASSUME e # NoEntry PROVE e.hash \in Keys(adds, Len(adds))
      OBVIOUS
  <2>1. 1 \in 1 .. Len(adds) /\ adds[1].hash = e.hash
      BY <1>0, <1>5, <1>7
  <2> QED
      BY <2>1 DEF Keys
<1>13. ASSUME NEW i \in 0 .. n - 1, new[i] # Empty PROVE HashOf(new[i]) \in Keys(adds, Len(adds))
  <2>1. left - i \in 1 .. left /\ l + (left - i) \in 1 .. Len(adds) /\ left - (left - i) = i
      BY <1>0, <1>5, <1>7, <1>13
  <2>2. adds[l + (left - i)] = node(left - (left - i))
    <3> HIDE DEF node
    <3> QED
        BY <1>7, <2>1
  <2>3. adds[l + (left - i)].hash = HashOf(new[i])
      BY <2>1, <2>2
  <2> QED
      BY <2>1, <2>3 DEF Keys
<1>14. HashOf(new[0]) \in Deep[MaxDepth]
    BY EditDeep DEF new
<1> QED
    BY <1>4, <1>9, <1>10, <1>11, <1>12, <1>13, <1>14 DEF Fits, new, n

\* What the three edits of a path answer, the errors included.
LEMMA NothingFits == ASSUME NEW D, NEW why PROVE Fits(D, Fails(why))
<1>1. <<>> \in Seq({}) /\ Len(<<>>) = 0
    OBVIOUS
<1> QED
    BY <1>1, EmptyRoot DEF Fits, Fails, Storable, DirIn

\* A file added or replaced.
LEMMA LeavesFit ==
    ASSUME NoCollision, NEW rws, RowsSound(rws), NEW root, DirIn(DOMAIN rws, root),
           root \in Deep[MaxDepth], NEW p, IsPath(p), NEW b \in Blobs
    PROVE  /\ Fits(DOMAIN rws, AddLeaf(rws, root, p, b))
           /\ Fits(DOMAIN rws, ReplaceLeaf(rws, root, p, b))
<1>1. CASE BlobInTheWay(rws, root, p)
    BY <1>1, NothingFits DEF AddLeaf, ReplaceLeaf
<1>2. CASE ~BlobInTheWay(rws, root, p)
  <2>1. Fits(DOMAIN rws, Does(Edited(rws, root, p, File(b))))
      BY <1>2, EditFits DEF Does, Fits
  <2> QED
      BY <1>2, <2>1, NothingFits DEF AddLeaf, ReplaceLeaf
<1> QED
    BY <1>1, <1>2

\* An entry removed.
LEMMA RemoveFits ==
    ASSUME NoCollision, NEW rws, RowsSound(rws), NEW root, DirIn(DOMAIN rws, root),
           root \in Deep[MaxDepth], NEW p, IsPath(p)
    PROVE  Fits(DOMAIN rws, RemoveEntry(rws, root, p))
<1>1. CASE BlobInTheWay(rws, root, p)
    BY <1>1, NothingFits DEF RemoveEntry
<1>2. CASE ~BlobInTheWay(rws, root, p)
  <2>1. Fits(DOMAIN rws, Does(Edited(rws, root, p, NoEntry)))
      BY <1>2, EditFits DEF Does, Fits
  <2> QED
      BY <1>2, <2>1, NothingFits DEF RemoveEntry
<1> QED
    BY <1>1, <1>2

\* A node is inserted after what it lists.
LEMMA InsertSound ==
    ASSUME NEW rws, RowsSound(rws), NEW add, NodeRow(add.hash, add.row),
           Listed(add.row.kids) \subseteq DOMAIN rws
    PROVE  LET t == Insert(rws, add)
           IN  RowsSound(t) /\ DOMAIN t = DOMAIN rws \cup {add.hash}
<1> DEFINE t == Insert(rws, add)
<1>1. DOMAIN t = DOMAIN rws \cup {add.hash}
    BY DEF Insert
<1>2. \A h \in DOMAIN rws : t[h] = rws[h]
    BY DEF Insert
<1>3. add.hash \notin DOMAIN rws => t[add.hash] = add.row
    BY DEF Insert
<1> HIDE DEF t
<1>4. RowsSound(t)
    BY <1>1, <1>2, <1>3 DEF RowsSound
<1> QED
    BY <1>1, <1>4 DEF t

\* The rows after so many inserts.
LEMMA InsertsOneByOne ==
    ASSUME NEW rws, NEW adds, Len(adds) \in Nat
    PROVE  \E after : /\ after[0] = rws
                      /\ \A i \in 1 .. Len(adds) : after[i] = Insert(after[i - 1], adds[i])
                      /\ InsertAll(rws, adds) = after[Len(adds)]
<1> DEFINE F(n, f) == [i \in 0 .. n |-> IF i = 0 THEN rws ELSE Insert(f[i - 1], adds[i])]
           T == {n \in Nat : \E f : f = F(n, f)}
<1>1. 0 \in T
  <2> DEFINE f == [i \in 0 .. 0 |-> rws]
  <2>1. f = F(0, f)
      OBVIOUS
  <2> QED
      BY <2>1
<1>2. ASSUME NEW n \in T PROVE n + 1 \in T
  <2>1. PICK f : f = F(n, f)
      BY <1>2
  <2> DEFINE g == [i \in 0 .. n + 1 |-> IF i \in 0 .. n THEN f[i] ELSE Insert(f[n], adds[n + 1])]
  <2>2. g = F(n + 1, g)
    <3>1. ASSUME NEW i \in 0 .. n + 1, i # 0 PROVE i - 1 \in 0 .. n /\ g[i - 1] = f[i - 1]
        BY <3>1
    <3>2. ASSUME NEW i \in 0 .. n PROVE f[i] = IF i = 0 THEN rws ELSE Insert(f[i - 1], adds[i])
        BY <2>1
    <3> QED
        BY <3>1, <3>2
  <2> HIDE DEF g
  <2>3. \E h : h = F(n + 1, h)
      BY <2>2
  <2>4. n + 1 \in Nat
      OBVIOUS
  <2> HIDE DEF F
  <2> QED
      BY <2>3, <2>4
<1>3. Len(adds) \in T
  <2> HIDE DEF T
  <2> QED
      BY <1>1, <1>2, SetInduction
<1> DEFINE after == CHOOSE f : f = F(Len(adds), f)
<1>4. after = F(Len(adds), after)
    BY <1>3
<1>5. InsertAll(rws, adds) = after[Len(adds)]
    BY DEF InsertAll
<1> HIDE DEF after
<1>6. after[0] = rws /\ \A i \in 1 .. Len(adds) : after[i] = Insert(after[i - 1], adds[i])
    BY <1>4
<1> QED
    BY <1>5, <1>6

\* Nodes inserted in an order they fit in leave sound rows.
LEMMA InsertAllSound ==
    ASSUME NEW rws, RowsSound(rws), NEW adds, Storable(DOMAIN rws, adds)
    PROVE  LET t == InsertAll(rws, adds)
           IN  RowsSound(t) /\ DOMAIN t = DOMAIN rws \cup Keys(adds, Len(adds))
<1> DEFINE n == Len(adds)
           D == DOMAIN rws
<1>0. n \in Nat
    BY DEF Storable
<1>1. PICK after : /\ after[0] = rws
                   /\ \A i \in 1 .. n : after[i] = Insert(after[i - 1], adds[i])
                   /\ InsertAll(rws, adds) = after[n]
    BY <1>0, InsertsOneByOne
<1> DEFINE T == {i \in Nat : i <= n => RowsSound(after[i]) /\ DOMAIN after[i] = D \cup Keys(adds, i)}
<1>2. 0 \in T
  <2>1. Keys(adds, 0) = {}
      BY DEF Keys
  <2> QED
      BY <1>1, <2>1
<1>3. ASSUME NEW i \in Nat, i \in T PROVE i + 1 \in T
  <2> SUFFICES ASSUME i + 1 <= n
               PROVE  RowsSound(after[i + 1]) /\ DOMAIN after[i + 1] = D \cup Keys(adds, i + 1)
      OBVIOUS
  <2>1. RowsSound(after[i]) /\ DOMAIN after[i] = D \cup Keys(adds, i)
      BY <1>0, <1>3
  <2>2. i + 1 \in 1 .. n /\ (i + 1) - 1 = i
      BY <1>0
  <2>3. after[i + 1] = Insert(after[i], adds[i + 1])
      BY <1>1, <2>2
  <2>4. /\ NodeRow(adds[i + 1].hash, adds[i + 1].row)
        /\ Listed(adds[i + 1].row.kids) \subseteq D \cup Keys(adds, i)
      BY <2>2 DEF Storable
  <2>5. Keys(adds, i + 1) = Keys(adds, i) \cup {adds[i + 1].hash}
    <3>1. 1 .. i + 1 = (1 .. i) \cup {i + 1}
        OBVIOUS
    <3> QED
        BY <3>1 DEF Keys
  <2> DEFINE add == adds[i + 1]
  <2>6. Listed(add.row.kids) \subseteq DOMAIN after[i] /\ NodeRow(add.hash, add.row)
      BY <2>1, <2>4
  <2> HIDE DEF add
  <2>7. LET t == Insert(after[i], add)
        IN  RowsSound(t) /\ DOMAIN t = DOMAIN after[i] \cup {add.hash}
      BY <2>1, <2>6, InsertSound
  <2> QED
      BY <2>1, <2>3, <2>5, <2>7 DEF add
<1> HIDE DEF T, n
<1>4. n \in T
    BY <1>0, <1>2, <1>3, SetInduction
<1> QED
    BY <1>0, <1>1, <1>4 DEF T, n

----------------------------------------------------------------------------
(* The order of paths.                                                     *)

\* One path comes before another where they part: there it ends, or has the
\* lesser name.
Parts(p, q, i) ==
    /\ \A j \in 1 .. i - 1 : j <= Len(p) /\ p[j] = q[j]
    /\ i = Len(p) + 1 \/ (i <= Len(p) /\ p[i] < q[i])

\* A path begins with a shorter one.
LEMMA PrefixIs ==
    ASSUME NEW p \in Seq(Nat), NEW q \in Seq(Nat)
    PROVE  IsStrictPrefix(p, q) <=> Len(p) < Len(q) /\ \A i \in 1 .. Len(p) : p[i] = q[i]
<1> DEFINE n == Len(p)
<1>1. SubSeq(p, 1, n) = [i \in 1 .. n |-> p[i]]
    OBVIOUS
<1>2. CASE n <= Len(q)
  <2>1. SubSeq(q, 1, n) = [i \in 1 .. n |-> q[i]]
      BY <1>2
  <2>2. IsPrefix(p, q) <=> \A i \in 1 .. n : p[i] = q[i]
    <3>1. IsPrefix(p, q) <=> [i \in 1 .. n |-> p[i]] = [i \in 1 .. n |-> q[i]]
        BY <1>1, <1>2, <2>1 DEF IsPrefix
    <3> QED
        BY <3>1
  <2>3. (\A i \in 1 .. n : p[i] = q[i]) => (p # q <=> n < Len(q))
      BY <1>2
  <2> QED
      BY <2>2, <2>3 DEF IsStrictPrefix
<1>3. CASE ~(n <= Len(q))
    BY <1>3 DEF IsStrictPrefix, IsPrefix
<1> QED
    BY <1>2, <1>3

\* Path.Compare, in terms of where paths part.
LEMMA BeforeIs ==
    ASSUME NEW p \in Seq(Nat), NEW q \in Seq(Nat)
    PROVE  Before(p, q) <=> \E i \in 1 .. Len(q) : Parts(p, q, i)
<1>1. ASSUME IsStrictPrefix(p, q) PROVE \E i \in 1 .. Len(q) : Parts(p, q, i)
  <2>1. Len(p) < Len(q) /\ \A i \in 1 .. Len(p) : p[i] = q[i]
      BY <1>1, PrefixIs
  <2>2. Len(p) + 1 \in 1 .. Len(q) /\ Parts(p, q, Len(p) + 1)
      BY <2>1 DEF Parts
  <2> QED
      BY <2>2
<1>2. ASSUME NEW i \in 1 .. Len(p), i <= Len(q), p[i] < q[i], \A j \in 1 .. i - 1 : p[j] = q[j]
      PROVE  i \in 1 .. Len(q) /\ Parts(p, q, i)
    BY <1>2 DEF Parts
<1>3. ASSUME NEW i \in 1 .. Len(q), Parts(p, q, i) PROVE Before(p, q)
  <2>1. CASE i = Len(p) + 1
    <3>1. IsStrictPrefix(p, q)
        BY <1>3, <2>1, PrefixIs DEF Parts
    <3> QED
        BY <3>1 DEF Before
  <2>2. CASE i # Len(p) + 1
      BY <1>3, <2>2 DEF Parts, Before
  <2> QED
      BY <2>1, <2>2
<1>4. Before(p, q) => \E i \in 1 .. Len(q) : Parts(p, q, i)
    BY <1>1, <1>2 DEF Before
<1> QED
    BY <1>3, <1>4

\* The least number of a set.
LEMMA LeastNumber ==
    ASSUME NEW S, S \subseteq Nat, NEW m \in S
    PROVE  \E n \in S : \A k \in S : n <= k
<1> SUFFICES ASSUME \A n \in S : \E k \in S : k < n PROVE FALSE
    OBVIOUS
<1> DEFINE T == {n \in Nat : \A k \in S : n <= k}
<1>1. 0 \in T
    OBVIOUS
<1>2. ASSUME NEW n \in Nat, n \in T PROVE n + 1 \in T
    BY <1>2
<1> HIDE DEF T
<1>3. m + 1 \in T
    BY <1>1, <1>2, SetInduction
<1> QED
    BY <1>3 DEF T

\* A strict total order.
LEMMA BeforeOrders ==
    ASSUME NEW p \in Seq(Nat), NEW q \in Seq(Nat), NEW r \in Seq(Nat)
    PROVE  /\ ~Before(p, p)
           /\ Before(p, q) /\ Before(q, r) => Before(p, r)
           /\ p # q => Before(p, q) \/ Before(q, p)
<1>0. /\ Len(p) \in Nat /\ Len(q) \in Nat /\ Len(r) \in Nat
      /\ \A j \in 1 .. Len(p) : p[j] \in Nat
      /\ \A j \in 1 .. Len(q) : q[j] \in Nat
      /\ \A j \in 1 .. Len(r) : r[j] \in Nat
    OBVIOUS
<1>1. ~Before(p, p)
  <2>1. \A i \in 1 .. Len(p) : ~Parts(p, p, i)
      BY <1>0 DEF Parts
  <2> QED
      BY <2>1, BeforeIs
<1>2. ASSUME Before(p, q), Before(q, r) PROVE Before(p, r)
  <2>1. PICK i \in 1 .. Len(q) : Parts(p, q, i)
      BY <1>2, BeforeIs
  <2>2. PICK k \in 1 .. Len(r) : Parts(q, r, k)
      BY <1>2, BeforeIs
  <2>3. CASE i < k
    <3>1. i \in 1 .. k - 1 /\ i \in 1 .. Len(r) /\ r[i] = q[i]
        BY <1>0, <2>2, <2>3 DEF Parts
    <3>2. ASSUME NEW j \in 1 .. i - 1 PROVE j <= Len(p) /\ p[j] = r[j]
      <4>1. j \in 1 .. k - 1
          BY <2>3
      <4> QED
          BY <2>1, <2>2, <4>1 DEF Parts
    <3>3. i = Len(p) + 1 \/ (i <= Len(p) /\ p[i] < r[i])
        BY <2>1, <3>1 DEF Parts
    <3>4. Parts(p, r, i)
        BY <3>2, <3>3 DEF Parts
    <3> QED
        BY <3>1, <3>4, BeforeIs
  <2>4. CASE k <= i
    <3>1. ASSUME NEW j \in 1 .. k - 1 PROVE j <= Len(p) /\ p[j] = r[j]
      <4>1. j \in 1 .. i - 1
          BY <2>4
      <4> QED
          BY <2>1, <2>2, <4>1 DEF Parts
    <3>2. k <= Len(q) /\ q[k] < r[k]
        BY <1>0, <2>2, <2>4 DEF Parts
    <3>3. k = Len(p) + 1 \/ (k <= Len(p) /\ p[k] < r[k])
      <4>1. CASE k = i
        <5>1. i = Len(p) + 1 \/ (i <= Len(p) /\ p[i] < q[i])
            BY <2>1 DEF Parts
        <5>2. i <= Len(p) => p[i] \in Nat /\ q[i] \in Nat /\ r[i] \in Nat
            BY <1>0, <4>1
        <5> QED
            BY <3>2, <4>1, <5>1, <5>2
      <4>2. CASE k # i
        <5>1. k \in 1 .. i - 1
            BY <2>4, <4>2
        <5> QED
            BY <2>1, <3>2, <5>1 DEF Parts
      <4> QED
          BY <4>1, <4>2
    <3>4. Parts(p, r, k)
        BY <3>1, <3>3 DEF Parts
    <3> QED
        BY <3>4, BeforeIs
  <2> QED
      BY <2>3, <2>4
<1>3. ASSUME p # q PROVE Before(p, q) \/ Before(q, p)
  <2> DEFINE S == {i \in Nat \ {0} : i = Len(p) + 1 \/ i = Len(q) + 1 \/ p[i] # q[i]}
  <2>1. Len(p) + 1 \in S /\ S \subseteq Nat
      OBVIOUS
  <2>2. PICK i \in S : \A k \in S : i <= k
    <3> HIDE DEF S
    <3> QED
        BY <2>1, LeastNumber
  <2>3. /\ i \in Nat \ {0} /\ i <= Len(p) + 1 /\ i <= Len(q) + 1
        /\ \A j \in 1 .. i - 1 : j <= Len(p) /\ j <= Len(q) /\ p[j] = q[j]
    <3>1. Len(q) + 1 \in S
        OBVIOUS
    <3>2. i <= Len(p) + 1 /\ i <= Len(q) + 1
        BY <2>1, <2>2, <3>1
    <3>3. \A j \in 1 .. i - 1 : j \notin S
      <4>1. \A j \in 1 .. i - 1 : ~(i <= j)
          OBVIOUS
      <4> QED
          BY <2>2, <4>1
    <3>4. i \in Nat \ {0} /\ Len(p) \in Nat /\ Len(q) \in Nat
        OBVIOUS
    <3>5. \A j \in 1 .. i - 1 : p[j] = q[j]
        BY <3>3
    <3> HIDE DEF S
    <3> QED
        BY <3>2, <3>4, <3>5
  <2>4. ~(Len(p) = i - 1 /\ Len(q) = i - 1)
      BY <1>3, <2>3
  <2>5. CASE i = Len(p) + 1
    <3>1. i \in 1 .. Len(q) /\ Parts(p, q, i)
        BY <2>3, <2>4, <2>5 DEF Parts
    <3> QED
        BY <3>1, BeforeIs
  <2>6. CASE i = Len(q) + 1
    <3>1. i \in 1 .. Len(p) /\ Parts(q, p, i)
        BY <2>3, <2>4, <2>6 DEF Parts
    <3> QED
        BY <3>1, BeforeIs
  <2>7. CASE i # Len(p) + 1 /\ i # Len(q) + 1
    <3>1. i \in 1 .. Len(p) /\ i \in 1 .. Len(q) /\ p[i] \in Nat /\ q[i] \in Nat /\ p[i] # q[i]
        BY <2>3, <2>7
    <3>2. p[i] < q[i] \/ q[i] < p[i]
        BY <3>1
    <3>3. Parts(p, q, i) \/ Parts(q, p, i)
      <4>1. \A j \in 1 .. i - 1 : j <= Len(p) /\ j <= Len(q) /\ p[j] = q[j] /\ q[j] = p[j]
          BY <2>3
      <4> QED
          BY <3>1, <3>2, <4>1 DEF Parts
    <3> QED
        BY <3>1, <3>3, BeforeIs
  <2> QED
      BY <2>5, <2>6, <2>7
<1> QED
    BY <1>1, <1>2, <1>3

\* A set that lacks an element of a finite one is smaller.
LEMMA Smaller ==
    ASSUME NEW S, IsFiniteSet(S), NEW T, T \subseteq S, NEW x \in S \ T
    PROVE  Cardinality(T) \in Nat /\ Cardinality(S) \in Nat /\ Cardinality(T) < Cardinality(S)
<1>1. IsFiniteSet(T) /\ Cardinality(T) <= Cardinality(S) /\ (Cardinality(S) = Cardinality(T) => S = T)
    BY FS_Subset
<1>2. Cardinality(T) \in Nat /\ Cardinality(S) \in Nat
    BY <1>1, FS_CardinalityType
<1> QED
    BY <1>1, <1>2

\* What a function makes of a finite set is finite.
LEMMA ImageFinite ==
    ASSUME NEW S, IsFiniteSet(S), NEW f, DOMAIN f = S, f = [x \in S |-> f[x]]
    PROVE  IsFiniteSet({f[x] : x \in S})
<1> DEFINE T == {f[x] : x \in S}
<1>1. f \in Surjection(S, T)
    BY DEF Surjection
<1> HIDE DEF T
<1>2. IsFiniteSet(T)
    BY <1>1, FS_Surjection
<1> QED
    BY <1>2 DEF T

\* How many paths of S come before p: the paths of S have the numbers below its
\* size, each its own, in their order.
Rank(S, p) == Cardinality({q \in S : Before(q, p)})

LEMMA Ranks ==
    ASSUME NEW S, IsFiniteSet(S), S \subseteq Seq(Nat)
    PROVE  /\ Cardinality(S) \in Nat
           /\ \A p \in S : Rank(S, p) \in 0 .. Cardinality(S) - 1
           /\ \A p, q \in S : Before(p, q) => Rank(S, p) < Rank(S, q)
           /\ \A k \in 0 .. Cardinality(S) - 1 : \E p \in S : Rank(S, p) = k
<1> DEFINE n == Cardinality(S)
<1>1. n \in Nat
    BY FS_CardinalityType
<1>2. ASSUME NEW p \in S PROVE Rank(S, p) \in 0 .. n - 1
  <2> DEFINE T == {q \in S : Before(q, p)}
  <2>1. T \subseteq S /\ p \in S \ T
      BY BeforeOrders
  <2> HIDE DEF T
  <2>2. Cardinality(T) \in Nat /\ Cardinality(T) < n
      BY <2>1, Smaller
  <2>3. Rank(S, p) = Cardinality(T)
      BY DEF Rank, T
  <2> HIDE DEF n
  <2> QED
      BY <1>1, <2>2, <2>3
<1>3. ASSUME NEW p \in S, NEW q \in S, Before(p, q) PROVE Rank(S, p) < Rank(S, q)
  <2> DEFINE T == {r \in S : Before(r, p)}
             U == {r \in S : Before(r, q)}
  <2>1. T \subseteq U /\ p \in U \ T
      BY <1>3, BeforeOrders
  <2>2. IsFiniteSet(U)
      BY FS_Subset
  <2> HIDE DEF T, U
  <2>3. Cardinality(T) < Cardinality(U)
      BY <2>1, <2>2, Smaller
  <2> QED
      BY <2>3 DEF Rank, T, U
<1>4. ASSUME NEW k \in 0 .. n - 1 PROVE \E p \in S : Rank(S, p) = k
  <2> SUFFICES ASSUME \A p \in S : Rank(S, p) # k PROVE FALSE
      OBVIOUS
  <2> DEFINE T == (0 .. n - 1) \ {k}
             f == [p \in S |-> Rank(S, p)]
  <2>1. f \in [S -> T]
      BY <1>2
  <2>2. IsFiniteSet(0 .. n - 1) /\ Cardinality(0 .. n - 1) = n
    <3> HIDE DEF n
    <3>1. 0 \in Int /\ n - 1 \in Int /\ ~(0 > n - 1) /\ (n - 1) - 0 + 1 = n
        BY <1>1
    <3> QED
        BY <3>1, FS_Interval
  <2>3. T \subseteq 0 .. n - 1 /\ k \in (0 .. n - 1) \ T
      OBVIOUS
  <2>4. IsFiniteSet(T)
      BY <2>2, <2>3, FS_Subset
  <2> HIDE DEF T, f, n
  <2>5. Cardinality(T) < Cardinality(0 .. n - 1)
      BY <2>2, <2>3, Smaller
  <2>6. Cardinality(T) < Cardinality(S)
      BY <2>2, <2>5 DEF n
  <2>7. PICK p, q \in S : p # q /\ f[p] = f[q]
      BY <2>1, <2>4, <2>6, FS_PigeonHole
  <2>8. Rank(S, p) = Rank(S, q)
      BY <2>7 DEF f
  <2>9. Before(p, q) \/ Before(q, p)
      BY <2>7, BeforeOrders
  <2> QED
      BY <1>1, <1>2, <1>3, <2>8, <2>9
<1> QED
    BY <1>1, <1>2, <1>3, <1>4

\* The first of some paths is one of them.
LEMMA FirstIn ==
    ASSUME NEW S, IsFiniteSet(S), S \subseteq Seq(Nat), S # {}
    PROVE  First(S) \in S /\ \A q \in S \ {First(S)} : Before(First(S), q)
<1>1. Cardinality(S) \in Nat /\ Cardinality(S) # 0
    BY FS_EmptySet, FS_CardinalityType
<1>2. PICK p \in S : Rank(S, p) = 0
  <2>1. 0 \in 0 .. Cardinality(S) - 1
      BY <1>1
  <2> QED
      BY <2>1, Ranks
<1>3. ASSUME NEW q \in S \ {p} PROVE Before(p, q)
  <2>1. ~Before(q, p)
    <3>1. Before(q, p) => Rank(S, q) < Rank(S, p)
        BY Ranks
    <3>2. Rank(S, q) \in 0 .. Cardinality(S) - 1
        BY Ranks
    <3> QED
        BY <1>1, <1>2, <3>1, <3>2
  <2> QED
      BY <2>1, BeforeOrders
<1>4. \E r \in S : \A q \in S \ {r} : Before(r, q)
    BY <1>3
<1> QED
    BY <1>4 DEF First

\* A sorted set of paths.
LEMMA SortedIn ==
    ASSUME NEW S, IsFiniteSet(S), S \subseteq Seq(Nat)
    PROVE  Sorted(S) \in Seq(S)
<1>1. Cardinality(S) \in Nat
    BY FS_CardinalityType
<1>2. ASSUME NEW i \in 1 .. Cardinality(S) PROVE Sorted(S)[i] \in S
  <2>1. i - 1 \in 0 .. Cardinality(S) - 1
      BY <1>1
  <2>2. \E p \in S : Rank(S, p) = i - 1
      BY <2>1, Ranks
  <2> QED
      BY <2>2 DEF Sorted, Rank
<1> DEFINE g(i) == CHOOSE p \in S : Cardinality({q \in S : Before(q, p)}) = i - 1
<1>3. Sorted(S) = [i \in 1 .. Cardinality(S) |-> g(i)]
    BY DEF Sorted
<1> HIDE DEF g
<1>4. \A i \in 1 .. Cardinality(S) : g(i) \in S
    BY <1>2, <1>3
<1> QED
    BY <1>1, <1>3, <1>4

----------------------------------------------------------------------------
(* The entries of a tree.                                                  *)

\* A sequence of values, each made from the one before it.
Iterates(S, a, n, G, f) ==
    f \in [0 .. n -> S] /\ f[0] = a /\ \A i \in 1 .. n : f[i] = G[<<i, f[i - 1]>>]

LEMMA Iterated ==
    ASSUME NEW S, NEW a \in S, NEW n \in Nat, NEW G \in [(1 .. n) \X S -> S]
    PROVE  \E f : Iterates(S, a, n, G, f)
<1> DEFINE Q(m) == \E f \in [0 .. m -> S] : f[0] = a /\ \A i \in 1 .. m : f[i] = G[<<i, f[i - 1]>>]
           T == {m \in Nat : m <= n => Q(m)}
<1>1. 0 \in T
  <2> DEFINE f == [i \in 0 .. 0 |-> a]
  <2>1. f \in [0 .. 0 -> S] /\ f[0] = a /\ \A i \in 1 .. 0 : f[i] = G[<<i, f[i - 1]>>]
      OBVIOUS
  <2> HIDE DEF f
  <2> QED
      BY <2>1
<1>2. ASSUME NEW m \in Nat, m \in T PROVE m + 1 \in T
  <2> SUFFICES ASSUME m + 1 <= n PROVE Q(m + 1)
      OBVIOUS
  <2>1. PICK f \in [0 .. m -> S] : f[0] = a /\ \A i \in 1 .. m : f[i] = G[<<i, f[i - 1]>>]
      BY <1>2
  <2> DEFINE g == [i \in 0 .. m + 1 |-> IF i \in 0 .. m THEN f[i] ELSE G[<<m + 1, f[m]>>]]
  <2>2. G[<<m + 1, f[m]>>] \in S
    <3>1. <<m + 1, f[m]>> \in (1 .. n) \X S
        BY <2>1
    <3> QED
        BY <3>1
  <2>3. g \in [0 .. m + 1 -> S]
      BY <2>1, <2>2
  <2>4. g[0] = a
      BY <2>1
  <2>5. ASSUME NEW i \in 1 .. m + 1 PROVE g[i] = G[<<i, g[i - 1]>>]
    <3>1. i - 1 \in 0 .. m /\ g[i - 1] = f[i - 1]
        OBVIOUS
    <3>2. CASE i = m + 1
      <4>1. m + 1 \notin 0 .. m /\ m + 1 \in 0 .. m + 1 /\ i - 1 = m
          BY <3>2
      <4>2. g[m + 1] = G[<<m + 1, f[m]>>]
          BY <4>1
      <4> HIDE DEF g
      <4>3. g[i - 1] = f[m]
          BY <3>1, <4>1
      <4> QED
          BY <3>2, <4>2, <4>3
    <3>3. CASE i # m + 1
      <4>1. i \in 1 .. m /\ i \in 0 .. m
          BY <3>3
      <4> QED
          BY <2>1, <3>1, <4>1
    <3> QED
        BY <3>2, <3>3
  <2> HIDE DEF g
  <2> QED
      BY <2>3, <2>4, <2>5
<1> HIDE DEF T
<1>3. n \in T
    BY <1>1, <1>2, SetInduction
<1> QED
    BY <1>3 DEF T, Iterates

\* Values that stay in a set from one to the next.
LEMMA StaysIn ==
    ASSUME NEW S, NEW f, NEW n \in Nat, f[0] \in S, \A i \in 1 .. n : f[i - 1] \in S => f[i] \in S
    PROVE  \A i \in 0 .. n : f[i] \in S
<1> DEFINE T == {m \in Nat : m <= n => f[m] \in S}
<1>1. 0 \in T
    OBVIOUS
<1>2. ASSUME NEW m \in Nat, m \in T PROVE m + 1 \in T
  <2> SUFFICES ASSUME m + 1 <= n PROVE f[m + 1] \in S
      OBVIOUS
  <2>1. m + 1 \in 1 .. n /\ (m + 1) - 1 = m /\ f[m] \in S
      BY <1>2
  <2> QED
      BY <2>1
<1> HIDE DEF T
<1>3. Nat \subseteq T
    BY <1>1, <1>2, SetInduction
<1> QED
    BY <1>3 DEF T

\* Paths that begin alike meet the same entries so far.
LEMMA AlongPrefix ==
    ASSUME NEW rws, NEW root, NEW p, NEW q, Len(p) \in Nat, Len(q) \in Nat,
           NEW k \in 0 .. Len(p), k <= Len(q), \A i \in 1 .. k : p[i] = q[i]
    PROVE  Along(rws, root, p)[k] = Along(rws, root, q)[k]
<1> DEFINE at == Along(rws, root, p)
           bt == Along(rws, root, q)
           T  == {i \in Nat : i <= k => at[i] = bt[i]}
<1>1. /\ at = [i \in 0 .. Len(p) |-> IF i = 0 THEN Dir(root) ELSE Below(rws, at[i - 1], p[i])]
      /\ bt = [i \in 0 .. Len(q) |-> IF i = 0 THEN Dir(root) ELSE Below(rws, bt[i - 1], q[i])]
    BY AlongEntries
<1> HIDE DEF at, bt
<1>2. 0 \in T
    BY <1>1
<1>3. ASSUME NEW i \in Nat, i \in T PROVE i + 1 \in T
  <2> SUFFICES ASSUME i + 1 <= k PROVE at[i + 1] = bt[i + 1]
      OBVIOUS
  <2>1. at[i + 1] = Below(rws, at[i], p[i + 1]) /\ bt[i + 1] = Below(rws, bt[i], q[i + 1])
      BY <1>1
  <2>2. at[i] = bt[i] /\ p[i + 1] = q[i + 1]
      BY <1>3
  <2> QED
      BY <2>1, <2>2
<1> HIDE DEF T
<1>4. k \in T
    BY <1>2, <1>3, SetInduction
<1> QED
    BY <1>4 DEF T, at, bt

\* An entry one name further.
LEMMA EntryBelow ==
    ASSUME NEW rws, NEW root, NEW S, NEW p \in Seq(S), NEW n \in S
    PROVE  EntryAt(rws, root, Append(p, n)) = Below(rws, EntryAt(rws, root, p), n)
<1> DEFINE q == Append(p, n)
           k == Len(p)
<1>1. /\ k \in Nat /\ Len(q) = k + 1 /\ q[k + 1] = n
      /\ \A i \in 1 .. k : p[i] = q[i]
    OBVIOUS
<1> HIDE DEF q, k
<1>2. Along(rws, root, q)[k + 1] = Below(rws, Along(rws, root, q)[k], n)
  <2> DEFINE bt == Along(rws, root, q)
  <2>1. bt = [i \in 0 .. Len(q) |-> IF i = 0 THEN Dir(root) ELSE Below(rws, bt[i - 1], q[i])]
      BY <1>1, AlongEntries
  <2> HIDE DEF bt
  <2>2. bt[k + 1] = Below(rws, bt[(k + 1) - 1], q[k + 1])
      BY <1>1, <2>1
  <2> QED
      BY <1>1, <2>2 DEF bt
<1>3. Along(rws, root, p)[k] = Along(rws, root, q)[k]
    BY <1>1, AlongPrefix DEF k
<1> QED
    BY <1>1, <1>2, <1>3 DEF EntryAt, q, k

\* The paths of so many names at which there is something.
Entries(rws, root, k) == {p \in Seq(Names) : Len(p) = k /\ EntryAt(rws, root, p) # NoEntry}
Lower(rws, root, p)   == {Append(p, n) : n \in DOMAIN Kids(rws, EntryAt(rws, root, p).hash)}
Deeper(rws, root, L)  == UNION {Lower(rws, root, p) : p \in {q \in L : EntryAt(rws, root, q).isDir}}

\* The first entry on a path is the root.
LEMMA RootFirst ==
    ASSUME NEW rws, NEW root, NEW p, Len(p) \in Nat
    PROVE  Along(rws, root, p)[0] = Dir(root)
<1> DEFINE at == Along(rws, root, p)
<1>1. at = [i \in 0 .. Len(p) |-> IF i = 0 THEN Dir(root) ELSE Below(rws, at[i - 1], p[i])]
    BY AlongEntries
<1> HIDE DEF at
<1>2. at[0] = Dir(root)
    BY <1>1
<1> QED
    BY <1>2 DEF at

\* The root's only path has no names.
LEMMA RootEntry ==
    ASSUME NEW rws, NEW root
    PROVE  Entries(rws, root, 0) = {<<>>} /\ EntryAt(rws, root, <<>>) = Dir(root)
<1>1. Len(<<>>) = 0 /\ <<>> \in Seq(Names)
    OBVIOUS
<1>2. EntryAt(rws, root, <<>>) = Dir(root)
    BY <1>1, RootFirst DEF EntryAt
<1>3. \A q \in Seq(Names) : Len(q) = 0 <=> q = <<>>
    OBVIOUS
<1>4. Dir(root) # NoEntry
    BY DEF Dir, NoEntry
<1>5. Entries(rws, root, 0) = {<<>>}
    BY <1>1, <1>2, <1>3, <1>4 DEF Entries
<1> QED
    BY <1>2, <1>5

\* A path of more names continues one that leads to a directory.
LEMMA EntriesDeeper ==
    ASSUME NoCollision, NEW rws, RowsSound(rws), NEW root, DirIn(DOMAIN rws, root), NEW k \in Nat
    PROVE  Entries(rws, root, k + 1) = Deeper(rws, root, Entries(rws, root, k))
<1> DEFINE E(p) == EntryAt(rws, root, p)
<1>1. ASSUME NEW p \in Seq(Names) PROVE EntryIn(DOMAIN rws, E(p))
  <2>1. Len(p) \in Nat /\ Len(p) \in 0 .. Len(p)
      OBVIOUS
  <2> QED
      BY <2>1, PathIn DEF EntryAt
<1>2. ASSUME NEW p \in Seq(Names), Len(p) = k, E(p).isDir, NEW n \in DOMAIN Kids(rws, E(p).hash)
      PROVE  Append(p, n) \in Entries(rws, root, k + 1)
  <2> DEFINE kids == Kids(rws, E(p).hash)
  <2>1. KidsRight(kids)
      BY <1>1, EntryOpens, KidsOfNode
  <2>2. n \in Names /\ EntryRight(kids[n])
      BY <2>1 DEF KidsRight
  <2>3. E(Append(p, n)) = kids[n]
      BY <1>2, <2>2, EntryBelow DEF Below
  <2>4. kids[n] # NoEntry
      BY <2>2, EmptyHash DEF EntryRight, NoEntry, File, Dir, NoCollision
  <2>5. Append(p, n) \in Seq(Names) /\ Len(Append(p, n)) = k + 1
      BY <1>2, <2>2
  <2> HIDE DEF kids, E
  <2> QED
      BY <2>3, <2>4, <2>5 DEF Entries, E
<1>3. ASSUME NEW p \in Entries(rws, root, k + 1)
      PROVE  \E q \in Entries(rws, root, k) : E(q).isDir /\ p \in Lower(rws, root, q)
  <2> DEFINE q == SubSeq(p, 1, k)
             n == p[k + 1]
  <2>1. p \in Seq(Names) /\ Len(p) = k + 1 /\ E(p) # NoEntry
      BY DEF Entries
  <2>2. q \in Seq(Names) /\ Len(q) = k /\ n \in Names /\ p = Append(q, n)
      BY <2>1
  <2> HIDE DEF q, n
  <2>3. E(p) = Below(rws, E(q), n)
      BY <2>2, EntryBelow
  <2>4. EntryIn(DOMAIN rws, E(q))
      BY <1>1, <2>2
  <2>5. E(q).isDir /\ n \in DOMAIN Kids(rws, E(q).hash)
    <3> HIDE DEF E
    <3> QED
        BY <2>1, <2>3, <2>4, BelowIn
  <2>6. E(q) # NoEntry
      BY <2>5 DEF NoEntry
  <2> QED
      BY <2>2, <2>5, <2>6 DEF Entries, Lower
<1>4. ASSUME NEW q \in Entries(rws, root, k), E(q).isDir
      PROVE  Lower(rws, root, q) \subseteq Entries(rws, root, k + 1)
  <2>1. q \in Seq(Names) /\ Len(q) = k
      BY DEF Entries
  <2> HIDE DEF E
  <2>2. \A n \in DOMAIN Kids(rws, E(q).hash) : Append(q, n) \in Entries(rws, root, k + 1)
      BY <1>2, <1>4, <2>1
  <2> QED
      BY <2>2 DEF Lower, E
<1> QED
    BY <1>3, <1>4 DEF Deeper

\* There are finitely many, as every directory has finitely many children.
LEMMA EntriesFinite ==
    ASSUME NoCollision, NEW rws, RowsSound(rws), NEW root, DirIn(DOMAIN rws, root), NEW k \in Nat
    PROVE  IsFiniteSet(Entries(rws, root, k))
<1> DEFINE T == {j \in Nat : IsFiniteSet(Entries(rws, root, j))}
<1>1. 0 \in T
  <2>1. IsFiniteSet({<<>>})
      BY FS_Singleton, Zenon
  <2>2. Entries(rws, root, 0) = {<<>>}
      BY RootEntry
  <2> QED
      BY <2>1, <2>2
<1>2. ASSUME NEW j \in Nat, j \in T PROVE j + 1 \in T
  <2> DEFINE L == {q \in Entries(rws, root, j) : EntryAt(rws, root, q).isDir}
             low == [p \in L |-> Lower(rws, root, p)]
  <2>1. IsFiniteSet(L)
      BY <1>2, FS_Subset
  <2>2. ASSUME NEW p \in L PROVE IsFiniteSet(Lower(rws, root, p))
    <3> DEFINE names == DOMAIN Kids(rws, EntryAt(rws, root, p).hash)
               f == [n \in names |-> Append(p, n)]
    <3>1. Len(p) \in Nat /\ Len(p) \in 0 .. Len(p)
        BY DEF Entries
    <3>2. EntryIn(DOMAIN rws, EntryAt(rws, root, p))
        BY <3>1, PathIn DEF EntryAt
    <3>3. IsFiniteSet(names)
        BY <3>2, EntryOpens, KidsOfNode DEF KidsRight
    <3> HIDE DEF names
    <3>4. DOMAIN f = names /\ f = [n \in names |-> f[n]]
        OBVIOUS
    <3> HIDE DEF f
    <3>5. IsFiniteSet({f[n] : n \in names})
        BY <3>3, <3>4, ImageFinite
    <3> USE DEF f
    <3>6. {f[n] : n \in names} = {Append(p, n) : n \in names}
        OBVIOUS
    <3> QED
        BY <3>5, <3>6 DEF Lower, names
  <2>3. DOMAIN low = L /\ low = [p \in L |-> low[p]]
      OBVIOUS
  <2> HIDE DEF L, low
  <2>4. IsFiniteSet({low[p] : p \in L})
      BY <2>1, <2>3, ImageFinite
  <2>5. \A p \in L : low[p] = Lower(rws, root, p)
      BY DEF low
  <2>6. IsFiniteSet(UNION {low[p] : p \in L})
      BY <2>2, <2>4, <2>5, FS_UNION
  <2>7. Deeper(rws, root, Entries(rws, root, j)) = UNION {low[p] : p \in L}
      BY <2>5 DEF Deeper, L
  <2> QED
      BY <2>6, <2>7, EntriesDeeper
<1> HIDE DEF T
<1>3. k \in T
    BY <1>1, <1>2, SetInduction
<1> QED
    BY <1>3 DEF T

\* The paths of a tree are those at which there is something, as far as they go.
LEMMA PathsAre ==
    ASSUME NoCollision, NEW rws, RowsSound(rws), NEW root, DirIn(DOMAIN rws, root)
    PROVE  /\ PathsIn(rws, root) =
                {p \in Seq(Names) : Len(p) \in 1 .. MaxDepth /\ EntryAt(rws, root, p) # NoEntry}
           /\ IsFiniteSet(PathsIn(rws, root))
<1> DEFINE F(f) == [k \in 0 .. MaxDepth |-> IF k = 0 THEN {<<>>} ELSE Deeper(rws, root, f[k - 1])]
           g == [k \in 0 .. MaxDepth |-> Entries(rws, root, k)]
           level == CHOOSE f : f = F(f)
<1>0. MaxDepth \in Nat
    BY WorkTreeAssumption
<1>1. g = F(g)
  <2>1. ASSUME NEW k \in 0 .. MaxDepth, k # 0 PROVE g[k] = Deeper(rws, root, g[k - 1])
    <3>1. k - 1 \in Nat /\ (k - 1) + 1 = k /\ k - 1 \in 0 .. MaxDepth
        BY <1>0, <2>1
    <3>2. Entries(rws, root, (k - 1) + 1) = Deeper(rws, root, Entries(rws, root, k - 1))
        BY <3>1, EntriesDeeper
    <3> QED
        BY <3>1, <3>2
  <2>2. g[0] = {<<>>}
      BY <1>0, RootEntry
  <2>3. g = [k \in 0 .. MaxDepth |-> g[k]]
      OBVIOUS
  <2> HIDE DEF g
  <2> QED
      BY <2>1, <2>2, <2>3
<1>2. level = F(level)
  <2>1. \E f : f = F(f)
      BY <1>1
  <2> HIDE DEF F
  <2> QED
      BY <2>1
<1>3. PathsIn(rws, root) = UNION {level[k] : k \in 1 .. MaxDepth}
    BY DEF PathsIn, Deeper, Lower
<1> HIDE DEF level, g
<1>4. \A k \in 0 .. MaxDepth : level[k] = Entries(rws, root, k)
  <2> DEFINE T == {k \in Nat : k <= MaxDepth => level[k] = Entries(rws, root, k)}
  <2>1. 0 \in T
      BY <1>0, <1>2, RootEntry
  <2>2. ASSUME NEW k \in Nat, k \in T PROVE k + 1 \in T
    <3> SUFFICES ASSUME k + 1 <= MaxDepth PROVE level[k + 1] = Entries(rws, root, k + 1)
        OBVIOUS
    <3>1. k + 1 \in 0 .. MaxDepth /\ (k + 1) - 1 = k /\ k + 1 # 0
        BY <1>0
    <3>2. level[k + 1] = Deeper(rws, root, level[k])
        BY <1>2, <3>1
    <3>3. level[k] = Entries(rws, root, k)
        BY <1>0, <2>2
    <3> QED
        BY <3>2, <3>3, EntriesDeeper
  <2> HIDE DEF T
  <2>3. Nat \subseteq T
      BY <2>1, <2>2, SetInduction
  <2> QED
      BY <2>3 DEF T
<1> DEFINE C == 1 .. MaxDepth
           e == [k \in C |-> Entries(rws, root, k)]
<1>5. PathsIn(rws, root) = UNION {e[k] : k \in C}
    BY <1>3, <1>4
<1>6. IsFiniteSet(UNION {e[k] : k \in C})
  <2>1. IsFiniteSet(C)
    <3>1. 1 \in Int /\ MaxDepth \in Int
        BY <1>0
    <3> QED
        BY <3>1, FS_Interval
  <2>2. \A k \in C : IsFiniteSet(e[k])
    <3>1. \A k \in C : k \in Nat
        OBVIOUS
    <3> HIDE DEF C
    <3> QED
        BY <3>1, EntriesFinite
  <2>3. DOMAIN e = C /\ e = [k \in C |-> e[k]]
      OBVIOUS
  <2> HIDE DEF C, e
  <2>4. IsFiniteSet({e[k] : k \in C})
      BY <2>1, <2>3, ImageFinite
  <2> QED
      BY <2>2, <2>4, FS_UNION
<1> QED
    BY <1>5, <1>6 DEF Entries

----------------------------------------------------------------------------
(* The comparison of two trees.                                            *)

\* A turn of a loop at x: nothing more, the same as from the next on, or something
\* put before that.
Turn(x, w, done, skips, out, next) ==
    IF x \in done THEN <<>>
    ELSE IF x \in skips THEN w[next[x]]
    ELSE out[x] \o w[next[x]]

Turns(D, done, skips, out, next, w) == w = [x \in D |-> Turn(x, w, done, skips, out, next)]

\* A loop whose turns make a bounded measure smaller, and put members of V.
Loop(D, done, skips, out, next, N, mu, V) ==
    /\ N \in Nat /\ mu \in [D -> 0 .. N]
    /\ \A x \in D \ done : next[x] \in D /\ mu[next[x]] < mu[x] /\ out[x] \in Seq(V)

\* It comes to an end,
LEMMA LoopEnds ==
    ASSUME NEW D, NEW done, NEW skips, NEW out, NEW next, NEW N, NEW mu, NEW V,
           Loop(D, done, skips, out, next, N, mu, V)
    PROVE  \E w : Turns(D, done, skips, out, next, w)
<1> N \in Nat /\ mu \in [D -> 0 .. N]
    BY DEF Loop
<1> \A x \in D \ done : next[x] \in D /\ mu[next[x]] < mu[x]
    BY DEF Loop
<1> DEFINE Do(x, w) == Turn(x, w, done, skips, out, next)
           G(w) == [x \in D |-> Do(x, w)]
           T == {n \in Nat : \E w : \A x \in D : mu[x] < n => w[x] = Do(x, w)}
<1>0. ASSUME NEW x, NEW v, NEW w, x \notin done => v[next[x]] = w[next[x]] PROVE Do(x, v) = Do(x, w)
    BY <1>0 DEF Turn
<1>1. \A x \in D : mu[x] \in Nat /\ mu[x] <= N
    OBVIOUS
<1> HIDE DEF Do
<1>2. 0 \in T
    BY <1>1
<1>3. ASSUME NEW n \in Nat, NEW w, \A x \in D : mu[x] < n => w[x] = Do(x, w),
             NEW x \in D, mu[x] < n + 1
      PROVE  G(w)[x] = Do(x, G(w))
  <2>1. x \notin done => next[x] \in D /\ mu[next[x]] < n
      BY <1>1, <1>3
  <2>2. x \notin done => w[next[x]] = G(w)[next[x]]
      BY <1>3, <2>1
  <2> HIDE DEF G
  <2>3. Do(x, w) = Do(x, G(w))
      BY <1>0, <2>2
  <2> USE DEF G
  <2> QED
      BY <2>3
<1>4. ASSUME NEW n \in Nat, n \in T PROVE n + 1 \in T
  <2>1. PICK w : \A x \in D : mu[x] < n => w[x] = Do(x, w)
      BY <1>4
  <2> HIDE DEF G
  <2>2. \A x \in D : mu[x] < n + 1 => G(w)[x] = Do(x, G(w))
      BY <1>3, <2>1
  <2> QED
      BY <2>2
<1> HIDE DEF T
<1>5. N + 1 \in T
    BY <1>2, <1>4, SetInduction
<1>6. PICK w : \A x \in D : w[x] = Do(x, w)
  <2>1. \E w : \A x \in D : mu[x] < N + 1 => w[x] = Do(x, w)
      BY <1>5 DEF T
  <2> QED
      BY <1>1, <2>1
<1>7. \A x \in D : G(w)[x] = Do(x, G(w))
  <2> SUFFICES ASSUME NEW x \in D PROVE G(w)[x] = Do(x, G(w))
      OBVIOUS
  <2>1. mu[x] \in Nat /\ mu[x] < mu[x] + 1
      BY <1>1
  <2> HIDE DEF G
  <2> QED
      BY <1>3, <1>6, <2>1
<1>8. G(w) = [x \in D |-> G(w)[x]]
    OBVIOUS
<1> DEFINE g == G(w)
<1> HIDE DEF g
<1>9. g = [x \in D |-> Do(x, g)]
    BY <1>7, <1>8 DEF g
<1> QED
    BY <1>9 DEF Do, Turns

\* and gives sequences of what its turns put there.
LEMMA LoopGives ==
    ASSUME NEW D, NEW done, NEW skips, NEW out, NEW next, NEW N, NEW mu, NEW V,
           Loop(D, done, skips, out, next, N, mu, V),
           NEW w, Turns(D, done, skips, out, next, w)
    PROVE  \A x \in D : w[x] \in Seq(V)
<1> N \in Nat /\ mu \in [D -> 0 .. N]
    BY DEF Loop
<1> \A x \in D \ done : next[x] \in D /\ mu[next[x]] < mu[x] /\ out[x] \in Seq(V)
    BY DEF Loop
<1> w = [x \in D |-> Turn(x, w, done, skips, out, next)]
    BY DEF Turns
<1> DEFINE T == {n \in Nat : \A x \in D : mu[x] < n => w[x] \in Seq(V)}
<1>1. \A x \in D : mu[x] \in Nat /\ mu[x] <= N
    OBVIOUS
<1>2. 0 \in T
    BY <1>1
<1>3. ASSUME NEW n \in Nat, n \in T PROVE n + 1 \in T
  <2> SUFFICES ASSUME NEW x \in D, mu[x] < n + 1 PROVE w[x] \in Seq(V)
      OBVIOUS
  <2>1. w[x] = Turn(x, w, done, skips, out, next)
      OBVIOUS
  <2>2. CASE x \in done
      BY <2>1, <2>2 DEF Turn
  <2>3. CASE x \notin done
    <3>1. next[x] \in D /\ mu[next[x]] < n /\ out[x] \in Seq(V)
        BY <1>1, <2>3
    <3>2. w[next[x]] \in Seq(V)
        BY <1>3, <3>1
    <3>3. out[x] \o w[next[x]] \in Seq(V)
        BY <3>1, <3>2, Joined
    <3> QED
        BY <2>1, <2>3, <3>2, <3>3 DEF Turn
  <2> QED
      BY <2>2, <2>3
<1> HIDE DEF T
<1>4. N + 1 \in T
    BY <1>2, <1>3, SetInduction
<1> QED
    BY <1>1, <1>4 DEF T

\* How many positions an iterator at p has still to come.
Left(S, p) == IF p \in S THEN Cardinality({q \in S : ~Before(q, p)}) ELSE 0

\* An iterator goes on, or comes to its end.
LEMMA GoesOn ==
    ASSUME NEW S, IsFiniteSet(S), S \subseteq Seq(Names), NEW p \in S
    PROVE  /\ Left(S, p) \in 0 .. Cardinality(S)
           /\ NextIn(S, p) \in S \cup {End} /\ Left(S, NextIn(S, p)) < Left(S, p)
           /\ StepIn(S, p) \in S \cup {End} /\ Left(S, StepIn(S, p)) < Left(S, p)
<1>0. S \subseteq Seq(Nat)
    BY DEF Names
<1>1. End \notin S
  <2>1. \A q \in S : \A i \in 1 .. Len(q) : q[i] # 0
      BY DEF Names
  <2>2. 1 \in 1 .. Len(<<0>>) /\ <<0>>[1] = 0
      OBVIOUS
  <2> QED
      BY <2>1, <2>2 DEF End
<1> DEFINE Rest(q) == {r \in S : ~Before(r, q)}
<1>2. ASSUME NEW q \in S PROVE IsFiniteSet(Rest(q)) /\ q \in Rest(q) /\ Left(S, q) = Cardinality(Rest(q))
    BY <1>0, BeforeOrders, FS_Subset DEF Left
<1>3. Left(S, p) \in 0 .. Cardinality(S) /\ 0 < Left(S, p)
  <2>1. Rest(p) \subseteq S
      OBVIOUS
  <2> HIDE DEF Rest
  <2>2. /\ Cardinality(Rest(p)) \in Nat /\ Cardinality(Rest(p)) # 0 /\ Cardinality(S) \in Nat
        /\ Cardinality(Rest(p)) <= Cardinality(S)
      BY <1>2, <2>1, FS_Subset, FS_CardinalityType, FS_EmptySet
  <2> QED
      BY <1>2, <2>2
<1>4. ASSUME NEW q \in S, Before(p, q) PROVE Left(S, q) < Left(S, p)
  <2>1. Rest(q) \subseteq Rest(p) /\ p \in Rest(p) \ Rest(q)
      BY <1>0, <1>4, BeforeOrders
  <2> HIDE DEF Rest
  <2> QED
      BY <1>2, <2>1, Smaller
<1>5. ASSUME NEW R, R \subseteq S, \A q \in R : Before(p, q)
      PROVE  First(R) \in S \cup {End} /\ Left(S, First(R)) < Left(S, p)
  <2>1. CASE R = {}
    <3>1. First(R) = End
        BY <2>1 DEF First
    <3> QED
        BY <1>1, <1>3, <3>1 DEF Left
  <2>2. CASE R # {}
    <3>1. IsFiniteSet(R)
        BY <1>5, FS_Subset
    <3>2. First(R) \in R
        BY <1>0, <1>5, <2>2, <3>1, FirstIn
    <3> QED
        BY <1>4, <1>5, <3>2
  <2> QED
      BY <2>1, <2>2
<1> QED
    BY <1>3, <1>5 DEF NextIn, StepIn

\* A directory's files, deleted or inserted, as changes.
LEMMA FileChanges ==
    ASSUME NEW rws, NEW root, NEW S, IsFiniteSet(S), S \subseteq Seq(Names), NEW p,
           NEW P, S \subseteq P, NEW W, NoEntry \in W, \A q \in S : EntryAt(rws, root, q) \in W
    PROVE  LET V == [path : P, from : W, to : W]
           IN  Deletes(rws, root, S, p) \in Seq(V) /\ Inserts(rws, root, S, p) \in Seq(V)
<1> DEFINE R == {q \in S : IsPrefix(p, q) /\ ~EntryAt(rws, root, q).isDir}
           V == [path : P, from : W, to : W]
           fs == FilesUnder(rws, root, S, p)
<1>1. R \subseteq S /\ R \subseteq Seq(Nat)
    BY DEF Names
<1> HIDE DEF R
<1>2. IsFiniteSet(R)
    BY <1>1, FS_Subset
<1>3. Sorted(R) \in Seq(R)
    BY <1>1, <1>2, SortedIn
<1>4. fs = Sorted(R)
    BY DEF FilesUnder, R
<1> HIDE DEF fs
<1>5. Len(fs) \in Nat /\ \A i \in 1 .. Len(fs) : fs[i] \in S
    BY <1>1, <1>3, <1>4
<1>6. /\ [i \in 1 .. Len(fs) |-> Change(fs[i], EntryAt(rws, root, fs[i]), NoEntry)] \in Seq(V)
      /\ [i \in 1 .. Len(fs) |-> Change(fs[i], NoEntry, EntryAt(rws, root, fs[i]))] \in Seq(V)
  <2>1. \A i \in 1 .. Len(fs) : /\ Change(fs[i], EntryAt(rws, root, fs[i]), NoEntry) \in V
                                /\ Change(fs[i], NoEntry, EntryAt(rws, root, fs[i])) \in V
      BY <1>5 DEF Change
  <2> HIDE DEF V
  <2> QED
      BY <1>5, <2>1
<1> QED
    BY <1>6 DEF Deletes, Inserts, fs

\* Changes at the paths of either tree.
EntriesOf(rws, from, to) ==
    {EntryAt(rws, from, p) : p \in PathsIn(rws, from)}
        \cup {EntryAt(rws, to, p) : p \in PathsIn(rws, to)} \cup {NoEntry}
ChangesOf(rws, from, to) ==
    [path : PathsIn(rws, from) \cup PathsIn(rws, to),
     from : EntriesOf(rws, from, to), to : EntriesOf(rws, from, to)]

\* The turns of DiffTreeContext's loop, by the positions f and g of its iterators:
\* the entry at f is only in the one tree, the one at g only in the other, or they
\* are at one path.
Gone(f, g)  == g = End \/ (f # End /\ Before(f, g))
Comes(f, g) == ~Gone(f, g) /\ (f = End \/ Before(g, f))
Both(f, g)  == ~Gone(f, g) /\ ~Comes(f, g)

\* Two entries at one path: the same, a file and a directory, directories to go
\* into, or an entry that changed.
SameHash(a, b)     == a.hash = b.hash
OtherKind(a, b)    == ~SameHash(a, b) /\ a.isDir # b.isDir
GoInto(rws, a, b)  == ~SameHash(a, b) /\ ~OtherKind(a, b) /\ a.isDir /\ ~SameChildren(rws, a.hash, b.hash)

Positions(rws, from, to) == (PathsIn(rws, from) \cup {End}) \X (PathsIn(rws, to) \cup {End})
Ends == {<<End, End>>}
Silent(rws, from, to) ==
    {c \in Positions(rws, from, to) :
        LET a == EntryAt(rws, from, c[1])
            b == EntryAt(rws, to, c[2])
        IN  Both(c[1], c[2]) /\ (SameHash(a, b) \/ GoInto(rws, a, b))}
Says(rws, from, to) ==
    [c \in Positions(rws, from, to) |->
        LET a == EntryAt(rws, from, c[1])
            b == EntryAt(rws, to, c[2])
            deletes == Deletes(rws, from, PathsIn(rws, from), c[1])
            inserts == Inserts(rws, to, PathsIn(rws, to), c[2])
        IN  IF Gone(c[1], c[2]) THEN deletes
            ELSE IF Comes(c[1], c[2]) THEN inserts
            ELSE IF OtherKind(a, b) THEN deletes \o inserts
            ELSE <<Change(c[1], a, b)>>]
Goes(rws, from, to) ==
    [c \in Positions(rws, from, to) |->
        LET F == PathsIn(rws, from)
            T == PathsIn(rws, to)
        IN  IF Gone(c[1], c[2]) THEN <<NextIn(F, c[1]), c[2]>>
            ELSE IF Comes(c[1], c[2]) THEN <<c[1], NextIn(T, c[2])>>
            ELSE IF GoInto(rws, EntryAt(rws, from, c[1]), EntryAt(rws, to, c[2]))
            THEN <<StepIn(F, c[1]), StepIn(T, c[2])>>
            ELSE <<NextIn(F, c[1]), NextIn(T, c[2])>>]

\* w is what the loop answers from each position, and the loop comes to its end.
DiffLoop(rws, from, to, w) ==
    LET D == Positions(rws, from, to)
    IN  /\ \E N, mu : Loop(D, Ends, Silent(rws, from, to), Says(rws, from, to), Goes(rws, from, to),
                          N, mu, ChangesOf(rws, from, to))
        /\ Turns(D, Ends, Silent(rws, from, to), Says(rws, from, to), Goes(rws, from, to), w)

\* The comparison is such a loop.
LEMMA DiffTurns ==
    ASSUME NoCollision, NEW rws, RowsSound(rws),
           NEW from, DirIn(DOMAIN rws, from), NEW to, DirIn(DOMAIN rws, to)
    PROVE  \E w : /\ DiffLoop(rws, from, to, w)
                  /\ LET c == <<First(PathsIn(rws, from)), First(PathsIn(rws, to))>>
                     IN  c \in Positions(rws, from, to) /\ DiffTree(rws, from, to) = w[c]
<1> DEFINE F == PathsIn(rws, from)
           T == PathsIn(rws, to)
           V == ChangesOf(rws, from, to)
           W == EntriesOf(rws, from, to)
           D == Positions(rws, from, to)
           E(f) == EntryAt(rws, from, f)
           H(g) == EntryAt(rws, to, g)
           Body(c, d) ==
               IF c[1] = End /\ c[2] = End THEN <<>>
               ELSE IF c[2] = End \/ (c[1] # End /\ Before(c[1], c[2]))
               THEN Deletes(rws, from, F, c[1]) \o d[<<NextIn(F, c[1]), c[2]>>]
               ELSE IF c[1] = End \/ Before(c[2], c[1])
               THEN Inserts(rws, to, T, c[2]) \o d[<<c[1], NextIn(T, c[2])>>]
               ELSE IF E(c[1]).hash = H(c[2]).hash THEN d[<<NextIn(F, c[1]), NextIn(T, c[2])>>]
               ELSE IF E(c[1]).isDir # H(c[2]).isDir
               THEN Deletes(rws, from, F, c[1]) \o Inserts(rws, to, T, c[2])
                        \o d[<<NextIn(F, c[1]), NextIn(T, c[2])>>]
               ELSE IF E(c[1]).isDir /\ ~SameChildren(rws, E(c[1]).hash, H(c[2]).hash)
               THEN d[<<StepIn(F, c[1]), StepIn(T, c[2])>>]
               ELSE <<Change(c[1], E(c[1]), H(c[2]))>> \o d[<<NextIn(F, c[1]), NextIn(T, c[2])>>]
           Inside(f, g) == GoInto(rws, E(f), H(g))
           Out(c) ==
               IF Gone(c[1], c[2]) THEN Deletes(rws, from, F, c[1])
               ELSE IF Comes(c[1], c[2]) THEN Inserts(rws, to, T, c[2])
               ELSE IF OtherKind(E(c[1]), H(c[2]))
               THEN Deletes(rws, from, F, c[1]) \o Inserts(rws, to, T, c[2])
               ELSE <<Change(c[1], E(c[1]), H(c[2]))>>
           Nx(c) ==
               IF Gone(c[1], c[2]) THEN <<NextIn(F, c[1]), c[2]>>
               ELSE IF Comes(c[1], c[2]) THEN <<c[1], NextIn(T, c[2])>>
               ELSE IF Inside(c[1], c[2]) THEN <<StepIn(F, c[1]), StepIn(T, c[2])>>
               ELSE <<NextIn(F, c[1]), NextIn(T, c[2])>>
           done  == Ends
           skips == Silent(rws, from, to)
           out   == Says(rws, from, to)
           next  == Goes(rws, from, to)
           N     == Cardinality(F) + Cardinality(T)
           mu    == [c \in D |-> Left(F, c[1]) + Left(T, c[2])]
<1>1. /\ F \subseteq Seq(Names) /\ IsFiniteSet(F) /\ Cardinality(F) \in Nat
      /\ T \subseteq Seq(Names) /\ IsFiniteSet(T) /\ Cardinality(T) \in Nat
    BY PathsAre, FS_CardinalityType
<1>2. /\ NoEntry \in W
      /\ \A f \in F : E(f) \in W
      /\ \A g \in T : H(g) \in W
    BY DEF EntriesOf
<1>3. V = [path : F \cup T, from : W, to : W] /\ D = (F \cup {End}) \X (T \cup {End})
    BY DEF ChangesOf, Positions
<1>4. DiffTree(rws, from, to) =
          LET diff[c \in (F \cup {End}) \X (T \cup {End})] == Body(c, diff) IN diff[<<First(F), First(T)>>]
    BY DEF DiffTree
<1>0. /\ out = [c \in D |-> Out(c)] /\ next = [c \in D |-> Nx(c)]
      /\ skips = {c \in D : Both(c[1], c[2]) /\ (SameHash(E(c[1]), H(c[2])) \/ Inside(c[1], c[2]))}
    BY DEF Says, Goes, Silent
<1> HIDE DEF F, T, W, V, E, H, D, skips, out, next
<1>5. End \notin F /\ End \notin T
  <2>1. \A q \in Seq(Names) : \A i \in 1 .. Len(q) : q[i] # 0
      BY DEF Names
  <2>2. 1 \in 1 .. Len(<<0>>) /\ <<0>>[1] = 0
      OBVIOUS
  <2> QED
      BY <1>1, <2>1, <2>2 DEF End
<1>6. Left(F, End) = 0 /\ Left(T, End) = 0
    BY <1>5 DEF Left
<1>7. ASSUME NEW f \in F \cup {End} PROVE Left(F, f) \in 0 .. Cardinality(F)
    BY <1>1, <1>6, GoesOn
<1>8. ASSUME NEW g \in T \cup {End} PROVE Left(T, g) \in 0 .. Cardinality(T)
    BY <1>1, <1>6, GoesOn
<1>9. N \in Nat /\ mu \in [D -> 0 .. N]
    BY <1>1, <1>3, <1>7, <1>8
<1> HIDE DEF Inside
<1>10. ASSUME NEW f \in F \cup {End}, NEW g \in T \cup {End}, ~(f = End /\ g = End)
       PROVE  LET n == Nx(<<f, g>>)
              IN  /\ n \in D /\ Left(F, n[1]) + Left(T, n[2]) < Left(F, f) + Left(T, g)
                  /\ Out(<<f, g>>) \in Seq(V)
  <2>1. f # End => /\ NextIn(F, f) \in F \cup {End} /\ Left(F, NextIn(F, f)) < Left(F, f)
                   /\ StepIn(F, f) \in F \cup {End} /\ Left(F, StepIn(F, f)) < Left(F, f)
      BY <1>1, GoesOn
  <2>2. g # End => /\ NextIn(T, g) \in T \cup {End} /\ Left(T, NextIn(T, g)) < Left(T, g)
                   /\ StepIn(T, g) \in T \cup {End} /\ Left(T, StepIn(T, g)) < Left(T, g)
      BY <1>1, GoesOn
  <2>3. Left(F, f) \in Nat /\ Left(T, g) \in Nat
      BY <1>1, <1>7, <1>8
  <2>4. \A q \in F \cup {End} : Left(F, q) \in Nat
      BY <1>1, <1>7
  <2>5. \A q \in T \cup {End} : Left(T, q) \in Nat
      BY <1>1, <1>8
  <2>6. Deletes(rws, from, F, f) \in Seq(V)
      BY <1>1, <1>2, <1>3, FileChanges DEF E
  <2>7. Inserts(rws, to, T, g) \in Seq(V)
      BY <1>1, <1>2, <1>3, FileChanges DEF H
  <2>8. Gone(f, g) => f # End
      BY <1>10 DEF Gone
  <2>9. Comes(f, g) => g # End
      BY <1>10 DEF Gone, Comes
  <2>10. ~Comes(f, g) /\ ~Gone(f, g) => f # End /\ g # End
      BY DEF Gone, Comes
  <2>11. Out(<<f, g>>) \in Seq(V)
    <3>1. Deletes(rws, from, F, f) \o Inserts(rws, to, T, g) \in Seq(V)
        BY <2>6, <2>7, Joined
    <3>2. ~Comes(f, g) /\ ~Gone(f, g) => <<Change(f, E(f), H(g))>> \in Seq(V)
      <4> SUFFICES ASSUME f # End, g # End PROVE Change(f, E(f), H(g)) \in V
          BY <2>10
      <4> QED
          BY <1>2, <1>3 DEF Change
    <3> QED
        BY <2>6, <2>7, <3>1, <3>2
  <2>12. CASE Gone(f, g)
    <3>1. Nx(<<f, g>>) = <<NextIn(F, f), g>>
        BY <2>12
    <3>2. Left(F, NextIn(F, f)) < Left(F, f) /\ Left(F, NextIn(F, f)) \in Nat
        BY <2>1, <2>4, <2>8, <2>12
    <3> QED
        BY <1>3, <2>1, <2>3, <2>8, <2>11, <2>12, <3>1, <3>2
  <2>13. CASE ~Gone(f, g) /\ Comes(f, g)
    <3>1. Nx(<<f, g>>) = <<f, NextIn(T, g)>>
        BY <2>13
    <3>2. Left(T, NextIn(T, g)) < Left(T, g) /\ Left(T, NextIn(T, g)) \in Nat
        BY <2>2, <2>5, <2>9, <2>13
    <3> QED
        BY <1>3, <2>2, <2>3, <2>9, <2>11, <2>13, <3>1, <3>2
  <2>14. CASE ~Gone(f, g) /\ ~Comes(f, g)
    <3>1. \/ Nx(<<f, g>>) = <<StepIn(F, f), StepIn(T, g)>>
          \/ Nx(<<f, g>>) = <<NextIn(F, f), NextIn(T, g)>>
        BY <2>14
    <3>2. /\ Left(T, NextIn(T, g)) < Left(T, g) /\ Left(T, NextIn(T, g)) \in Nat
          /\ Left(T, StepIn(T, g)) < Left(T, g) /\ Left(T, StepIn(T, g)) \in Nat
          /\ Left(F, NextIn(F, f)) < Left(F, f) /\ Left(F, NextIn(F, f)) \in Nat
          /\ Left(F, StepIn(F, f)) < Left(F, f) /\ Left(F, StepIn(F, f)) \in Nat
        BY <2>1, <2>2, <2>4, <2>5, <2>10, <2>14
    <3> QED
        BY <1>3, <2>1, <2>2, <2>3, <2>10, <2>11, <2>14, <3>1, <3>2
  <2> QED
      BY <2>12, <2>13, <2>14
<1>11. ASSUME NEW c \in D, NEW d PROVE Body(c, d) = Turn(c, d, done, skips, out, next)
  <2>1. PICK f \in F \cup {End}, g \in T \cup {End} : c = <<f, g>>
      BY <1>3
  <2>2. c[1] = f /\ c[2] = g
      BY <2>1
  <2>3. out[c] = Out(c) /\ next[c] = Nx(c)
      BY <1>0
  <2>4. CASE f = End /\ g = End
      BY <2>1, <2>2, <2>4 DEF Turn, Ends
  <2>5. CASE ~(f = End /\ g = End)
    <3>1. c \notin done
        BY <2>1, <2>5 DEF Ends
    <3>2. c \in skips <=> Both(f, g) /\ (SameHash(E(f), H(g)) \/ Inside(f, g))
        BY <1>0, <2>2
    <3>3. Turn(c, d, done, skips, out, next) =
              IF c \in skips THEN d[Nx(c)] ELSE Out(c) \o d[Nx(c)]
        BY <2>3, <3>1 DEF Turn
    <3>4. CASE Gone(f, g)
        BY <2>2, <2>5, <3>2, <3>3, <3>4 DEF Gone, Both
    <3>5. CASE Comes(f, g)
        BY <2>2, <2>5, <3>2, <3>3, <3>5 DEF Gone, Comes, Both
    <3>6. CASE Both(f, g)
      <4>1. ~Gone(f, g) /\ ~Comes(f, g)
          BY <3>6 DEF Both
      <4>2. ~(g = End \/ (f # End /\ Before(f, g))) /\ ~(f = End \/ Before(g, f))
          BY <4>1 DEF Gone, Comes
      <4>3. Inside(f, g) <=> /\ E(f).hash # H(g).hash /\ E(f).isDir = H(g).isDir
                             /\ E(f).isDir /\ ~SameChildren(rws, E(f).hash, H(g).hash)
          BY DEF GoInto, SameHash, OtherKind, Inside
      <4> HIDE DEF skips
      <4> QED
          BY <2>2, <2>5, <3>2, <3>3, <3>6, <4>1, <4>2, <4>3 DEF SameHash, OtherKind
    <3> QED
        BY <3>4, <3>5, <3>6 DEF Both
  <2> QED
      BY <2>4, <2>5
<1>12. \A x \in D \ done : next[x] \in D /\ mu[next[x]] < mu[x] /\ out[x] \in Seq(V)
  <2> SUFFICES ASSUME NEW x \in D \ done
               PROVE  next[x] \in D /\ mu[next[x]] < mu[x] /\ out[x] \in Seq(V)
      OBVIOUS
  <2>1. PICK f \in F \cup {End}, g \in T \cup {End} : x = <<f, g>>
      BY <1>3
  <2>2. next[x] = Nx(<<f, g>>) /\ out[x] = Out(<<f, g>>) /\ mu[x] = Left(F, f) + Left(T, g)
      BY <1>0, <2>1
  <2> HIDE DEF Nx, Out
  <2>3. /\ Nx(<<f, g>>) \in D /\ Out(<<f, g>>) \in Seq(V)
        /\ Left(F, Nx(<<f, g>>)[1]) + Left(T, Nx(<<f, g>>)[2]) < Left(F, f) + Left(T, g)
      BY <1>10, <2>1 DEF Ends
  <2> QED
      BY <2>2, <2>3
<1>13. Loop(D, done, skips, out, next, N, mu, V)
  <2> HIDE DEF D, done, skips, out, next, mu, N
  <2> QED
      BY <1>9, <1>12 DEF Loop
<1> HIDE DEF Body, done, skips, out, next, mu, N
<1>14. \A w : Turns(D, done, skips, out, next, w) <=> w = [c \in D |-> Body(c, w)]
  <2> SUFFICES ASSUME NEW w
               PROVE  Turns(D, done, skips, out, next, w) <=> w = [c \in D |-> Body(c, w)]
      OBVIOUS
  <2>1. \A c \in D : Body(c, w) = Turn(c, w, done, skips, out, next)
      BY <1>11
  <2> HIDE DEF D
  <2>2. [c \in D |-> Body(c, w)] = [x \in D |-> Turn(x, w, done, skips, out, next)]
      BY <2>1
  <2> QED
      BY <2>2 DEF Turns
<1>15. \E w : w = [c \in D |-> Body(c, w)]
  <2>1. PICK w : Turns(D, done, skips, out, next, w)
      BY <1>13, LoopEnds, Zenon
  <2> QED
      BY <1>14, <2>1
<1> DEFINE w == CHOOSE x : x = [c \in D |-> Body(c, x)]
<1>16. w = [c \in D |-> Body(c, w)]
    BY <1>15
<1>17. DiffTree(rws, from, to) = w[<<First(F), First(T)>>]
    BY <1>3, <1>4
<1> HIDE DEF w
<1>18. DiffLoop(rws, from, to, w)
  <2>1. Turns(D, done, skips, out, next, w)
      BY <1>14, <1>16
  <2> QED
      BY <1>13, <2>1 DEF DiffLoop, D, done, skips, out, next, V
<1>19. <<First(F), First(T)>> \in D
  <2>1. F \subseteq Seq(Nat) /\ T \subseteq Seq(Nat)
      BY <1>1 DEF Names
  <2>2. First(F) \in F \cup {End} /\ First(T) \in T \cup {End}
      BY <1>1, <2>1, FirstIn DEF First
  <2> QED
      BY <1>3, <2>2
<1> QED
    BY <1>17, <1>18, <1>19 DEF D, F, T

\* The comparison comes to an end, with changes at paths of the two trees.
LEMMA DiffIn ==
    ASSUME NoCollision, NEW rws, RowsSound(rws),
           NEW from, DirIn(DOMAIN rws, from), NEW to, DirIn(DOMAIN rws, to)
    PROVE  DiffTree(rws, from, to) \in Seq(ChangesOf(rws, from, to))
<1>1. PICK w : /\ DiffLoop(rws, from, to, w)
               /\ LET c == <<First(PathsIn(rws, from)), First(PathsIn(rws, to))>>
                  IN  c \in Positions(rws, from, to) /\ DiffTree(rws, from, to) = w[c]
    BY DiffTurns
<1>2. \A x \in Positions(rws, from, to) : w[x] \in Seq(ChangesOf(rws, from, to))
    BY <1>1, LoopGives, Zenon DEF DiffLoop
<1> QED
    BY <1>1, <1>2

\* The change c put behind those whose paths come before its own.
Put(s, c) ==
    LET k == Cardinality({j \in 1 .. Len(s) : Before(s[j].path, c.path)})
    IN  SubSeq(s, 1, k) \o <<c>> \o SubSeq(s, k + 1, Len(s))

LEMMA PutIn == ASSUME NEW V, NEW s \in Seq(V), NEW c \in V PROVE Put(s, c) \in Seq(V)
<1> DEFINE J == {j \in 1 .. Len(s) : Before(s[j].path, c.path)}
           k == Cardinality(J)
<1>1. k \in 0 .. Len(s)
  <2>1. Len(s) \in Nat /\ 1 \in Int /\ Len(s) \in Int
      OBVIOUS
  <2>2. IsFiniteSet(1 .. Len(s)) /\ Cardinality(1 .. Len(s)) = Len(s)
      BY <2>1, FS_Interval
  <2>3. J \subseteq 1 .. Len(s)
      OBVIOUS
  <2> HIDE DEF J
  <2>4. IsFiniteSet(J) /\ Cardinality(J) <= Cardinality(1 .. Len(s))
      BY <2>2, <2>3, FS_Subset
  <2>5. Cardinality(J) \in Nat
      BY <2>4, FS_CardinalityType
  <2> QED
      BY <2>1, <2>2, <2>4, <2>5
<1>2. Put(s, c) = (SubSeq(s, 1, k) \o <<c>>) \o SubSeq(s, k + 1, Len(s))
    BY DEF Put
<1> HIDE DEF k
<1>3. SubSeq(s, 1, k) \in Seq(V)
    BY <1>1
<1>4. SubSeq(s, k + 1, Len(s)) \in Seq(V)
    BY <1>1
<1>5. <<c>> \in Seq(V)
    OBVIOUS
<1>6. SubSeq(s, 1, k) \o <<c>> \in Seq(V)
    BY <1>3, <1>5, Joined
<1> QED
    BY <1>2, <1>4, <1>6, Joined

\* A sequence built up change by change.
Gathers(V, cs, g, f) ==
    /\ f \in [0 .. Len(cs) -> Seq(V)] /\ f[0] = <<>>
    /\ \A i \in 1 .. Len(cs) : f[i] = g[<<f[i - 1], cs[i]>>]

LEMMA Gathered ==
    ASSUME NEW V, NEW cs \in Seq(V), NEW g \in [Seq(V) \X V -> Seq(V)]
    PROVE  \E f : Gathers(V, cs, g, f)
<1> DEFINE n == Len(cs)
           S == Seq(V)
           G == [x \in (1 .. n) \X S |-> g[<<x[2], cs[x[1]]>>]]
<1>1. n \in Nat /\ \A i \in 1 .. n : cs[i] \in V
    OBVIOUS
<1>2. <<>> \in S
    OBVIOUS
<1>3. g \in [S \X V -> S]
    OBVIOUS
<1> HIDE DEF n, S
<1>4. G \in [(1 .. n) \X S -> S]
    BY <1>1, <1>3
<1>5. \A i \in 1 .. n : \A s \in S : G[<<i, s>>] = g[<<s, cs[i]>>]
    OBVIOUS
<1> HIDE DEF G
<1>6. PICK f : Iterates(S, <<>>, n, G, f)
    BY <1>1, <1>2, <1>4, Iterated
<1> f \in [0 .. n -> S] /\ f[0] = <<>> /\ \A i \in 1 .. n : f[i] = G[<<i, f[i - 1]>>]
    BY <1>6 DEF Iterates
<1>7. \A i \in 1 .. n : f[i - 1] \in S
    BY <1>1
<1>8. \A i \in 1 .. n : f[i] = g[<<f[i - 1], cs[i]>>]
    BY <1>5, <1>7
<1> QED
    BY <1>8 DEF n, S, Gathers

\* NewChanges puts one change after the other in its place.
LEMMA InOrderSteps ==
    ASSUME NEW V, NEW cs \in Seq(V)
    PROVE  \E w : /\ InOrder(cs) = w[Len(cs)] /\ w[0] = <<>>
                  /\ \A i \in 1 .. Len(cs) : w[i] = Put(w[i - 1], cs[i])
                  /\ \A i \in 0 .. Len(cs) : w[i] \in Seq(V)
<1> DEFINE n == Len(cs)
           g == [x \in Seq(V) \X V |-> Put(x[1], x[2])]
           F(v) == [i \in 0 .. n |-> IF i = 0 THEN <<>> ELSE Put(v[i - 1], cs[i])]
           w == CHOOSE v : v = F(v)
<1>1. n \in Nat /\ \A i \in 1 .. n : cs[i] \in V
    OBVIOUS
<1>2. g \in [Seq(V) \X V -> Seq(V)]
  <2>1. \A x \in Seq(V) \X V : x[1] \in Seq(V) /\ x[2] \in V
      OBVIOUS
  <2>2. \A x \in Seq(V) \X V : Put(x[1], x[2]) \in Seq(V)
      BY <2>1, PutIn
  <2> QED
      BY <2>2
<1>3. \E f : f = F(f)
  <2>1. \A s \in Seq(V) : \A c \in V : g[<<s, c>>] = Put(s, c)
      OBVIOUS
  <2> HIDE DEF g
  <2>0. PICK f : Gathers(V, cs, g, f)
      BY <1>2, Gathered
  <2>2. /\ f \in [0 .. n -> Seq(V)] /\ f[0] = <<>>
        /\ \A i \in 1 .. n : f[i] = g[<<f[i - 1], cs[i]>>]
      BY <2>0 DEF Gathers
  <2>3. ASSUME NEW i \in 0 .. n PROVE f[i] = IF i = 0 THEN <<>> ELSE Put(f[i - 1], cs[i])
    <3>1. CASE i = 0
        BY <2>2, <3>1
    <3>2. CASE i # 0
      <4>1. i \in 1 .. n /\ i - 1 \in 0 .. n
          BY <1>1, <3>2
      <4>2. f[i - 1] \in Seq(V) /\ cs[i] \in V
          BY <1>1, <2>2, <4>1
      <4>3. f[i] = g[<<f[i - 1], cs[i]>>]
          BY <2>2, <4>1
      <4> QED
          BY <2>1, <3>2, <4>2, <4>3
    <3> QED
        BY <3>1, <3>2
  <2>4. f = [i \in 0 .. n |-> f[i]]
      BY <2>2
  <2>5. f = F(f)
      BY <2>3, <2>4
  <2> QED
      BY <2>5
<1>4. w = F(w)
    BY <1>3
<1>5. InOrder(cs) = w[n]
    BY DEF InOrder, Put
<1> HIDE DEF w
<1>6. /\ w[0] = <<>> /\ <<>> \in Seq(V)
      /\ \A i \in 1 .. n : w[i] = Put(w[i - 1], cs[i])
  <2>1. 0 \in 0 .. n /\ \A i \in 1 .. n : i \in 0 .. n /\ i # 0
      BY <1>1
  <2> QED
      BY <1>4, <2>1
<1> HIDE DEF F
<1>7. \A i \in 1 .. n : w[i - 1] \in Seq(V) => w[i] \in Seq(V)
    BY <1>1, <1>6, PutIn
<1>8. \A i \in 0 .. n : w[i] \in Seq(V)
    BY <1>1, <1>6, <1>7, StaysIn
<1> QED
    BY <1>5, <1>6, <1>8

\* A change list has the changes it is made of.
LEMMA InOrderIn ==
    ASSUME NEW V, NEW cs \in Seq(V) PROVE InOrder(cs) \in Seq(V)
<1>1. Len(cs) \in Nat
    OBVIOUS
<1> QED
    BY <1>1, InOrderSteps

----------------------------------------------------------------------------
(* The hash of a tree, from its files.                                     *)

\* On the way to an entry there are directories.
LEMMA WayDown ==
    ASSUME NoCollision, NEW rws, RowsSound(rws), NEW root, DirIn(DOMAIN rws, root),
           NEW p \in Seq(Names), EntryAt(rws, root, p) # NoEntry, NEW i \in 0 .. Len(p) - 1
    PROVE  LET q == SubSeq(p, 1, i)
           IN  /\ q \in Seq(Names) /\ Len(q) = i /\ \A j \in 1 .. i : q[j] = p[j]
               /\ EntryAt(rws, root, q).isDir
               /\ EntryAt(rws, root, Append(q, p[i + 1])) # NoEntry
<1> DEFINE at == Along(rws, root, p)
           m == Len(p)
           q == SubSeq(p, 1, i)
           T == {k \in Nat : k <= m => at[m - k] # NoEntry}
<1>0. m \in Nat /\ i \in 0 .. m /\ i + 1 \in 0 .. m /\ i + 1 \in 1 .. m
    OBVIOUS
<1>1. /\ q \in Seq(Names) /\ Len(q) = i /\ \A j \in 1 .. i : q[j] = p[j]
    OBVIOUS
<1>2. at = [k \in 0 .. m |-> IF k = 0 THEN Dir(root) ELSE Below(rws, at[k - 1], p[k])]
    BY AlongEntries
<1>3. \A k \in 0 .. m : EntryIn(DOMAIN rws, at[k])
    BY PathIn
<1>4. at[m] # NoEntry
    BY DEF EntryAt
<1> HIDE DEF q, at, m
<1>5. ASSUME NEW k \in 0 .. m, k + 1 <= m, at[k + 1] # NoEntry PROVE at[k].isDir /\ at[k] # NoEntry
  <2>1. at[k + 1] = Below(rws, at[k], p[k + 1])
      BY <1>0, <1>2, <1>5
  <2>2. EntryIn(DOMAIN rws, at[k])
      BY <1>3
  <2>3. at[k].isDir
      BY <1>5, <2>1, <2>2, BelowIn
  <2> QED
      BY <2>3 DEF NoEntry
<1>6. 0 \in T
    BY <1>0, <1>4
<1>7. ASSUME NEW k \in Nat, k \in T PROVE k + 1 \in T
  <2> SUFFICES ASSUME k + 1 <= m PROVE at[m - (k + 1)] # NoEntry
      OBVIOUS
  <2> DEFINE l == m - (k + 1)
  <2>1. l \in 0 .. m /\ l + 1 = m - k /\ l + 1 <= m /\ k <= m
      BY <1>0
  <2>2. at[m - k] # NoEntry
      BY <1>7, <2>1
  <2> HIDE DEF l
  <2>3. at[l] # NoEntry
      BY <1>5, <2>1, <2>2
  <2> QED
      BY <2>3 DEF l
<1> HIDE DEF T
<1>8. m - (i + 1) \in T
  <2>1. m - (i + 1) \in Nat
      BY <1>0
  <2> QED
      BY <1>6, <1>7, <2>1, SetInduction
<1>9. at[i + 1] # NoEntry
  <2>1. m - (m - (i + 1)) = i + 1 /\ m - (i + 1) <= m
      BY <1>0
  <2> QED
      BY <1>8, <2>1 DEF T
<1>10. at[i].isDir
    BY <1>0, <1>5, <1>9
<1>11. EntryAt(rws, root, q) = at[i]
    BY <1>0, <1>1, AlongPrefix DEF EntryAt, at, m
<1>12. p[i + 1] \in Names
    BY <1>0 DEF m
<1>13. EntryAt(rws, root, Append(q, p[i + 1])) = at[i + 1]
  <2>1. EntryAt(rws, root, Append(q, p[i + 1])) = Below(rws, at[i], p[i + 1])
      BY <1>1, <1>11, <1>12, EntryBelow
  <2>2. at[i + 1] = Below(rws, at[(i + 1) - 1], p[i + 1])
      BY <1>0, <1>2
  <2> QED
      BY <1>0, <2>1, <2>2
<1> QED
    BY <1>1, <1>9, <1>10, <1>11, <1>13 DEF q

\* The entries in a directory.
LEMMA ChildrenAt ==
    ASSUME NoCollision, NEW rws, RowsSound(rws), NEW root, DirIn(DOMAIN rws, root),
           NEW d \in Seq(Names), EntryAt(rws, root, d).isDir
    PROVE  LET e == EntryAt(rws, root, d)
               kids == Kids(rws, e.hash)
           IN  /\ DirIn(DOMAIN rws, e.hash) /\ HashOf(kids) = e.hash
               /\ \A n \in DOMAIN kids : /\ n \in Names /\ EntryAt(rws, root, Append(d, n)) = kids[n]
                                         /\ kids[n] # NoEntry /\ kids[n].hash # Empty
               /\ \A n \in Names : EntryAt(rws, root, Append(d, n)) # NoEntry => n \in DOMAIN kids
<1> DEFINE e == EntryAt(rws, root, d)
           kids == Kids(rws, e.hash)
<1>1. EntryIn(DOMAIN rws, e)
  <2>1. Len(d) \in Nat /\ Len(d) \in 0 .. Len(d)
      OBVIOUS
  <2> QED
      BY <2>1, PathIn DEF EntryAt
<1> HIDE DEF e
<1>2. DirIn(DOMAIN rws, e.hash) /\ HashOf(kids) = e.hash
  <2>1. DirIn(DOMAIN rws, e.hash)
      BY <1>1 DEF EntryIn, NoEntry, File, e
  <2> QED
      BY <2>1, HashOfDir
<1>3. KidsRight(kids) /\ Listed(kids) \subseteq DOMAIN rws
    BY <1>1, EntryOpens, KidsOfNode
<1>4. ASSUME NEW n \in Names PROVE EntryAt(rws, root, Append(d, n)) = Below(rws, e, n)
    BY EntryBelow DEF e
<1>5. \A n : n \in DOMAIN kids => Below(rws, e, n) = kids[n]
    BY DEF Below, e
<1>6. \A n : n \notin DOMAIN kids => Below(rws, e, n) = NoEntry
    BY DEF Below, e
<1>7. Empty \notin DOMAIN rws
  <2>1. ASSUME Empty \in DOMAIN rws PROVE FALSE
    <3>1. NodeRow(Empty, rws[Empty])
        BY <2>1 DEF RowsSound
    <3>2. Empty \notin Blobs
        BY EmptyHash DEF NoCollision
    <3>3. DOMAIN rws[Empty].kids # {} /\ Empty = HashOf(rws[Empty].kids)
        BY <3>1, <3>2 DEF NodeRow
    <3> QED
        BY <3>3 DEF Empty, HashOf
  <2> QED
      BY <2>1
<1> HIDE DEF kids
<1>8. ASSUME NEW n \in DOMAIN kids PROVE n \in Names /\ kids[n].hash # Empty /\ kids[n] # NoEntry
    BY <1>3, <1>7 DEF KidsRight, Listed, NoEntry
<1> QED
    BY <1>2, <1>4, <1>5, <1>6, <1>8 DEF e, kids

\* The paths of a tree's files.
FilePaths(rws, root) == {q \in PathsIn(rws, root) : ~EntryAt(rws, root, q).isDir}

LEMMA FilePathsAre ==
    ASSUME NoCollision, NEW rws, RowsSound(rws), NEW root, DirIn(DOMAIN rws, root), NEW q
    PROVE  q \in FilePaths(rws, root) <=>
              /\ q \in Seq(Names) /\ Len(q) \in 1 .. MaxDepth
              /\ EntryAt(rws, root, q) # NoEntry /\ ~EntryAt(rws, root, q).isDir
BY PathsAre DEF FilePaths

\* A directory but the root has a file below it.
LEMMA FileBelow ==
    ASSUME NoCollision, NEW rws, RowsSound(rws), NEW root, DirIn(DOMAIN rws, root),
           root \in Deep[MaxDepth], NEW d \in Seq(Names), Len(d) <= MaxDepth,
           EntryAt(rws, root, d).isDir, EntryAt(rws, root, d).hash # Empty
    PROVE  \E q \in FilePaths(rws, root) : IsStrictPrefix(d, q)
<1> DEFINE E(p) == EntryAt(rws, root, p)
           FD == FilePaths(rws, root)
           Q(p) == p \in Seq(Names) /\ E(p).isDir /\ E(p).hash # Empty
           T == {k \in Nat : \A p \in Seq(Names) : Q(p) /\ Len(p) + k = MaxDepth =>
                                                       \E q \in FD : IsStrictPrefix(p, q)}
<1>0. MaxDepth \in Nat
    BY WorkTreeAssumption
<1>1. ASSUME NEW p \in Seq(Names), E(p).isDir, Len(p) <= MaxDepth PROVE Len(p) < MaxDepth
  <2>1. Len(p) \in Nat /\ Len(p) \in 0 .. Len(p)
      OBVIOUS
  <2>2. E(p).hash \in Deep[MaxDepth - Len(p)]
      BY <1>1, <2>1, DirDeep DEF EntryAt
  <2>3. MaxDepth - Len(p) # 0
      BY <2>2, DeepIs
  <2> QED
      BY <1>0, <1>1, <2>1, <2>3
<1>2. 0 \in T
  <2> SUFFICES ASSUME NEW p \in Seq(Names), Q(p), Len(p) + 0 = MaxDepth PROVE FALSE
      OBVIOUS
  <2>1. Len(p) \in Nat
      OBVIOUS
  <2>2. Len(p) <= MaxDepth /\ ~(Len(p) < MaxDepth)
      BY <1>0, <2>1
  <2> QED
      BY <1>1, <2>2
<1>3. ASSUME NEW k \in Nat, k \in T PROVE k + 1 \in T
  <2> SUFFICES ASSUME NEW p \in Seq(Names), Q(p), Len(p) + (k + 1) = MaxDepth
               PROVE  \E q \in FD : IsStrictPrefix(p, q)
      OBVIOUS
  <2> DEFINE kids == Kids(rws, E(p).hash)
  <2>1. /\ HashOf(kids) = E(p).hash
        /\ \A n \in DOMAIN kids : n \in Names /\ E(Append(p, n)) = kids[n]
                                  /\ kids[n] # NoEntry /\ kids[n].hash # Empty
      BY ChildrenAt
  <2> HIDE DEF kids, E
  <2>2. PICK n : n \in DOMAIN kids
    <3>1. DOMAIN kids = {} => HashOf(kids) = Empty
        BY DEF HashOf, Empty
    <3>2. E(p).hash # Empty
        OBVIOUS
    <3> QED
        BY <2>1, <3>1, <3>2
  <2> DEFINE r == Append(p, n)
  <2>3. n \in Names /\ E(r) # NoEntry /\ E(r).hash # Empty
      BY <2>1, <2>2
  <2>4. /\ r \in Seq(Names) /\ Len(r) = Len(p) + 1 /\ Len(p) \in Nat
        /\ \A i \in 1 .. Len(p) : p[i] = r[i]
      BY <2>3
  <2> HIDE DEF r
  <2>5. p \in Seq(Nat) /\ r \in Seq(Nat)
      BY <2>4 DEF Names
  <2>6. IsStrictPrefix(p, r)
      BY <2>4, <2>5, PrefixIs
  <2>7. CASE ~E(r).isDir
    <3>1. Len(r) \in 1 .. MaxDepth
        BY <1>0, <2>4
    <3>2. r \in FD
        BY <2>3, <2>4, <2>7, <3>1, FilePathsAre DEF E
    <3> QED
        BY <2>6, <3>2
  <2>8. CASE E(r).isDir
    <3>1. Len(r) + k = MaxDepth
        BY <1>0, <2>4
    <3>2. PICK q \in FD : IsStrictPrefix(r, q)
        BY <1>3, <2>3, <2>4, <2>8, <3>1
    <3>3. q \in Seq(Nat)
        BY <3>2, FilePathsAre DEF Names
    <3>4. Len(r) < Len(q) /\ \A i \in 1 .. Len(r) : r[i] = q[i]
        BY <2>5, <3>2, <3>3, PrefixIs
    <3>5. Len(p) < Len(q) /\ \A i \in 1 .. Len(p) : p[i] = q[i]
      <4>1. Len(q) \in Nat
          BY <3>3
      <4> QED
          BY <2>4, <3>4, <4>1
    <3>6. IsStrictPrefix(p, q)
        BY <2>5, <3>3, <3>5, PrefixIs
    <3> QED
        BY <3>6
  <2> QED
      BY <2>7, <2>8
<1> HIDE DEF T
<1>4. MaxDepth - Len(d) \in T
  <2>1. MaxDepth - Len(d) \in Nat
      BY <1>0
  <2> QED
      BY <1>2, <1>3, <2>1, SetInduction
<1>5. Len(d) + (MaxDepth - Len(d)) = MaxDepth
    BY <1>0
<1> QED
    BY <1>4, <1>5 DEF T

\* The files of a tree say what its hash is.
LEMMA HashFromFiles ==
    ASSUME NoCollision, NEW rws, RowsSound(rws), NEW root, DirIn(DOMAIN rws, root),
           root \in Deep[MaxDepth]
    PROVE  root = TreeHash(Files(rws, root))
<1> DEFINE E(p) == EntryAt(rws, root, p)
           f == Files(rws, root)
           FD == DOMAIN f
           dirs == {<<>>} \cup UNION {{SubSeq(p, 1, i) : i \in 0 .. Len(p) - 1} : p \in FD}
           names(d) == {p[Len(d) + 1] : p \in {q \in FD : IsStrictPrefix(d, q)}}
           kids(d) == Kids(rws, E(d).hash)
           Body(d, v) == [n \in names(d) |-> IF Append(d, n) \in FD THEN f[Append(d, n)] ELSE v[Append(d, n)]]
           w == CHOOSE v : v = [d \in dirs |-> Body(d, v)]
<1>0. MaxDepth \in Nat \ {0}
    BY WorkTreeAssumption
<1>1. TreeHash(f) = w[<<>>]
    BY DEF TreeHash
<1>2. FD = FilePaths(rws, root) /\ \A q \in FD : f[q] = E(q).hash
    BY DEF Files, FilePaths
<1> HIDE DEF f, w, E
<1>3. ASSUME NEW q
      PROVE  q \in FD <=> /\ q \in Seq(Names) /\ Len(q) \in 1 .. MaxDepth
                          /\ E(q) # NoEntry /\ ~E(q).isDir
    BY <1>2, FilePathsAre DEF E
<1> HIDE DEF FD
<1>4. ASSUME NEW d \in dirs PROVE d \in Seq(Names) /\ E(d).isDir /\ Len(d) < MaxDepth
  <2>1. CASE d = <<>>
    <3>1. E(d) = Dir(root)
        BY <2>1, RootEntry DEF E
    <3>2. E(d).isDir
        BY <3>1 DEF Dir
    <3> QED
        BY <1>0, <2>1, <3>2
  <2>2. CASE d # <<>>
    <3>0. PICK p \in FD : \E i \in 0 .. Len(p) - 1 : d = SubSeq(p, 1, i)
        BY <2>2
    <3>1. PICK i \in 0 .. Len(p) - 1 : d = SubSeq(p, 1, i)
        BY <3>0
    <3>2. p \in Seq(Names) /\ Len(p) \in 1 .. MaxDepth /\ E(p) # NoEntry
        BY <1>3
    <3>3. d \in Seq(Names) /\ Len(d) = i /\ E(d).isDir
        BY <3>1, <3>2, WayDown DEF E
    <3> QED
        BY <1>0, <3>2, <3>3
  <2> QED
      BY <2>1, <2>2
<1>5. <<>> \in dirs /\ E(<<>>).hash = root
    BY RootEntry DEF E, Dir
<1>6. ASSUME NEW p \in FD, NEW i \in 0 .. Len(p) - 1 PROVE SubSeq(p, 1, i) \in dirs
    OBVIOUS
<1> HIDE DEF dirs
<1>7. ASSUME NEW d \in dirs, NEW n
      PROVE  n \in DOMAIN kids(d) =>
                /\ n \in Names /\ E(Append(d, n)) = kids(d)[n]
                /\ kids(d)[n] # NoEntry /\ kids(d)[n].hash # Empty
  <2>1. d \in Seq(Names) /\ E(d).isDir
      BY <1>4
  <2>2. \A m \in DOMAIN kids(d) : /\ m \in Names /\ E(Append(d, m)) = kids(d)[m]
                                 /\ kids(d)[m] # NoEntry /\ kids(d)[m].hash # Empty
      BY <2>1, ChildrenAt DEF E
  <2> QED
      BY <2>2
<1>8. ASSUME NEW d \in dirs PROVE HashOf(kids(d)) = E(d).hash
    BY <1>4, ChildrenAt DEF E
<1>9. ASSUME NEW d \in dirs, NEW q \in FD, IsStrictPrefix(d, q)
      PROVE  LET n == q[Len(d) + 1]
             IN  n \in DOMAIN kids(d) /\ (Append(d, n) \in dirs \/ Append(d, n) \in FD)
  <2> DEFINE n == q[Len(d) + 1]
             k == Len(d)
  <2>1. q \in Seq(Names) /\ Len(q) \in 1 .. MaxDepth /\ E(q) # NoEntry /\ d \in Seq(Names) /\ E(d).isDir
      BY <1>3, <1>4
  <2>2. q \in Seq(Nat) /\ d \in Seq(Nat)
      BY <2>1 DEF Names
  <2>3. Len(d) < Len(q) /\ \A i \in 1 .. Len(d) : d[i] = q[i]
      BY <1>9, <2>2, PrefixIs
  <2>4. k \in Nat /\ k \in 0 .. Len(q) - 1 /\ Len(q) \in Nat /\ n \in Names
      BY <2>1, <2>3
  <2>5. SubSeq(q, 1, k) = d
      BY <2>1, <2>3
  <2>6. E(Append(SubSeq(q, 1, k), q[k + 1])) # NoEntry
      BY <2>1, <2>4, WayDown DEF E
  <2>7. n \in DOMAIN kids(d)
      BY <2>1, <2>4, <2>5, <2>6, ChildrenAt DEF E
  <2>8. CASE k + 1 = Len(q)
    <3>1. Append(d, n) = q
        BY <2>1, <2>3, <2>8
    <3> QED
        BY <2>7, <3>1
  <2>9. CASE k + 1 # Len(q)
    <3>1. k + 1 \in 0 .. Len(q) - 1
        BY <2>4, <2>9
    <3>2. SubSeq(q, 1, k + 1) = Append(d, n)
        BY <2>1, <2>3, <3>1
    <3> QED
        BY <1>6, <2>7, <3>1, <3>2
  <2> QED
      BY <2>8, <2>9
<1>10. ASSUME NEW d \in dirs, NEW n \in DOMAIN kids(d)
       PROVE  \E q \in FD : IsStrictPrefix(d, q) /\ n = q[Len(d) + 1]
  <2> DEFINE r == Append(d, n)
  <2>1. d \in Seq(Names) /\ Len(d) < MaxDepth /\ Len(d) \in Nat /\ n \in Names
      BY <1>4, <1>7
  <2>2. E(r) # NoEntry /\ E(r).hash # Empty
      BY <1>7
  <2>3. /\ r \in Seq(Names) /\ Len(r) = Len(d) + 1 /\ r[Len(d) + 1] = n
        /\ \A i \in 1 .. Len(d) : d[i] = r[i]
      BY <2>1
  <2> HIDE DEF r
  <2>4. d \in Seq(Nat) /\ r \in Seq(Nat)
      BY <2>1, <2>3 DEF Names
  <2>5. CASE ~E(r).isDir
    <3>1. Len(r) \in 1 .. MaxDepth
        BY <1>0, <2>1, <2>3
    <3>2. r \in FD
        BY <1>3, <2>2, <2>3, <2>5, <3>1
    <3>3. IsStrictPrefix(d, r)
        BY <2>1, <2>3, <2>4, PrefixIs
    <3> QED
        BY <2>3, <3>2, <3>3
  <2>6. CASE E(r).isDir
    <3>1. Len(r) <= MaxDepth
        BY <1>0, <2>1, <2>3
    <3>2. PICK q \in FD : IsStrictPrefix(r, q)
        BY <1>2, <2>2, <2>3, <2>6, <3>1, FileBelow DEF E
    <3>3. q \in Seq(Names)
        BY <1>3
    <3>4. q \in Seq(Nat) /\ Len(q) \in Nat
        BY <3>3 DEF Names
    <3>5. Len(r) < Len(q) /\ \A i \in 1 .. Len(r) : r[i] = q[i]
        BY <2>4, <3>2, <3>4, PrefixIs
    <3>6. Len(d) < Len(q) /\ (\A i \in 1 .. Len(d) : d[i] = q[i]) /\ q[Len(d) + 1] = n
      <4>1. Len(d) + 1 \in 1 .. Len(r) /\ \A i \in 1 .. Len(d) : i \in 1 .. Len(r)
          BY <2>1, <2>3
      <4> QED
          BY <2>1, <2>3, <3>4, <3>5, <4>1
    <3>7. IsStrictPrefix(d, q)
        BY <2>4, <3>4, <3>6, PrefixIs
    <3> QED
        BY <3>6, <3>7
  <2> QED
      BY <2>5, <2>6
<1>11. \A d \in dirs : names(d) = DOMAIN kids(d)
    BY <1>9, <1>10
<1>12. ASSUME NEW d \in dirs, NEW n \in DOMAIN kids(d), Append(d, n) \notin FD
       PROVE  Append(d, n) \in dirs
    BY <1>9, <1>10, <1>12
<1> HIDE DEF names, kids
<1> DEFINE g == [d \in dirs |-> E(d).hash]
<1>13. ASSUME NEW d \in dirs, NEW v,
              \A n \in DOMAIN kids(d) : Append(d, n) \in dirs => v[Append(d, n)] = E(Append(d, n)).hash
       PROVE  Body(d, v) = E(d).hash
  <2>1. ASSUME NEW n \in DOMAIN kids(d)
        PROVE  (IF Append(d, n) \in FD THEN f[Append(d, n)] ELSE v[Append(d, n)]) = kids(d)[n].hash
    <3>1. E(Append(d, n)) = kids(d)[n]
        BY <1>7
    <3>2. CASE Append(d, n) \in FD
        BY <1>2, <3>1, <3>2
    <3>3. CASE Append(d, n) \notin FD
        BY <1>12, <1>13, <3>1, <3>3
    <3> QED
        BY <3>2, <3>3
  <2>2. Body(d, v) = HashOf(kids(d))
      BY <1>11, <2>1 DEF HashOf
  <2> QED
      BY <1>8, <2>2
<1> HIDE DEF Body
<1>14. g = [d \in dirs |-> Body(d, g)]
  <2>1. \A d \in dirs : Body(d, g) = E(d).hash
      BY <1>13
  <2> QED
      BY <2>1
<1>15. w = [d \in dirs |-> Body(d, w)]
    BY <1>14 DEF w
<1> DEFINE T == {k \in Nat : \A d \in dirs : Len(d) + k >= MaxDepth => w[d] = E(d).hash}
<1>16. 0 \in T
  <2>1. \A d \in dirs : Len(d) \in Nat /\ Len(d) < MaxDepth
      BY <1>4
  <2> QED
      BY <1>0, <2>1
<1>17. ASSUME NEW k \in Nat, k \in T PROVE k + 1 \in T
  <2> SUFFICES ASSUME NEW d \in dirs, Len(d) + (k + 1) >= MaxDepth PROVE w[d] = E(d).hash
      OBVIOUS
  <2>1. \A n \in DOMAIN kids(d) : Append(d, n) \in dirs => w[Append(d, n)] = E(Append(d, n)).hash
    <3> SUFFICES ASSUME NEW n \in DOMAIN kids(d), Append(d, n) \in dirs
                 PROVE  w[Append(d, n)] = E(Append(d, n)).hash
        OBVIOUS
    <3>1. n \in Names /\ d \in Seq(Names)
        BY <1>4, <1>7
    <3>2. Len(Append(d, n)) = Len(d) + 1 /\ Len(d) \in Nat
        BY <3>1
    <3>3. Len(Append(d, n)) + k >= MaxDepth
        BY <1>0, <3>2
    <3> QED
        BY <1>17, <3>3
  <2>2. w[d] = Body(d, w)
      BY <1>15
  <2> QED
      BY <1>13, <2>1, <2>2
<1> HIDE DEF T
<1>18. MaxDepth \in T
    BY <1>0, <1>16, <1>17, SetInduction
<1>19. w[<<>>] = root
  <2>1. Len(<<>>) + MaxDepth >= MaxDepth
      BY <1>0
  <2> QED
      BY <1>5, <1>18, <2>1 DEF T
<1> QED
    BY <1>1, <1>19 DEF f

----------------------------------------------------------------------------
(* What the comparison lists.                                              *)

\* What holds of a set of positions that has every position whose next one it has.
LEMMA LoopHolds ==
    ASSUME NEW D, NEW done, NEW skips, NEW out, NEW next, NEW N, NEW mu, NEW V,
           Loop(D, done, skips, out, next, N, mu, V),
           NEW Q, \A x \in D : (x \notin done => next[x] \in Q) => x \in Q
    PROVE  D \subseteq Q
<1> N \in Nat /\ mu \in [D -> 0 .. N]
    BY DEF Loop
<1> \A x \in D \ done : next[x] \in D /\ mu[next[x]] < mu[x]
    BY DEF Loop
<1> DEFINE T == {n \in Nat : \A x \in D : mu[x] < n => x \in Q}
<1>1. \A x \in D : mu[x] \in Nat /\ mu[x] <= N
    OBVIOUS
<1>2. 0 \in T
    BY <1>1
<1>3. ASSUME NEW n \in Nat, n \in T PROVE n + 1 \in T
  <2> SUFFICES ASSUME NEW x \in D, mu[x] < n + 1 PROVE x \in Q
      OBVIOUS
  <2>1. ASSUME x \notin done PROVE next[x] \in Q
    <3>1. next[x] \in D /\ mu[next[x]] < n
        BY <1>1, <2>1
    <3> QED
        BY <1>3, <3>1
  <2> QED
      BY <2>1
<1> HIDE DEF T
<1>4. N + 1 \in T
    BY <1>2, <1>3, SetInduction
<1> QED
    BY <1>1, <1>4 DEF T

\* A path is a prefix of itself and of those that go on below it.
LEMMA PrefixOf ==
    ASSUME NEW p \in Seq(Nat), NEW q \in Seq(Nat)
    PROVE  /\ IsPrefix(p, q) <=> Len(p) <= Len(q) /\ \A i \in 1 .. Len(p) : p[i] = q[i]
           /\ IsPrefix(p, q) <=> p = q \/ IsStrictPrefix(p, q)
           /\ ~IsStrictPrefix(p, p)
           /\ IsStrictPrefix(p, q) => Before(p, q)
<1>1. IsPrefix(p, q) <=> p = q \/ IsStrictPrefix(p, q)
    BY DEF IsStrictPrefix, IsPrefix
<1>2. IsStrictPrefix(p, q) <=> Len(p) < Len(q) /\ \A i \in 1 .. Len(p) : p[i] = q[i]
    BY PrefixIs
<1>3. Len(p) = Len(q) /\ (\A i \in 1 .. Len(p) : p[i] = q[i]) => p = q
    OBVIOUS
<1> QED
    BY <1>1, <1>2, <1>3 DEF Before, IsStrictPrefix

\* Of two prefixes of one path, one is a prefix of the other.
LEMMA PrefixesNest ==
    ASSUME NEW p \in Seq(Nat), NEW q \in Seq(Nat), NEW r \in Seq(Nat)
    PROVE  /\ IsPrefix(p, q) /\ IsPrefix(r, q) => IsPrefix(p, r) \/ IsStrictPrefix(r, p)
           /\ IsPrefix(p, q) /\ IsPrefix(q, r) => IsPrefix(p, r)
           /\ IsStrictPrefix(p, q) /\ IsPrefix(q, r) => IsStrictPrefix(p, r)
           /\ IsPrefix(p, q) /\ IsStrictPrefix(q, r) => IsStrictPrefix(p, r)
<1>1. /\ IsPrefix(p, q) <=> Len(p) <= Len(q) /\ \A i \in 1 .. Len(p) : p[i] = q[i]
      /\ IsPrefix(r, q) <=> Len(r) <= Len(q) /\ \A i \in 1 .. Len(r) : r[i] = q[i]
      /\ IsPrefix(p, r) <=> Len(p) <= Len(r) /\ \A i \in 1 .. Len(p) : p[i] = r[i]
      /\ IsPrefix(q, r) <=> Len(q) <= Len(r) /\ \A i \in 1 .. Len(q) : q[i] = r[i]
    BY PrefixOf
<1>2. /\ IsStrictPrefix(p, q) <=> Len(p) < Len(q) /\ \A i \in 1 .. Len(p) : p[i] = q[i]
      /\ IsStrictPrefix(r, p) <=> Len(r) < Len(p) /\ \A i \in 1 .. Len(r) : r[i] = p[i]
      /\ IsStrictPrefix(q, r) <=> Len(q) < Len(r) /\ \A i \in 1 .. Len(q) : q[i] = r[i]
      /\ IsStrictPrefix(p, r) <=> Len(p) < Len(r) /\ \A i \in 1 .. Len(p) : p[i] = r[i]
    BY PrefixIs
<1>3. Len(p) \in Nat /\ Len(q) \in Nat /\ Len(r) \in Nat
    OBVIOUS
<1>4. IsPrefix(p, q) /\ IsPrefix(r, q) => IsPrefix(p, r) \/ IsStrictPrefix(r, p)
  <2> SUFFICES ASSUME IsPrefix(p, q), IsPrefix(r, q) PROVE IsPrefix(p, r) \/ IsStrictPrefix(r, p)
      OBVIOUS
  <2>0. (\A i \in 1 .. Len(p) : p[i] = q[i]) /\ (\A i \in 1 .. Len(r) : r[i] = q[i])
      BY <1>1
  <2>1. CASE Len(p) <= Len(r)
    <3>1. \A i \in 1 .. Len(p) : i \in 1 .. Len(r)
        BY <1>3, <2>1
    <3>2. \A i \in 1 .. Len(p) : p[i] = r[i]
        BY <2>0, <3>1
    <3> QED
        BY <1>1, <2>1, <3>2
  <2>2. CASE Len(r) < Len(p)
    <3>1. \A i \in 1 .. Len(r) : i \in 1 .. Len(p)
        BY <1>3, <2>2
    <3>2. \A i \in 1 .. Len(r) : r[i] = p[i]
        BY <2>0, <3>1
    <3> QED
        BY <1>2, <2>2, <3>2
  <2> QED
      BY <1>3, <2>1, <2>2
<1>5. ASSUME IsPrefix(p, q), IsPrefix(q, r)
      PROVE  /\ IsPrefix(p, r)
             /\ Len(p) < Len(q) \/ Len(q) < Len(r) => IsStrictPrefix(p, r)
  <2>1. \A i \in 1 .. Len(p) : i \in 1 .. Len(q) /\ p[i] = q[i] /\ q[i] = r[i]
      BY <1>1, <1>3, <1>5
  <2>2. Len(p) <= Len(q) /\ Len(q) <= Len(r)
      BY <1>1, <1>5
  <2> QED
      BY <1>1, <1>2, <1>3, <2>1, <2>2
<1>6. /\ IsStrictPrefix(p, q) => IsPrefix(p, q) /\ Len(p) < Len(q)
      /\ IsStrictPrefix(q, r) => IsPrefix(q, r) /\ Len(q) < Len(r)
    BY <1>2 DEF IsStrictPrefix
<1> QED
    BY <1>4, <1>5, <1>6

\* What is below a path comes behind it without a gap.
LEMMA BelowTogether ==
    ASSUME NEW p \in Seq(Nat), NEW q \in Seq(Nat), NEW r \in Seq(Nat),
           IsStrictPrefix(p, q), Before(p, r), Before(r, q)
    PROVE  IsStrictPrefix(p, r)
<1>1. Len(p) < Len(q) /\ \A i \in 1 .. Len(p) : p[i] = q[i]
    BY PrefixIs
<1>2. PICK i \in 1 .. Len(r) : Parts(p, r, i)
    BY BeforeIs
<1>3. CASE i = Len(p) + 1
  <2>1. Len(p) \in Nat /\ Len(r) \in Nat /\ Len(p) < Len(r)
      BY <1>3
  <2>2. \A j \in 1 .. Len(p) : p[j] = r[j]
      BY <1>2, <1>3, <2>1 DEF Parts
  <2> QED
      BY <2>1, <2>2, PrefixIs
<1>4. CASE i # Len(p) + 1
  <2>1. i \in 1 .. Len(p) /\ p[i] < r[i] /\ \A j \in 1 .. i - 1 : p[j] = r[j]
      BY <1>2, <1>4 DEF Parts
  <2>2. i <= Len(r) /\ i <= Len(q) /\ q[i] < r[i] /\ \A j \in 1 .. i - 1 : q[j] = r[j]
      BY <1>1, <2>1
  <2>3. Before(q, r)
      BY <2>1, <2>2 DEF Before
  <2> QED
      BY <2>3, BeforeOrders
<1> QED
    BY <1>3, <1>4

----------------------------------------------------------------------------
\* The positions an iterator at p has still to come, its own included.
Ahead(S, p) == IF p \in S THEN {q \in S : ~Before(q, p)} ELSE {}

\* Ahead of an entry is the entry itself.
LEMMA AheadIs ==
    ASSUME NEW S, S \subseteq Seq(Nat), NEW p \in S, NEW q
    PROVE  q \in Ahead(S, p) <=> q \in S /\ (q = p \/ Before(p, q))
BY BeforeOrders DEF Ahead

\* Of a set that has with a position all that come behind it, all is ahead.
LEMMA AheadFirst ==
    ASSUME NEW S, IsFiniteSet(S), S \subseteq Seq(Names), NEW R, R \subseteq S,
           \A p \in R : \A q \in S : Before(p, q) => q \in R
    PROVE  Ahead(S, First(R)) = R
<1>0. S \subseteq Seq(Nat) /\ R \subseteq Seq(Nat) /\ IsFiniteSet(R)
    BY FS_Subset DEF Names
<1>1. CASE R = {}
  <2>1. End \notin S
    <3>1. \A q \in Seq(Names) : \A i \in 1 .. Len(q) : q[i] # 0
        BY DEF Names
    <3>2. 1 \in 1 .. Len(<<0>>) /\ <<0>>[1] = 0
        OBVIOUS
    <3> QED
        BY <3>1, <3>2 DEF End
  <2> QED
      BY <1>1, <2>1 DEF First, Ahead
<1>2. CASE R # {}
  <2>1. First(R) \in R /\ \A q \in R \ {First(R)} : Before(First(R), q)
      BY <1>0, <1>2, FirstIn
  <2> DEFINE f == First(R)
  <2>2. f \in S /\ f \in R
      BY <2>1
  <2>3. \A q : q \in Ahead(S, f) <=> q \in S /\ (q = f \/ Before(f, q))
      BY <1>0, <2>2, AheadIs
  <2> HIDE DEF f
  <2>4. \A q : q \in Ahead(S, f) => q \in R
      BY <2>2, <2>3
  <2>5. \A q \in R : q \in Ahead(S, f)
      BY <2>1, <2>3 DEF f
  <2>6. Ahead(S, f) \subseteq S
      BY DEF Ahead
  <2> QED
      BY <2>4, <2>5 DEF f
<1> QED
    BY <1>1, <1>2

\* Next leaves the entry and all below it behind, Step the entry alone.
LEMMA AheadNext ==
    ASSUME NEW S, IsFiniteSet(S), S \subseteq Seq(Names), NEW p \in S
    PROVE  /\ Ahead(S, NextIn(S, p)) = {q \in Ahead(S, p) : ~IsPrefix(p, q)}
           /\ Ahead(S, StepIn(S, p)) = Ahead(S, p) \ {p}
           /\ p \in Ahead(S, p)
<1>0. S \subseteq Seq(Nat)
    BY DEF Names
<1>1. Ahead(S, p) = {q \in S : q = p \/ Before(p, q)}
  <2>1. \A q : q \in Ahead(S, p) <=> q \in S /\ (q = p \/ Before(p, q))
      BY <1>0, AheadIs
  <2> QED
      BY <2>1
<1> DEFINE R == {q \in S : Before(p, q) /\ ~IsStrictPrefix(p, q)}
           U == {q \in S : Before(p, q)}
<1>2. Ahead(S, First(R)) = R
  <2>1. ASSUME NEW q \in R, NEW r \in S, Before(q, r) PROVE r \in R
    <3>1. Before(p, r)
        BY <1>0, <2>1, BeforeOrders
    <3>2. ~IsStrictPrefix(p, r)
        BY <1>0, <2>1, BelowTogether
    <3> QED
        BY <3>1, <3>2
  <2>2. R \subseteq S
      OBVIOUS
  <2> HIDE DEF R
  <2> QED
      BY <2>1, <2>2, AheadFirst
<1>3. Ahead(S, First(U)) = U
  <2>1. ASSUME NEW q \in U, NEW r \in S, Before(q, r) PROVE r \in U
      BY <1>0, <2>1, BeforeOrders
  <2>2. U \subseteq S
      OBVIOUS
  <2> HIDE DEF U
  <2> QED
      BY <2>1, <2>2, AheadFirst
<1>4. R = {q \in Ahead(S, p) : ~IsPrefix(p, q)}
  <2>1. \A q \in S : IsPrefix(p, q) <=> p = q \/ IsStrictPrefix(p, q)
      BY <1>0, PrefixOf
  <2>2. ~Before(p, p)
      BY <1>0, BeforeOrders
  <2> QED
      BY <1>1, <2>1, <2>2
<1>5. U = Ahead(S, p) \ {p}
  <2>1. ~Before(p, p)
      BY <1>0, BeforeOrders
  <2> QED
      BY <1>1, <2>1
<1>6. NextIn(S, p) = First(R) /\ StepIn(S, p) = First(U)
    BY DEF NextIn, StepIn
<1> QED
    BY <1>1, <1>2, <1>3, <1>4, <1>5, <1>6

\* Everything is ahead of the first.
LEMMA AheadOfFirst ==
    ASSUME NEW S, IsFiniteSet(S), S \subseteq Seq(Names)
    PROVE  Ahead(S, First(S)) = S
BY AheadFirst

\* A sorted set of paths, each once.
LEMMA SortedLists ==
    ASSUME NEW S, IsFiniteSet(S), S \subseteq Seq(Nat)
    PROVE  LET s == Sorted(S)
           IN  /\ s \in Seq(S) /\ {s[i] : i \in 1 .. Len(s)} = S
               /\ \A i, j \in 1 .. Len(s) : i # j => s[i] # s[j]
<1> DEFINE n == Cardinality(S)
           s == Sorted(S)
           g(i) == CHOOSE p \in S : Rank(S, p) = i - 1
<1>1. n \in Nat
    BY FS_CardinalityType
<1>2. s = [i \in 1 .. n |-> g(i)]
    BY DEF Sorted, Rank
<1>3. ASSUME NEW i \in 1 .. n PROVE s[i] \in S /\ Rank(S, s[i]) = i - 1
  <2>1. i - 1 \in 0 .. n - 1
      BY <1>1
  <2>2. \E p \in S : Rank(S, p) = i - 1
      BY <2>1, Ranks
  <2> HIDE DEF n
  <2> QED
      BY <1>2, <2>2
<1>4. s \in Seq(S)
    BY SortedIn
<1>5. Len(s) = n
    BY <1>1, <1>2
<1> HIDE DEF g, n, s
<1>6. ASSUME NEW p \in S PROVE p \in {s[i] : i \in 1 .. n}
  <2> DEFINE k == Rank(S, p)
  <2>1. k \in 0 .. n - 1
      BY Ranks DEF n
  <2>2. k + 1 \in 1 .. n /\ (k + 1) - 1 = k
      BY <1>1, <2>1
  <2>3. Rank(S, s[k + 1]) = k /\ s[k + 1] \in S
      BY <1>3, <2>2
  <2>4. s[k + 1] = p
    <3>1. Before(p, s[k + 1]) => Rank(S, p) < Rank(S, s[k + 1])
        BY <2>3, Ranks
    <3>2. Before(s[k + 1], p) => Rank(S, s[k + 1]) < Rank(S, p)
        BY <2>3, Ranks
    <3>3. p \in Seq(Nat) /\ s[k + 1] \in Seq(Nat)
        BY <2>3
    <3>4. k \in Nat
        BY <1>1, <2>1
    <3> QED
        BY <2>3, <3>1, <3>2, <3>3, <3>4, BeforeOrders
  <2> QED
      BY <2>2, <2>4
<1>7. \A i, j \in 1 .. n : i # j => s[i] # s[j]
  <2> SUFFICES ASSUME NEW i \in 1 .. n, NEW j \in 1 .. n, s[i] = s[j] PROVE i = j
      OBVIOUS
  <2>1. i - 1 = j - 1
      BY <1>3
  <2> QED
      BY <1>1, <2>1
<1> QED
    BY <1>3, <1>4, <1>5, <1>6, <1>7 DEF s

----------------------------------------------------------------------------
\* A list of just these changes, each once.
Lists(cs, C) ==
    /\ \E V : cs \in Seq(V)
    /\ {cs[i] : i \in 1 .. Len(cs)} = C
    /\ \A i, j \in 1 .. Len(cs) : i # j => cs[i].path # cs[j].path

\* The empty list lists nothing.
LEMMA ListsNone == Lists(<<>>, {})
BY DEF Lists

\* A list of one.
LEMMA ListsOne == ASSUME NEW c PROVE Lists(<<c>>, {c})
<1>1. <<c>> \in Seq({c}) /\ Len(<<c>>) = 1 /\ <<c>>[1] = c
    OBVIOUS
<1>2. \A i \in 1 .. Len(<<c>>) : i = 1
    BY <1>1
<1>3. {<<c>>[i] : i \in 1 .. Len(<<c>>)} = {c}
    BY <1>1, <1>2
<1>4. \E V : <<c>> \in Seq(V)
    BY <1>1
<1>5. \A i, j \in 1 .. Len(<<c>>) : i # j => <<c>>[i].path # <<c>>[j].path
    BY <1>2
<1> QED
    BY <1>3, <1>4, <1>5 DEF Lists

\* Two lists of different paths, one behind the other.
LEMMA ListsBoth ==
    ASSUME NEW s, NEW t, NEW C, NEW D, Lists(s, C), Lists(t, D), \A c \in C, d \in D : c.path # d.path
    PROVE  Lists(s \o t, C \cup D)
<1>1. PICK V : s \in Seq(V)
    BY DEF Lists
<1>2. PICK W : t \in Seq(W)
    BY DEF Lists
<1> DEFINE X == V \cup W
           u == s \o t
<1>3. s \in Seq(X) /\ t \in Seq(X)
    BY <1>1, <1>2
<1> HIDE DEF X
<1>4. /\ u \in Seq(X) /\ Len(u) = Len(s) + Len(t)
      /\ \A i \in 1 .. Len(s) : u[i] = s[i]
      /\ \A j \in 1 .. Len(t) : u[Len(s) + j] = t[j]
    BY <1>3, Joined
<1>5. Len(s) \in Nat /\ Len(t) \in Nat
    BY <1>3
<1> HIDE DEF u
<1> DEFINE m == Len(s)
           n == Len(t)
<1>6. \A i \in 1 .. m + n : \/ i \in 1 .. m /\ u[i] = s[i]
                            \/ i - m \in 1 .. n /\ i > m /\ u[i] = t[i - m]
  <2> TAKE i \in 1 .. m + n
  <2>1. CASE i <= m
      BY <1>4, <1>5, <2>1
  <2>2. CASE i > m
    <3>1. i - m \in 1 .. n /\ m + (i - m) = i
        BY <1>5, <2>2
    <3> QED
        BY <1>4, <2>2, <3>1
  <2> QED
      BY <1>5, <2>1, <2>2
<1>7. /\ C = {s[i] : i \in 1 .. m} /\ \A i, j \in 1 .. m : i # j => s[i].path # s[j].path
      /\ D = {t[i] : i \in 1 .. n} /\ \A i, j \in 1 .. n : i # j => t[i].path # t[j].path
    BY DEF Lists
<1>8. {u[i] : i \in 1 .. m + n} = C \cup D
  <2>1. \A i \in 1 .. m + n : u[i] \in C \cup D
      BY <1>6, <1>7
  <2>2. \A i \in 1 .. m : i \in 1 .. m + n /\ s[i] = u[i]
      BY <1>4, <1>5
  <2>3. \A j \in 1 .. n : m + j \in 1 .. m + n /\ t[j] = u[m + j]
      BY <1>4, <1>5
  <2> HIDE DEF m, n
  <2>4. \A c \in C : \E i \in 1 .. m + n : c = u[i]
      BY <1>7, <2>2
  <2>5. \A d \in D : \E i \in 1 .. m + n : d = u[i]
      BY <1>7, <2>3
  <2> QED
      BY <2>1, <2>4, <2>5
<1>9. ASSUME NEW i \in 1 .. m + n, NEW j \in 1 .. m + n, i # j PROVE u[i].path # u[j].path
  <2>1. CASE i \in 1 .. m /\ u[i] = s[i] /\ j \in 1 .. m /\ u[j] = s[j]
      BY <1>7, <1>9, <2>1
  <2>2. CASE i - m \in 1 .. n /\ u[i] = t[i - m] /\ j - m \in 1 .. n /\ u[j] = t[j - m]
    <3>1. i - m # j - m
        BY <1>5, <1>9
    <3> QED
        BY <1>7, <2>2, <3>1
  <2>3. CASE i \in 1 .. m /\ u[i] = s[i] /\ j - m \in 1 .. n /\ u[j] = t[j - m]
      BY <1>7, <2>3
  <2>4. CASE i - m \in 1 .. n /\ u[i] = t[i - m] /\ j \in 1 .. m /\ u[j] = s[j]
      BY <1>7, <2>4
  <2> QED
      BY <1>6, <2>1, <2>2, <2>3, <2>4
<1> QED
    BY <1>4, <1>8, <1>9 DEF Lists, u

\* The changes of a directory's files, deleted or inserted.
FilesBelow(rws, root, S, p) == {q \in S : IsPrefix(p, q) /\ ~EntryAt(rws, root, q).isDir}

\* AddRecursiveDelete and AddRecursiveInsert list the files below a path, each once.
LEMMA ListsFiles ==
    ASSUME NEW rws, NEW root, NEW S, IsFiniteSet(S), S \subseteq Seq(Names), NEW p
    PROVE  /\ Lists(Deletes(rws, root, S, p),
                    {Change(q, EntryAt(rws, root, q), NoEntry) : q \in FilesBelow(rws, root, S, p)})
           /\ Lists(Inserts(rws, root, S, p),
                    {Change(q, NoEntry, EntryAt(rws, root, q)) : q \in FilesBelow(rws, root, S, p)})
<1> DEFINE R == FilesBelow(rws, root, S, p)
           fs == FilesUnder(rws, root, S, p)
<1>1. R \subseteq Seq(Nat) /\ IsFiniteSet(R)
    BY FS_Subset DEF FilesBelow, Names
<1>2. fs = Sorted(R)
    BY DEF FilesUnder, FilesBelow
<1> HIDE DEF R, fs
<1>3. /\ fs \in Seq(R) /\ {fs[i] : i \in 1 .. Len(fs)} = R
      /\ \A i, j \in 1 .. Len(fs) : i # j => fs[i] # fs[j]
  <2>1. LET t == Sorted(R)
        IN  /\ t \in Seq(R) /\ {t[i] : i \in 1 .. Len(t)} = R
            /\ \A i, j \in 1 .. Len(t) : i # j => t[i] # t[j]
      BY <1>1, SortedLists, Zenon
  <2> QED
      BY <1>2, <2>1
<1> DEFINE n == Len(fs)
           dl == [q \in R |-> Change(q, EntryAt(rws, root, q), NoEntry)]
           is == [q \in R |-> Change(q, NoEntry, EntryAt(rws, root, q))]
<1>4. n \in Nat
    BY <1>3
<1>5. \A q \in R : dl[q].path = q /\ is[q].path = q
    BY DEF Change
<1> HIDE DEF n
<1>6. ASSUME NEW op, \A q \in R : op[q].path = q
      PROVE  Lists([i \in 1 .. n |-> op[fs[i]]], {op[q] : q \in R})
  <2> DEFINE cs == [i \in 1 .. n |-> op[fs[i]]]
  <2>0. \A i \in 1 .. n : fs[i] \in R
      BY <1>3 DEF n
  <2>1. cs \in Seq({op[q] : q \in R}) /\ Len(cs) = n
      BY <1>4, <2>0
  <2>2. {cs[i] : i \in 1 .. n} = {op[q] : q \in R}
    <3>1. \A q \in R : \E i \in 1 .. n : q = fs[i]
        BY <1>3 DEF n
    <3> QED
        BY <2>0, <3>1
  <2>3. \A i, j \in 1 .. n : i # j => cs[i].path # cs[j].path
    <3>1. \A i \in 1 .. n : cs[i].path = fs[i]
        BY <1>6, <2>0
    <3>2. \A i, j \in 1 .. n : i # j => fs[i] # fs[j]
        BY <1>3 DEF n
    <3> QED
        BY <3>1, <3>2
  <2> HIDE DEF cs
  <2> QED
      BY <2>1, <2>2, <2>3 DEF Lists, cs
<1>7. /\ Deletes(rws, root, S, p) = [i \in 1 .. n |-> dl[fs[i]]]
      /\ Inserts(rws, root, S, p) = [i \in 1 .. n |-> is[fs[i]]]
  <2>1. \A i \in 1 .. n : fs[i] \in R
      BY <1>3 DEF n
  <2>2. /\ Deletes(rws, root, S, p) = [i \in 1 .. n |-> Change(fs[i], EntryAt(rws, root, fs[i]), NoEntry)]
        /\ Inserts(rws, root, S, p) = [i \in 1 .. n |-> Change(fs[i], NoEntry, EntryAt(rws, root, fs[i]))]
      BY DEF Deletes, Inserts, fs, n
  <2> QED
      BY <2>1, <2>2
<1>8. /\ {dl[q] : q \in R} = {Change(q, EntryAt(rws, root, q), NoEntry) : q \in R}
      /\ {is[q] : q \in R} = {Change(q, NoEntry, EntryAt(rws, root, q)) : q \in R}
    OBVIOUS
<1> HIDE DEF dl, is
<1>9. Lists(Deletes(rws, root, S, p), {dl[q] : q \in R}) /\ Lists(Inserts(rws, root, S, p), {is[q] : q \in R})
    BY <1>5, <1>6, <1>7
<1> QED
    BY <1>8, <1>9 DEF R

\* Every row is still there, as it was.
Extends(t, rws) == DOMAIN rws \subseteq DOMAIN t /\ \A h \in DOMAIN rws : t[h] = rws[h]

\* Where two trees have the same entry, they have the same entries below it, and no
\* nodes that are added change that.
LEMMA SameBelow ==
    ASSUME NoCollision, NEW rws, RowsSound(rws), NEW root, DirIn(DOMAIN rws, root),
           NEW t, Extends(t, rws), NEW other,
           NEW p, Len(p) \in Nat, NEW k \in 0 .. Len(p),
           Along(t, other, p)[k] = Along(rws, root, p)[k]
    PROVE  \A i \in k .. Len(p) : Along(t, other, p)[i] = Along(rws, root, p)[i]
<1> DEFINE at == Along(rws, root, p)
           ax == Along(t, other, p)
           S == {j \in Nat : k + j <= Len(p) => ax[k + j] = at[k + j]}
           n == Len(p)
<1>0. n \in Nat /\ k \in Nat
    OBVIOUS
<1>1. /\ at = [i \in 0 .. n |-> IF i = 0 THEN Dir(root) ELSE Below(rws, at[i - 1], p[i])]
      /\ ax = [i \in 0 .. n |-> IF i = 0 THEN Dir(other) ELSE Below(t, ax[i - 1], p[i])]
    BY AlongEntries
<1>2. \A i \in 0 .. n : EntryIn(DOMAIN rws, at[i])
    BY PathIn
<1> HIDE DEF at, ax, n
<1>3. ASSUME NEW e, EntryIn(DOMAIN rws, e), NEW m PROVE Below(t, e, m) = Below(rws, e, m)
  <2>1. Opens(rws, e.hash)
      BY <1>3, EntryOpens
  <2>2. Kids(t, e.hash) = Kids(rws, e.hash)
      BY <2>1 DEF Opens, Kids, Extends
  <2> QED
      BY <2>2 DEF Below
<1>4. 0 \in S
    BY <1>0 DEF at, ax
<1>5. ASSUME NEW j \in Nat, j \in S PROVE j + 1 \in S
  <2> SUFFICES ASSUME k + (j + 1) <= n PROVE ax[k + (j + 1)] = at[k + (j + 1)]
      BY DEF n
  <2> DEFINE i == k + j
  <2>1. i \in 0 .. n /\ i + 1 \in 0 .. n /\ i + 1 # 0 /\ (i + 1) - 1 = i /\ k + (j + 1) = i + 1
      BY <1>0
  <2>2. ax[i] = at[i]
      BY <1>0, <1>5, <2>1 DEF n
  <2> HIDE DEF i, S
  <2>3. at[i + 1] = Below(rws, at[i], p[i + 1]) /\ ax[i + 1] = Below(t, ax[i], p[i + 1])
      BY <1>1, <2>1
  <2> QED
      BY <1>2, <1>3, <2>1, <2>2, <2>3
<1> HIDE DEF S
<1>6. \A j \in Nat : j \in S
    BY <1>4, <1>5, SetInduction
<1>7. ASSUME NEW i \in k .. n PROVE ax[i] = at[i]
  <2>1. i - k \in Nat /\ k + (i - k) = i /\ i <= n
      BY <1>0
  <2> QED
      BY <1>6, <2>1 DEF S, n
<1> QED
    BY <1>7 DEF at, ax, n

\* The entry of a path, and those at its prefixes.
LEMMA EntryExtends ==
    ASSUME NoCollision, NEW rws, RowsSound(rws), NEW root, DirIn(DOMAIN rws, root),
           NEW t, Extends(t, rws), NEW p, Len(p) \in Nat
    PROVE  EntryAt(t, root, p) = EntryAt(rws, root, p)
<1>1. Along(t, root, p)[0] = Dir(root) /\ Along(rws, root, p)[0] = Dir(root)
    BY RootFirst
<1>2. 0 \in 0 .. Len(p) /\ Len(p) \in 0 .. Len(p)
    OBVIOUS
<1> QED
    BY <1>1, <1>2, SameBelow DEF EntryAt

\* The same directory in two trees has the same below it.
LEMMA SameUnder ==
    ASSUME NoCollision, NEW rws, RowsSound(rws), NEW from, DirIn(DOMAIN rws, from), NEW to,
           NEW p \in Seq(Nat), NEW q \in Seq(Nat), IsPrefix(p, q),
           EntryAt(rws, from, p) = EntryAt(rws, to, p)
    PROVE  EntryAt(rws, from, q) = EntryAt(rws, to, q)
<1> DEFINE k == Len(p)
<1>1. k \in 0 .. Len(q) /\ k <= Len(p) /\ Len(p) \in Nat /\ Len(q) \in Nat /\ \A i \in 1 .. k : q[i] = p[i]
    BY PrefixOf
<1>2. Along(rws, from, q)[k] = Along(rws, from, p)[k] /\ Along(rws, to, q)[k] = Along(rws, to, p)[k]
    BY <1>1, AlongPrefix
<1>3. Along(rws, to, q)[k] = Along(rws, from, q)[k]
    BY <1>2 DEF EntryAt
<1>4. Extends(rws, rws)
    BY DEF Extends
<1>5. \A i \in k .. Len(q) : Along(rws, to, q)[i] = Along(rws, from, q)[i]
    BY <1>1, <1>3, <1>4, SameBelow
<1>6. Len(q) \in k .. Len(q)
    BY <1>1
<1> QED
    BY <1>5, <1>6 DEF EntryAt

\* The prefixes of a tree's paths are paths of its directories.
LEMMA PathsClosed ==
    ASSUME NoCollision, NEW rws, RowsSound(rws), NEW root, DirIn(DOMAIN rws, root),
           NEW q \in PathsIn(rws, root), NEW p \in Seq(Names), p # <<>>, IsPrefix(p, q)
    PROVE  p \in PathsIn(rws, root) /\ (p # q => EntryAt(rws, root, p).isDir)
<1>1. q \in Seq(Names) /\ Len(q) \in 1 .. MaxDepth /\ EntryAt(rws, root, q) # NoEntry
    BY PathsAre
<1>2. p \in Seq(Nat) /\ q \in Seq(Nat) /\ MaxDepth \in Nat
    BY <1>1, WorkTreeAssumption DEF Names
<1>3. CASE p # q
  <2> DEFINE i == Len(p)
  <2>1. i < Len(q) /\ \A j \in 1 .. i : p[j] = q[j]
      BY <1>2, <1>3, PrefixOf, PrefixIs
  <2>2. i \in 0 .. Len(q) - 1 /\ i \in 1 .. MaxDepth
      BY <1>1, <1>2, <2>1
  <2>3. /\ SubSeq(q, 1, i) \in Seq(Names) /\ Len(SubSeq(q, 1, i)) = i
        /\ \A j \in 1 .. i : SubSeq(q, 1, i)[j] = q[j]
        /\ EntryAt(rws, root, SubSeq(q, 1, i)).isDir
      BY <1>1, <2>2, WayDown
  <2>4. SubSeq(q, 1, i) = p
      BY <1>2, <2>1, <2>3
  <2>5. EntryAt(rws, root, p).isDir
      BY <2>3, <2>4
  <2>6. EntryAt(rws, root, p) # NoEntry
      BY <2>5 DEF NoEntry
  <2> QED
      BY <2>2, <2>5, <2>6, PathsAre
<1> QED
    BY <1>3

\* The kind of an entry is that of its hash.
LEMMA EntryKind ==
    ASSUME NoCollision, NEW rws, RowsSound(rws), NEW root, DirIn(DOMAIN rws, root), NEW q \in PathsIn(rws, root)
    PROVE  LET e == EntryAt(rws, root, q)
           IN  /\ e # NoEntry /\ EntryIn(DOMAIN rws, e)
               /\ e.hash \in Blobs => e = File(e.hash)
               /\ e.hash \notin Blobs => e = Dir(e.hash)
               /\ e.isDir <=> e.hash \notin Blobs
<1> DEFINE e == EntryAt(rws, root, q)
<1>1. q \in Seq(Names) /\ e # NoEntry
    BY PathsAre
<1>2. EntryIn(DOMAIN rws, e)
  <2>1. Len(q) \in Nat /\ Len(q) \in 0 .. Len(q)
      BY <1>1
  <2> QED
      BY <2>1, PathIn DEF EntryAt
<1>3. Empty \notin Blobs
    BY EmptyHash DEF NoCollision
<1> HIDE DEF e
<1>4. \A h : File(h).isDir = FALSE /\ Dir(h).isDir = TRUE
    BY DEF File, Dir
<1> QED
    BY <1>1, <1>2, <1>3, <1>4 DEF EntryIn, DirIn, e

\* What the comparison looks at: files, and directories of R.
View(rws, root, R, q) ==
    IF q \in PathsIn(rws, root) /\ (q \in R \/ ~EntryAt(rws, root, q).isDir)
    THEN EntryAt(rws, root, q) ELSE NoEntry

\* The changes at paths of P: files, and directories that are only renamed in,
\* without what is in these.
Noted(rws, from, to, P) ==
    LET R == OnlyRenamed(rws, from, to)
    IN  {Change(q, View(rws, from, R, q), View(rws, to, R, q)) :
            q \in {p \in P : /\ View(rws, from, R, p) # View(rws, to, R, p)
                             /\ ~\E r \in R : IsStrictPrefix(r, p)}}

\* What is noted at some paths is what is noted at each part of them.
LEMMA NotedParts ==
    ASSUME NEW rws, NEW from, NEW to, NEW P, NEW Q, P \cap Q = {},
           NEW s, NEW t, Lists(s, Noted(rws, from, to, P)), Lists(t, Noted(rws, from, to, Q))
    PROVE  Lists(s \o t, Noted(rws, from, to, P \cup Q))
<1>1. Noted(rws, from, to, P \cup Q) = Noted(rws, from, to, P) \cup Noted(rws, from, to, Q)
    BY DEF Noted
<1>2. /\ \A c \in Noted(rws, from, to, P) : c.path \in P
      /\ \A c \in Noted(rws, from, to, Q) : c.path \in Q
    BY DEF Noted, Change
<1>3. \A c \in Noted(rws, from, to, P), d \in Noted(rws, from, to, Q) : c.path # d.path
    BY <1>2
<1> DEFINE C == Noted(rws, from, to, P)
           D == Noted(rws, from, to, Q)
<1>4. Lists(s, C) /\ Lists(t, D) /\ \A c \in C, d \in D : c.path # d.path
    BY <1>3
<1> HIDE DEF C, D
<1>5. Lists(s \o t, C \cup D)
    BY <1>4, ListsBoth
<1> QED
    BY <1>1, <1>5 DEF C, D

\* The iterators are in step: a path of both trees is ahead of both or of none, and
\* so is an only renamed directory with something in it ahead.
InStep(F, T, R, c) ==
    /\ \A q \in F \cap T : q \in Ahead(F, c[1]) <=> q \in Ahead(T, c[2])
    /\ \A r \in R, q \in Ahead(F, c[1]) \cup Ahead(T, c[2]) :
          IsStrictPrefix(r, q) => r \in Ahead(F, c[1])

\* What is needed of the paths of two trees for the turns of the comparison.
Closed(S) == \A q \in S, p \in Seq(Names) : p # <<>> /\ IsPrefix(p, q) => p \in S
TwoTrees(F, T, R) ==
    /\ F \subseteq Seq(Names) /\ IsFiniteSet(F) /\ Closed(F) /\ <<>> \notin F
    /\ T \subseteq Seq(Names) /\ IsFiniteSet(T) /\ Closed(T) /\ <<>> \notin T
    /\ R \subseteq F \cap T

\* The paths at or below f.
SubTree(S, f) == {q \in S : IsPrefix(f, q)}

\* An iterator that is before the other one: what is at and below its position is
\* only in its tree, and in no renamed directory.
LEMMA GoneAlone ==
    ASSUME NEW F, NEW T, NEW R, TwoTrees(F, T, R), NEW f \in F, NEW g, g = End \/ g \in T,
           InStep(F, T, R, <<f, g>>), g = End \/ Before(f, g)
    PROVE  LET P == SubTree(F, f)
               N == Ahead(F, NextIn(F, f))
           IN  /\ P \cap T = {} /\ P \cap N = {} /\ Ahead(F, f) = P \cup N
               /\ \A q \in P : ~\E r \in R : IsStrictPrefix(r, q)
               /\ InStep(F, T, R, <<NextIn(F, f), g>>)
<1> DEFINE P == SubTree(F, f)
           n == NextIn(F, f)
           N == Ahead(F, n)
           A == Ahead(F, f)
           B == Ahead(T, g)
<1>0. F \subseteq Seq(Nat) /\ T \subseteq Seq(Nat) /\ R \subseteq Seq(Nat) /\ f # <<>> /\ f \in Seq(Names)
    BY DEF TwoTrees, Names
<1>1. N = {q \in A : ~IsPrefix(f, q)} /\ f \in A
    BY AheadNext DEF TwoTrees
<1>2. \A q : q \in A <=> q \in F /\ (q = f \/ Before(f, q))
    BY <1>0, AheadIs
<1>3. P \subseteq A
  <2>1. \A q \in F : IsPrefix(f, q) => q = f \/ Before(f, q)
      BY <1>0, PrefixOf
  <2> QED
      BY <1>2, <2>1 DEF SubTree
<1>4. f \notin B
  <2>1. CASE g \in T
    <3>1. Before(f, g)
      <4>1. End \notin T
        <5>1. \A q \in Seq(Names) : \A i \in 1 .. Len(q) : q[i] # 0
            BY DEF Names
        <5>2. 1 \in 1 .. Len(<<0>>) /\ <<0>>[1] = 0
            OBVIOUS
        <5> QED
            BY <5>1, <5>2 DEF End, TwoTrees
      <4> QED
          BY <2>1, <4>1
    <3> QED
        BY <3>1 DEF Ahead
  <2>2. CASE g \notin T
      BY <2>2 DEF Ahead
  <2> QED
      BY <2>1, <2>2
<1>5. f \notin T
  <2> SUFFICES ASSUME f \in T PROVE FALSE
      OBVIOUS
  <2> QED
      BY <1>1, <1>4 DEF InStep
<1>6. P \cap T = {}
    BY <1>0, <1>5 DEF SubTree, TwoTrees, Closed
<1>7. P \cap N = {} /\ A = P \cup N
  <2>1. A \subseteq F
      BY <1>2
  <2> QED
      BY <1>1, <1>3, <2>1 DEF SubTree
<1>8. ASSUME NEW r \in R, r \in A PROVE r \in N
    BY <1>6, <1>7, <1>8 DEF TwoTrees
<1>9. ASSUME NEW q \in P, NEW r \in R, IsStrictPrefix(r, q) PROVE FALSE
  <2>1. q \in A
      BY <1>3
  <2>2. r \in A
      BY <1>9, <2>1 DEF InStep
  <2>3. IsPrefix(f, q) /\ q \in F
      BY DEF SubTree
  <2>4. IsPrefix(r, q)
      BY <1>9 DEF IsStrictPrefix
  <2>5. ~IsPrefix(f, r)
      BY <1>6, <2>2, <1>2 DEF SubTree, TwoTrees
  <2>6. IsStrictPrefix(r, f)
      BY <1>0, <2>3, <2>4, <2>5, PrefixesNest
  <2>7. Before(r, f)
      BY <1>0, <2>6, PrefixOf
  <2>8. r = f \/ Before(f, r)
      BY <1>2, <2>2
  <2>9. r # f
      BY <1>5 DEF TwoTrees
  <2>10. ~Before(r, r)
      BY <1>0, BeforeOrders
  <2> QED
      BY <1>0, <2>7, <2>8, <2>9, <2>10, BeforeOrders
<1>10. InStep(F, T, R, <<n, g>>)
  <2>1. ASSUME NEW q \in F \cap T PROVE q \in N <=> q \in B
    <3>1. q \in A <=> q \in B
        BY DEF InStep
    <3> QED
        BY <1>6, <1>7, <3>1
  <2>2. ASSUME NEW r \in R, NEW q \in N \cup B, IsStrictPrefix(r, q) PROVE r \in N
    <3>1. r \in A
        BY <1>7, <2>2 DEF InStep
    <3> QED
        BY <1>8, <3>1
  <2> HIDE DEF n
  <2> QED
      BY <2>1, <2>2 DEF InStep
<1> QED
    BY <1>6, <1>7, <1>9, <1>10

\* The same for the iterator of the other tree.
LEMMA InStepTurned ==
    ASSUME NEW F, NEW T, NEW R, R \subseteq F \cap T, NEW f, NEW g
    PROVE  InStep(F, T, R, <<f, g>>) <=> InStep(T, F, R, <<g, f>>)
BY DEF InStep

\* Both iterators at one path: what is at and below it goes by in both trees, or the
\* path alone.
LEMMA BothAt ==
    ASSUME NEW F, NEW T, NEW R, TwoTrees(F, T, R), NEW f \in F \cap T, InStep(F, T, R, <<f, f>>)
    PROVE  LET P == SubTree(F, f) \cup SubTree(T, f)
               A == Ahead(F, f) \cup Ahead(T, f)
           IN  /\ A = P \cup (Ahead(F, NextIn(F, f)) \cup Ahead(T, NextIn(T, f)))
               /\ P \cap (Ahead(F, NextIn(F, f)) \cup Ahead(T, NextIn(T, f))) = {}
               /\ A = {f} \cup (Ahead(F, StepIn(F, f)) \cup Ahead(T, StepIn(T, f)))
               /\ f \notin Ahead(F, StepIn(F, f)) \cup Ahead(T, StepIn(T, f))
               /\ InStep(F, T, R, <<NextIn(F, f), NextIn(T, f)>>)
               /\ f \notin R => InStep(F, T, R, <<StepIn(F, f), StepIn(T, f)>>)
               /\ \A r \in R : ~IsStrictPrefix(r, f)
<1> DEFINE A == Ahead(F, f)
           B == Ahead(T, f)
           nf == NextIn(F, f)
           nt == NextIn(T, f)
           sf == StepIn(F, f)
           st == StepIn(T, f)
           AN == Ahead(F, nf)
           BN == Ahead(T, nt)
           AS == Ahead(F, sf)
           BS == Ahead(T, st)
<1>0. F \subseteq Seq(Nat) /\ T \subseteq Seq(Nat) /\ R \subseteq Seq(Nat)
    BY DEF TwoTrees, Names
<1>1. /\ AN = {q \in A : ~IsPrefix(f, q)} /\ AS = A \ {f} /\ f \in A
      /\ BN = {q \in B : ~IsPrefix(f, q)} /\ BS = B \ {f} /\ f \in B
    BY AheadNext DEF TwoTrees
<1>2. /\ \A q : q \in A <=> q \in F /\ (q = f \/ Before(f, q))
      /\ \A q : q \in B <=> q \in T /\ (q = f \/ Before(f, q))
    BY <1>0, AheadIs
<1>3. \A q \in F \cup T : IsPrefix(f, q) => q = f \/ Before(f, q)
    BY <1>0, PrefixOf
<1>4. SubTree(F, f) = {q \in A : IsPrefix(f, q)} /\ SubTree(T, f) = {q \in B : IsPrefix(f, q)}
    BY <1>2, <1>3 DEF SubTree
<1>5. /\ \A q \in F \cap T : q \in A <=> q \in B
      /\ \A r \in R, q \in A \cup B : IsStrictPrefix(r, q) => r \in A
    BY DEF InStep
<1>6. R \subseteq F \cap T
    BY DEF TwoTrees
<1> HIDE DEF A, B, AN, BN, AS, BS
<1>7. ASSUME NEW r \in R PROVE ~IsStrictPrefix(r, f)
  <2> SUFFICES ASSUME IsStrictPrefix(r, f) PROVE FALSE
      OBVIOUS
  <2>1. r \in A
      BY <1>1, <1>5
  <2>2. r = f \/ Before(f, r)
      BY <1>2, <2>1
  <2>3. Before(r, f) /\ r # f
      BY <1>0, PrefixOf
  <2>4. ~Before(r, r)
      BY <1>0, BeforeOrders
  <2> QED
      BY <1>0, <2>2, <2>3, <2>4, BeforeOrders
<1>8. /\ \A q \in F \cap T : q \in AN <=> q \in BN
      /\ \A r \in R, q \in AN \cup BN : IsStrictPrefix(r, q) => r \in AN
  <2>1. ASSUME NEW r \in R, NEW q \in AN \cup BN, IsStrictPrefix(r, q) PROVE r \in AN
    <3>1. r \in A /\ ~IsPrefix(f, q) /\ q \in F \cup T
        BY <1>1, <1>2, <1>5, <2>1
    <3>2. IsPrefix(r, q)
        BY <2>1 DEF IsStrictPrefix
    <3>3. ~IsPrefix(f, r)
        BY <1>0, <3>1, <3>2, PrefixesNest
    <3> QED
        BY <1>1, <3>1, <3>3
  <2>2. \A q \in F \cap T : q \in AN <=> q \in BN
      BY <1>1, <1>5
  <2> QED
      BY <2>1, <2>2
<1>9. ASSUME f \notin R
      PROVE  /\ \A q \in F \cap T : q \in AS <=> q \in BS
             /\ \A r \in R, q \in AS \cup BS : IsStrictPrefix(r, q) => r \in AS
    BY <1>1, <1>5, <1>9
<1> HIDE DEF nf, nt, sf, st
<1>10. InStep(F, T, R, <<nf, nt>>)
    BY <1>8 DEF InStep, AN, BN
<1>11. f \notin R => InStep(F, T, R, <<sf, st>>)
    BY <1>9 DEF InStep, AS, BS
<1>12. /\ A \cup B = (SubTree(F, f) \cup SubTree(T, f)) \cup (AN \cup BN)
       /\ (SubTree(F, f) \cup SubTree(T, f)) \cap (AN \cup BN) = {}
       /\ A \cup B = {f} \cup (AS \cup BS) /\ f \notin AS \cup BS
    BY <1>1, <1>4
<1> QED
    BY <1>7, <1>10, <1>11, <1>12 DEF A, B, AN, BN, AS, BS, nf, nt, sf, st

\* The paths of two trees are such paths.
LEMMA TreesAreTwo ==
    ASSUME NoCollision, NEW rws, RowsSound(rws),
           NEW from, DirIn(DOMAIN rws, from), NEW to, DirIn(DOMAIN rws, to)
    PROVE  TwoTrees(PathsIn(rws, from), PathsIn(rws, to), OnlyRenamed(rws, from, to))
<1>1. ASSUME NEW root, DirIn(DOMAIN rws, root)
      PROVE  LET S == PathsIn(rws, root)
             IN  S \subseteq Seq(Names) /\ IsFiniteSet(S) /\ Closed(S) /\ <<>> \notin S
  <2>1. Closed(PathsIn(rws, root))
      BY <1>1, PathsClosed DEF Closed
  <2>2. <<>> \notin PathsIn(rws, root)
    <3>1. Len(<<>>) = 0 /\ 0 \notin 1 .. MaxDepth
        OBVIOUS
    <3> QED
        BY <1>1, <3>1, PathsAre
  <2> QED
      BY <1>1, <2>1, <2>2, PathsAre
<1>2. OnlyRenamed(rws, from, to) \subseteq PathsIn(rws, from) \cap PathsIn(rws, to)
    BY DEF OnlyRenamed
<1> QED
    BY <1>1, <1>2 DEF TwoTrees

\* Files have nothing below them.
LEMMA FileAlone ==
    ASSUME NoCollision, NEW rws, RowsSound(rws), NEW root, DirIn(DOMAIN rws, root),
           NEW f \in PathsIn(rws, root), ~EntryAt(rws, root, f).isDir
    PROVE  SubTree(PathsIn(rws, root), f) = {f}
<1>1. \A q \in PathsIn(rws, root) : q \in Seq(Names) /\ q \in Seq(Nat) /\ q # <<>>
  <2>1. Len(<<>>) = 0 /\ 0 \notin 1 .. MaxDepth
      OBVIOUS
  <2> QED
      BY <2>1, PathsAre DEF Names
<1>2. \A q \in PathsIn(rws, root) : IsPrefix(f, q) => f = q
    BY <1>1, PathsClosed
<1>3. IsPrefix(f, f)
    BY <1>1, PrefixOf
<1> QED
    BY <1>2, <1>3 DEF SubTree

\* What is noted of paths that only one of two trees has: its files.
LEMMA NotedGone ==
    ASSUME NoCollision, NEW rws, RowsSound(rws),
           NEW from, DirIn(DOMAIN rws, from), NEW to, DirIn(DOMAIN rws, to),
           NEW f, NEW P, P = SubTree(PathsIn(rws, from), f), P \cap PathsIn(rws, to) = {},
           \A q \in P : ~\E r \in OnlyRenamed(rws, from, to) : IsStrictPrefix(r, q)
    PROVE  Noted(rws, from, to, P) =
               {Change(q, EntryAt(rws, from, q), NoEntry) : q \in FilesBelow(rws, from, PathsIn(rws, from), f)}
<1> DEFINE R == OnlyRenamed(rws, from, to)
           F == PathsIn(rws, from)
           T == PathsIn(rws, to)
           E(q) == EntryAt(rws, from, q)
           B == FilesBelow(rws, from, F, f)
<1>1. \A q \in P : /\ q \in F /\ q \notin T /\ q \notin R /\ E(q) # NoEntry
    BY EntryKind DEF OnlyRenamed, SubTree
<1>2. B = {q \in P : ~E(q).isDir}
    BY DEF FilesBelow, SubTree
<1>3. /\ \A q \in B : View(rws, from, R, q) = E(q) /\ View(rws, to, R, q) = NoEntry /\ E(q) # NoEntry
      /\ \A q \in P \ B : View(rws, from, R, q) = NoEntry /\ View(rws, to, R, q) = NoEntry
    BY <1>1, <1>2 DEF View
<1>4. \A q \in P : ~\E r \in R : IsStrictPrefix(r, q)
    OBVIOUS
<1> DEFINE X == {q \in P : View(rws, from, R, q) # View(rws, to, R, q) /\ ~\E r \in R : IsStrictPrefix(r, q)}
<1>5. X = B
    BY <1>2, <1>3, <1>4
<1>6. Noted(rws, from, to, P) = {Change(q, View(rws, from, R, q), View(rws, to, R, q)) : q \in X}
    BY DEF Noted
<1> HIDE DEF X, R, B, F
<1>7. Noted(rws, from, to, P) = {Change(q, E(q), NoEntry) : q \in B}
    BY <1>3, <1>5, <1>6
<1> QED
    BY <1>7 DEF B, F

\* An entry that came is noted by the files at or below it.
LEMMA NotedComes ==
    ASSUME NoCollision, NEW rws, RowsSound(rws),
           NEW from, DirIn(DOMAIN rws, from), NEW to, DirIn(DOMAIN rws, to),
           NEW f, NEW P, P = SubTree(PathsIn(rws, to), f), P \cap PathsIn(rws, from) = {},
           \A q \in P : ~\E r \in OnlyRenamed(rws, from, to) : IsStrictPrefix(r, q)
    PROVE  Noted(rws, from, to, P) =
               {Change(q, NoEntry, EntryAt(rws, to, q)) : q \in FilesBelow(rws, to, PathsIn(rws, to), f)}
<1> DEFINE R == OnlyRenamed(rws, from, to)
           F == PathsIn(rws, from)
           T == PathsIn(rws, to)
           H(q) == EntryAt(rws, to, q)
           B == FilesBelow(rws, to, T, f)
<1>1. \A q \in P : /\ q \in T /\ q \notin F /\ q \notin R /\ H(q) # NoEntry
    BY EntryKind DEF OnlyRenamed, SubTree
<1>2. B = {q \in P : ~H(q).isDir}
    BY DEF FilesBelow, SubTree
<1>3. /\ \A q \in B : View(rws, to, R, q) = H(q) /\ View(rws, from, R, q) = NoEntry /\ H(q) # NoEntry
      /\ \A q \in P \ B : View(rws, from, R, q) = NoEntry /\ View(rws, to, R, q) = NoEntry
    BY <1>1, <1>2 DEF View
<1>4. \A q \in P : ~\E r \in R : IsStrictPrefix(r, q)
    OBVIOUS
<1> DEFINE X == {q \in P : View(rws, from, R, q) # View(rws, to, R, q) /\ ~\E r \in R : IsStrictPrefix(r, q)}
<1>5. X = B
    BY <1>2, <1>3, <1>4
<1>6. Noted(rws, from, to, P) = {Change(q, View(rws, from, R, q), View(rws, to, R, q)) : q \in X}
    BY DEF Noted
<1> HIDE DEF X, R, B, T
<1>7. Noted(rws, from, to, P) = {Change(q, NoEntry, H(q)) : q \in B}
    BY <1>3, <1>5, <1>6
<1> QED
    BY <1>7 DEF B, T

\* What is noted where both trees have a path f.
LEMMA NotedBoth ==
    ASSUME NoCollision, NEW rws, RowsSound(rws),
           NEW from, DirIn(DOMAIN rws, from), NEW to, DirIn(DOMAIN rws, to),
           NEW f, f \in PathsIn(rws, from) \cap PathsIn(rws, to),
           \A r \in OnlyRenamed(rws, from, to) : ~IsStrictPrefix(r, f)
    PROVE  LET F == PathsIn(rws, from)
               T == PathsIn(rws, to)
               a == EntryAt(rws, from, f)
               b == EntryAt(rws, to, f)
               P == SubTree(F, f) \cup SubTree(T, f)
               deletes == {Change(q, EntryAt(rws, from, q), NoEntry) : q \in FilesBelow(rws, from, F, f)}
               inserts == {Change(q, NoEntry, EntryAt(rws, to, q)) : q \in FilesBelow(rws, to, T, f)}
           IN  /\ SameHash(a, b) => Noted(rws, from, to, P) = {}
               /\ OtherKind(a, b) => /\ Noted(rws, from, to, P) = deletes \cup inserts
                                     /\ \A c \in deletes, d \in inserts : c.path # d.path
               /\ GoInto(rws, a, b) => Noted(rws, from, to, {f}) = {} /\ f \notin OnlyRenamed(rws, from, to)
               /\ ~SameHash(a, b) /\ ~OtherKind(a, b) /\ ~GoInto(rws, a, b)
                      => Noted(rws, from, to, P) = {Change(f, a, b)}
<1> DEFINE F == PathsIn(rws, from)
           T == PathsIn(rws, to)
           R == OnlyRenamed(rws, from, to)
           E(q) == EntryAt(rws, from, q)
           H(q) == EntryAt(rws, to, q)
           a == E(f)
           b == H(f)
           PF == SubTree(F, f)
           PT == SubTree(T, f)
           P  == PF \cup PT
           fv(q) == View(rws, from, R, q)
           tv(q) == View(rws, to, R, q)
           Hidden(q) == \E r \in R : IsStrictPrefix(r, q)
           deletes == {Change(q, E(q), NoEntry) : q \in FilesBelow(rws, from, F, f)}
           inserts == {Change(q, NoEntry, H(q)) : q \in FilesBelow(rws, to, T, f)}
<1>1. /\ \A q \in F : /\ E(q) # NoEntry /\ (E(q) = File(E(q).hash) \/ E(q) = Dir(E(q).hash))
                      /\ E(q).hash \in Blobs => E(q) = File(E(q).hash)
                      /\ E(q).hash \notin Blobs => E(q) = Dir(E(q).hash)
      /\ \A q \in T : /\ H(q) # NoEntry /\ (H(q) = File(H(q).hash) \/ H(q) = Dir(H(q).hash))
                      /\ H(q).hash \in Blobs => H(q) = File(H(q).hash)
                      /\ H(q).hash \notin Blobs => H(q) = Dir(H(q).hash)
    BY EntryKind
<1>2. \A h : File(h).isDir = FALSE /\ Dir(h).isDir = TRUE
    BY DEF File, Dir
<1>3. /\ F \subseteq Seq(Names) /\ T \subseteq Seq(Names) /\ R \subseteq F \cap T
      /\ F \subseteq Seq(Nat) /\ T \subseteq Seq(Nat)
    BY TreesAreTwo DEF TwoTrees, Names
<1>4. /\ \A q : q \in F <=> q \in Seq(Names) /\ Len(q) \in 1 .. MaxDepth /\ E(q) # NoEntry
      /\ \A q : q \in T <=> q \in Seq(Names) /\ Len(q) \in 1 .. MaxDepth /\ H(q) # NoEntry
    BY PathsAre
<1>5. \A q \in R : E(q).isDir /\ H(q).isDir /\ E(q) # H(q) /\ SameChildren(rws, E(q).hash, H(q).hash)
    BY DEF OnlyRenamed
<1>6. \A q : q \in F \cap T /\ E(q).isDir /\ H(q).isDir /\ E(q) # H(q)
                 /\ SameChildren(rws, E(q).hash, H(q).hash) => q \in R
    BY DEF OnlyRenamed
<1>7. /\ \A q : fv(q) = IF q \in F /\ (q \in R \/ ~E(q).isDir) THEN E(q) ELSE NoEntry
      /\ \A q : tv(q) = IF q \in T /\ (q \in R \/ ~H(q).isDir) THEN H(q) ELSE NoEntry
    BY DEF View
<1>8. \A Q : Noted(rws, from, to, Q) = {Change(q, fv(q), tv(q)) : q \in {p \in Q : fv(p) # tv(p) /\ ~Hidden(p)}}
    BY DEF Noted
<1>9. /\ f \in PF /\ f \in PT /\ PF \subseteq F /\ PT \subseteq T
      /\ \A q \in P : IsPrefix(f, q) /\ q \in Seq(Nat)
      /\ \A q \in F : IsPrefix(f, q) => q \in PF
      /\ \A q \in T : IsPrefix(f, q) => q \in PT
  <2>1. IsPrefix(f, f)
      BY <1>3, PrefixOf
  <2> QED
      BY <1>3, <2>1 DEF SubTree
<1>10. /\ ~E(f).isDir => PF = {f}
       /\ ~H(f).isDir => PT = {f}
    BY FileAlone
<1>11. ~Hidden(f)
    OBVIOUS
<1>12. /\ FilesBelow(rws, from, F, f) = {q \in PF : ~E(q).isDir}
       /\ FilesBelow(rws, to, T, f) = {q \in PT : ~H(q).isDir}
    BY DEF FilesBelow, SubTree
<1>13. /\ deletes = {Change(q, E(q), NoEntry) : q \in {p \in PF : ~E(p).isDir}}
       /\ inserts = {Change(q, NoEntry, H(q)) : q \in {p \in PT : ~H(p).isDir}}
    BY <1>12
<1>14. ASSUME SameHash(a, b) PROVE Noted(rws, from, to, P) = {}
  <2>1. a = b
      BY <1>1, <1>14 DEF SameHash
  <2>2. ASSUME NEW q \in P PROVE E(q) = H(q)
    <3>1. IsPrefix(f, q) /\ q \in Seq(Nat) /\ f \in Seq(Nat)
        BY <1>3, <1>9
    <3> QED
        BY <2>1, <3>1, SameUnder
  <2>3. \A q \in P : fv(q) = tv(q)
    <3> SUFFICES ASSUME NEW q \in P PROVE fv(q) = tv(q)
        OBVIOUS
    <3>1. E(q) = H(q)
        BY <2>2
    <3>2. q \in F <=> q \in T
        BY <1>4, <3>1
    <3> HIDE DEF F, T, E, H, R, P, fv, tv
    <3> QED
        BY <1>7, <3>1, <3>2
  <2> HIDE DEF fv, tv, Hidden
  <2> QED
      BY <1>8, <2>3
<1> HIDE DEF F, T, R, E, H, PF, PT, fv, tv, Hidden, deletes, inserts
<1>15. ASSUME OtherKind(a, b)
       PROVE  /\ Noted(rws, from, to, P) = deletes \cup inserts
              /\ \A c \in deletes, d \in inserts : c.path # d.path
  <2>1. f \in F /\ f \in T /\ a.isDir # b.isDir
      BY <1>9, <1>15 DEF OtherKind
  <2>2. \/ a.isDir = FALSE /\ b.isDir = TRUE /\ PF = {f}
        \/ a.isDir = TRUE /\ b.isDir = FALSE /\ PT = {f}
      BY <1>1, <1>2, <1>10, <2>1
  <2>3. f \notin R
      BY <1>5, <2>2
  <2>4. PF \cap PT = {f}
      BY <1>9, <2>2
  <2>5. ASSUME NEW q \in P PROVE q \notin R /\ ~Hidden(q)
    <3>1. ASSUME NEW r \in R, IsPrefix(f, r) PROVE FALSE
      <4>1. r \in PF /\ r \in PT
          BY <1>3, <1>9, <3>1
      <4> QED
          BY <2>3, <2>4, <4>1
    <3>2. ASSUME NEW r \in R, IsStrictPrefix(r, q) PROVE FALSE
      <4>1. IsPrefix(f, q) /\ IsPrefix(r, q) /\ ~IsPrefix(f, r)
          BY <1>9, <3>1, <3>2 DEF IsStrictPrefix
      <4>2. IsStrictPrefix(r, f)
          BY <1>3, <1>9, <2>1, <4>1, PrefixesNest
      <4> QED
          BY <1>11, <4>2 DEF Hidden
    <3>3. q \notin R
        BY <1>9, <3>1
    <3> QED
        BY <3>2, <3>3 DEF Hidden
  <2>6. ASSUME NEW q \in PF PROVE /\ tv(q) = NoEntry \/ q = f
                                  /\ ~E(q).isDir => fv(q) = E(q) /\ tv(q) = NoEntry /\ fv(q) # tv(q)
                                  /\ E(q).isDir => fv(q) = NoEntry
    <3>1. q \in F /\ q \notin R /\ E(q) # NoEntry
        BY <1>1, <1>9, <2>5
    <3>2. q # f => q \notin T
        BY <1>9, <2>4
    <3>3. q = f => H(q).isDir \/ E(q).isDir
        BY <2>2
    <3> QED
        BY <1>7, <3>1, <3>2, <3>3
  <2>7. ASSUME NEW q \in PT PROVE /\ fv(q) = NoEntry \/ q = f
                                  /\ ~H(q).isDir => tv(q) = H(q) /\ fv(q) = NoEntry /\ fv(q) # tv(q)
                                  /\ H(q).isDir => tv(q) = NoEntry
    <3>1. q \in T /\ q \notin R /\ H(q) # NoEntry
        BY <1>1, <1>9, <2>5
    <3>2. q # f => q \notin F
        BY <1>9, <2>4
    <3>3. q = f => H(q).isDir \/ E(q).isDir
        BY <2>2
    <3> QED
        BY <1>7, <3>1, <3>2, <3>3
  <2> DEFINE X == {p \in P : fv(p) # tv(p) /\ ~Hidden(p)}
             DF == {p \in PF : ~E(p).isDir}
             DT == {p \in PT : ~H(p).isDir}
  <2>8. X = DF \cup DT
    <3>1. ASSUME NEW q \in X PROVE q \in DF \cup DT
      <4>1. CASE q \in PF /\ E(q).isDir
        <5>1. fv(q) = NoEntry /\ tv(q) # NoEntry /\ q = f
            BY <2>6, <4>1
        <5> QED
            BY <1>9, <2>7, <5>1
      <4>2. CASE q \in PT /\ H(q).isDir
        <5>1. tv(q) = NoEntry /\ fv(q) # NoEntry /\ q = f
            BY <2>7, <4>2
        <5> QED
            BY <1>9, <2>6, <5>1
      <4> QED
          BY <4>1, <4>2
    <3>2. ASSUME NEW q \in DF \cup DT PROVE q \in X
        BY <2>5, <2>6, <2>7
    <3> QED
        BY <3>1, <3>2
  <2>9. Noted(rws, from, to, P) = {Change(q, fv(q), tv(q)) : q \in X}
      BY <1>8
  <2>10. /\ \A q \in DF : Change(q, fv(q), tv(q)) = Change(q, E(q), NoEntry)
         /\ \A q \in DT : Change(q, fv(q), tv(q)) = Change(q, NoEntry, H(q))
      BY <2>6, <2>7
  <2>11. DF \cap DT = {}
    <3>1. ASSUME NEW q, q \in DF, q \in DT PROVE FALSE
      <4>1. q = f
          BY <2>4, <3>1
      <4> QED
          BY <2>2, <3>1, <4>1
    <3> QED
        BY <3>1
  <2>12. deletes = {Change(q, E(q), NoEntry) : q \in DF} /\ inserts = {Change(q, NoEntry, H(q)) : q \in DT}
      BY <1>13
  <2> HIDE DEF X, DF, DT
  <2>13. Noted(rws, from, to, P) = deletes \cup inserts
      BY <2>8, <2>9, <2>10, <2>12
  <2>14. (\A c \in deletes : c.path \in DF) /\ (\A d \in inserts : d.path \in DT)
      BY <2>12 DEF Change
  <2> QED
      BY <2>11, <2>13, <2>14
<1>16. ASSUME GoInto(rws, a, b) PROVE Noted(rws, from, to, {f}) = {} /\ f \notin R
  <2>1. a.isDir /\ ~SameChildren(rws, a.hash, b.hash) /\ a.hash # b.hash /\ a.isDir = b.isDir
      BY <1>16 DEF GoInto, OtherKind, SameHash
  <2>2. f \notin R
      BY <1>5, <2>1
  <2>3. fv(f) = NoEntry /\ tv(f) = NoEntry
      BY <1>7, <2>1, <2>2
  <2> QED
      BY <1>8, <2>2, <2>3
<1>17. ASSUME ~SameHash(a, b), ~OtherKind(a, b), ~GoInto(rws, a, b)
       PROVE  Noted(rws, from, to, P) = {Change(f, a, b)}
  <2>1. a.hash # b.hash /\ a.isDir = b.isDir /\ a # b
      BY <1>17 DEF OtherKind, SameHash
  <2>2. a.isDir => SameChildren(rws, a.hash, b.hash)
      BY <1>17, <2>1 DEF GoInto, OtherKind, SameHash
  <2>3. f \in F /\ f \in T
      BY <1>9
  <2>4. fv(f) = a /\ tv(f) = b
    <3>1. CASE a.isDir
      <4>1. f \in R
          BY <1>6, <2>1, <2>2, <2>3, <3>1
      <4> QED
          BY <1>7, <2>3, <4>1
    <3>2. CASE ~a.isDir
        BY <1>7, <2>1, <2>3, <3>2
    <3> QED
        BY <3>1, <3>2
  <2>5. ASSUME NEW q \in P, q # f PROVE Hidden(q)
    <3>1. CASE a.isDir
      <4>1. f \in R
          BY <1>6, <2>1, <2>2, <2>3, <3>1
      <4>2. IsStrictPrefix(f, q)
          BY <1>9, <2>5 DEF IsStrictPrefix
      <4> QED
          BY <4>1, <4>2 DEF Hidden
    <3>2. CASE ~a.isDir
        BY <1>10, <2>1, <2>5, <3>2
    <3> QED
        BY <3>1, <3>2
  <2> DEFINE X == {p \in P : fv(p) # tv(p) /\ ~Hidden(p)}
  <2>6. X = {f}
      BY <1>9, <1>11, <2>1, <2>4, <2>5
  <2>7. Noted(rws, from, to, P) = {Change(q, fv(q), tv(q)) : q \in X}
      BY <1>8
  <2> HIDE DEF X
  <2> QED
      BY <2>4, <2>6, <2>7
<1> QED
    BY <1>14, <1>15, <1>16, <1>17 DEF F, T, R, E, H, PF, PT, deletes, inserts

\* The comparison lists the files that differ, and the directories that are only
\* renamed in, each once.
LEMMA DiffLists ==
    ASSUME NoCollision, NEW rws, RowsSound(rws),
           NEW from, DirIn(DOMAIN rws, from), NEW to, DirIn(DOMAIN rws, to)
    PROVE  Lists(DiffTree(rws, from, to),
                 Noted(rws, from, to, PathsIn(rws, from) \cup PathsIn(rws, to)))
<1> DEFINE F == PathsIn(rws, from)
           T == PathsIn(rws, to)
           R == OnlyRenamed(rws, from, to)
           D == Positions(rws, from, to)
           skips == Silent(rws, from, to)
           out   == Says(rws, from, to)
           next  == Goes(rws, from, to)
           A(f)  == Ahead(F, f)
           B(g)  == Ahead(T, g)
           N(P)  == Noted(rws, from, to, P)
<1>1. PICK w : /\ DiffLoop(rws, from, to, w)
               /\ LET c == <<First(F), First(T)>>
                  IN  c \in D /\ DiffTree(rws, from, to) = w[c]
    BY DiffTurns
<1>2. PICK M, mu : Loop(D, Ends, skips, out, next, M, mu, ChangesOf(rws, from, to))
    BY <1>1 DEF DiffLoop
<1>3. \A x \in D : w[x] = IF x \in Ends THEN <<>> ELSE IF x \in skips THEN w[next[x]] ELSE out[x] \o w[next[x]]
  <2>1. w = [x \in D |-> Turn(x, w, Ends, skips, out, next)]
      BY <1>1 DEF DiffLoop, Turns
  <2> HIDE DEF D, skips, out, next
  <2>2. \A x \in D : w[x] = Turn(x, w, Ends, skips, out, next)
      BY <2>1
  <2> QED
      BY <2>2 DEF Turn
<1>4. TwoTrees(F, T, R) /\ D = (F \cup {End}) \X (T \cup {End}) /\ R \subseteq F \cap T
    BY TreesAreTwo DEF Positions, TwoTrees
<1>5. End \notin F /\ End \notin T
  <2>1. \A q \in Seq(Names) : \A i \in 1 .. Len(q) : q[i] # 0
      BY DEF Names
  <2>2. 1 \in 1 .. Len(<<0>>) /\ <<0>>[1] = 0
      OBVIOUS
  <2> QED
      BY <1>4, <2>1, <2>2 DEF End, TwoTrees
<1>6. A(End) = {} /\ B(End) = {}
    BY <1>5 DEF Ahead
<1>7. N({}) = {}
    BY DEF Noted
<1> DEFINE Q == {x \in D : InStep(F, T, R, x) => Lists(w[x], N(A(x[1]) \cup B(x[2])))}
<1>8. ASSUME NEW x \in D, x \notin Ends, next[x] \in Q PROVE x \in Q
  <2>1. PICK f \in F \cup {End}, g \in T \cup {End} : x = <<f, g>>
      BY <1>4
  <2>2. x[1] = f /\ x[2] = g /\ ~(f = End /\ g = End)
      BY <1>8, <2>1 DEF Ends
  <2> SUFFICES ASSUME InStep(F, T, R, <<f, g>>) PROVE Lists(w[x], N(A(f) \cup B(g)))
      BY <2>1, <2>2
  <2> DEFINE n == next[x]
             a == EntryAt(rws, from, f)
             b == EntryAt(rws, to, g)
             nf == NextIn(F, f)
             nt == NextIn(T, g)
             dels == Deletes(rws, from, F, f)
             inss == Inserts(rws, to, T, g)
             SF == SubTree(F, f)
             ST == SubTree(T, g)
             deleted == {Change(q, EntryAt(rws, from, q), NoEntry) : q \in FilesBelow(rws, from, F, f)}
             inserted == {Change(q, NoEntry, EntryAt(rws, to, q)) : q \in FilesBelow(rws, to, T, g)}
  <2>3. /\ Gone(f, g) => n = <<nf, g>> /\ out[x] = dels /\ x \notin skips
        /\ Comes(f, g) => n = <<f, nt>> /\ out[x] = inss /\ x \notin skips
        /\ Both(f, g) => /\ n = IF GoInto(rws, a, b) THEN <<StepIn(F, f), StepIn(T, g)>> ELSE <<nf, nt>>
                         /\ x \in skips <=> SameHash(a, b) \/ GoInto(rws, a, b)
                         /\ out[x] = IF OtherKind(a, b) THEN dels \o inss ELSE <<Change(f, a, b)>>
    <3>1. /\ Gone(f, g) => ~Comes(f, g) /\ ~Both(f, g)
          /\ Comes(f, g) => ~Gone(f, g) /\ ~Both(f, g)
          /\ Both(f, g) => ~Gone(f, g) /\ ~Comes(f, g)
        BY DEF Comes, Both
    <3>2. x \in skips <=> Both(f, g) /\ (SameHash(a, b) \/ GoInto(rws, a, b))
        BY <2>2 DEF Silent
    <3>3. n = IF Gone(f, g) THEN <<nf, g>>
              ELSE IF Comes(f, g) THEN <<f, nt>>
              ELSE IF GoInto(rws, a, b) THEN <<StepIn(F, f), StepIn(T, g)>>
              ELSE <<nf, nt>>
        BY <2>2 DEF Goes
    <3>4. out[x] = IF Gone(f, g) THEN dels ELSE IF Comes(f, g) THEN inss
                   ELSE IF OtherKind(a, b) THEN dels \o inss ELSE <<Change(f, a, b)>>
        BY <2>2 DEF Says
    <3> HIDE DEF skips, n, out, nf, nt, dels, inss, a, b
    <3> QED
        BY <3>1, <3>2, <3>3, <3>4
  <2>4. w[x] = IF x \in skips THEN w[n] ELSE out[x] \o w[n]
      BY <1>3, <1>8
  <2>5. InStep(F, T, R, n) => Lists(w[n], N(A(n[1]) \cup B(n[2])))
      BY <1>8
  <2>6. /\ f # End => Lists(dels, deleted)
        /\ g # End => Lists(inss, inserted)
    <3>1. F \subseteq Seq(Names) /\ IsFiniteSet(F) /\ T \subseteq Seq(Names) /\ IsFiniteSet(T)
        BY <1>4 DEF TwoTrees
    <3> QED
        BY <3>1, ListsFiles
  <2> HIDE DEF F, T, R, D, skips, out, next, n, nf, nt, dels, inss, Q
  <2>7. CASE Gone(f, g)
    <3>1. f \in F /\ (g = End \/ g \in T) /\ (g = End \/ Before(f, g))
        BY <2>2, <2>7 DEF Gone
    <3>2. /\ SF \cap T = {} /\ SF \cap A(nf) = {} /\ A(f) = SF \cup A(nf)
          /\ \A q \in SF : ~\E r \in R : IsStrictPrefix(r, q)
          /\ InStep(F, T, R, <<nf, g>>)
        BY <1>4, <3>1, GoneAlone DEF nf
    <3>3. N(SF) = deleted
        BY <3>2, NotedGone DEF F, T, R
    <3>4. Lists(w[n], N(A(nf) \cup B(g)))
        BY <2>3, <2>5, <2>7, <3>2
    <3>5. SF \cap (A(nf) \cup B(g)) = {} /\ A(f) \cup B(g) = SF \cup (A(nf) \cup B(g))
      <4>1. B(g) \subseteq T
          BY DEF Ahead
      <4> QED
          BY <3>2, <4>1
    <3>6. Lists(dels \o w[n], N(SF \cup (A(nf) \cup B(g))))
        BY <1>5, <2>6, <3>1, <3>3, <3>4, <3>5, NotedParts
    <3> QED
        BY <2>3, <2>4, <2>7, <3>5, <3>6
  <2>8. CASE Comes(f, g)
    <3>1. g \in T /\ (f = End \/ f \in F) /\ (f = End \/ Before(g, f))
        BY <2>2, <2>8 DEF Comes, Gone
    <3>2. TwoTrees(T, F, R) /\ InStep(T, F, R, <<g, f>>)
        BY <1>4, InStepTurned DEF TwoTrees
    <3>3. /\ ST \cap F = {} /\ ST \cap B(nt) = {} /\ B(g) = ST \cup B(nt)
          /\ \A q \in ST : ~\E r \in R : IsStrictPrefix(r, q)
          /\ InStep(T, F, R, <<nt, f>>)
        BY <3>1, <3>2, GoneAlone DEF nt
    <3>4. InStep(F, T, R, <<f, nt>>)
        BY <1>4, <3>3, InStepTurned
    <3>5. N(ST) = inserted
        BY <3>3, NotedComes DEF F, T, R
    <3>6. Lists(w[n], N(A(f) \cup B(nt)))
        BY <2>3, <2>5, <2>8, <3>4
    <3>7. ST \cap (A(f) \cup B(nt)) = {} /\ A(f) \cup B(g) = ST \cup (A(f) \cup B(nt))
      <4>1. A(f) \subseteq F
          BY DEF Ahead
      <4> QED
          BY <3>3, <4>1
    <3>8. Lists(inss \o w[n], N(ST \cup (A(f) \cup B(nt))))
        BY <1>5, <2>6, <3>1, <3>5, <3>6, <3>7, NotedParts
    <3> QED
        BY <2>3, <2>4, <2>8, <3>7, <3>8
  <2>9. CASE Both(f, g)
    <3>1. f # End /\ g # End /\ ~Before(f, g) /\ ~Before(g, f)
        BY <2>2, <2>9 DEF Both, Comes, Gone
    <3>2. f \in F /\ g \in T /\ f = g
      <4>1. f \in Seq(Nat) /\ g \in Seq(Nat)
          BY <1>4, <3>1 DEF TwoTrees, Names
      <4> QED
          BY <3>1, <4>1, BeforeOrders
    <3> DEFINE sf == StepIn(F, f)
               st == StepIn(T, g)
               P == SF \cup ST
               Rest == A(nf) \cup B(nt)
               Rest2 == A(sf) \cup B(st)
    <3>3. /\ A(f) \cup B(g) = P \cup Rest /\ P \cap Rest = {}
          /\ A(f) \cup B(g) = {f} \cup Rest2 /\ f \notin Rest2
          /\ InStep(F, T, R, <<nf, nt>>)
          /\ f \notin R => InStep(F, T, R, <<sf, st>>)
          /\ \A r \in R : ~IsStrictPrefix(r, f)
        BY <1>4, <3>2, BothAt DEF nf, nt
    <3>4. /\ SameHash(a, b) => N(P) = {}
          /\ OtherKind(a, b) => N(P) = deleted \cup inserted /\ \A c \in deleted, d \in inserted : c.path # d.path
          /\ GoInto(rws, a, b) => N({f}) = {} /\ f \notin R
          /\ ~SameHash(a, b) /\ ~OtherKind(a, b) /\ ~GoInto(rws, a, b) => N(P) = {Change(f, a, b)}
      <4> DEFINE b2 == EntryAt(rws, to, f)
                 P2 == SF \cup SubTree(T, f)
                 ins2 == {Change(q, NoEntry, EntryAt(rws, to, q)) : q \in FilesBelow(rws, to, T, f)}
      <4>1. f \in F /\ f \in T /\ (\A r \in R : ~IsStrictPrefix(r, f))
          BY <3>2, <3>3
      <4>2. /\ SameHash(a, b2) => N(P2) = {}
            /\ OtherKind(a, b2) => N(P2) = deleted \cup ins2 /\ \A c \in deleted, d \in ins2 : c.path # d.path
            /\ GoInto(rws, a, b2) => N({f}) = {} /\ f \notin R
            /\ ~SameHash(a, b2) /\ ~OtherKind(a, b2) /\ ~GoInto(rws, a, b2) => N(P2) = {Change(f, a, b2)}
          BY <4>1, NotedBoth DEF F, T, R
      <4>3. b2 = b /\ P2 = P /\ ins2 = inserted
          BY <3>2
      <4> HIDE DEF a, b, b2, P, P2, deleted, inserted, ins2, N
      <4> QED
          BY <4>2, <4>3
    <3>6. /\ SameHash(a, b) => ~OtherKind(a, b) /\ ~GoInto(rws, a, b)
          /\ OtherKind(a, b) => ~GoInto(rws, a, b)
        BY DEF OtherKind, GoInto
    <3> HIDE DEF a, b, SF, ST, P, Rest, Rest2, deleted, inserted, sf, st
    <3>7. CASE GoInto(rws, a, b)
      <4>1. n = <<sf, st>> /\ InStep(F, T, R, n) /\ w[x] = w[n]
          BY <2>3, <2>4, <2>9, <3>3, <3>4, <3>7 DEF sf, st
      <4>2. Lists(w[n], N(Rest2))
          BY <2>5, <4>1 DEF Rest2
      <4>3. N({f} \cup Rest2) = N({f}) \cup N(Rest2)
          BY DEF Noted
      <4> QED
          BY <3>3, <3>4, <3>7, <4>1, <4>2, <4>3
    <3>8. CASE ~GoInto(rws, a, b)
      <4>1. n = <<nf, nt>> /\ InStep(F, T, R, n)
          BY <2>3, <2>9, <3>3, <3>8
      <4>2. Lists(w[n], N(Rest))
          BY <2>5, <4>1 DEF Rest
      <4>3. N(P \cup Rest) = N(P) \cup N(Rest)
          BY DEF Noted
      <4>4. CASE SameHash(a, b)
        <5>1. w[x] = w[n]
            BY <2>3, <2>4, <2>9, <4>4
        <5> QED
            BY <3>3, <3>4, <4>2, <4>3, <4>4, <5>1
      <4>5. CASE OtherKind(a, b)
        <5>1. w[x] = (dels \o inss) \o w[n]
            BY <2>3, <2>4, <2>9, <3>6, <4>5
        <5>2. Lists(dels \o inss, N(P))
            BY <2>6, <3>1, <3>4, <4>5, ListsBoth
        <5>3. Lists((dels \o inss) \o w[n], N(P \cup Rest))
            BY <3>3, <4>2, <5>2, NotedParts
        <5> QED
            BY <3>3, <5>1, <5>3
      <4>6. CASE ~SameHash(a, b) /\ ~OtherKind(a, b)
        <5>1. w[x] = <<Change(f, a, b)>> \o w[n]
            BY <2>3, <2>4, <2>9, <3>8, <4>6
        <5>2. Lists(<<Change(f, a, b)>>, N(P))
            BY <3>4, <3>8, <4>6, ListsOne
        <5>3. Lists(<<Change(f, a, b)>> \o w[n], N(P \cup Rest))
            BY <3>3, <4>2, <5>2, NotedParts
        <5> QED
            BY <3>3, <5>1, <5>3
      <4> QED
          BY <4>4, <4>5, <4>6
    <3> QED
        BY <3>7, <3>8
  <2> QED
      BY <2>7, <2>8, <2>9 DEF Both
<1>9. ASSUME NEW x \in D, x \in Ends PROVE x \in Q
  <2>1. x[1] = End /\ x[2] = End /\ w[x] = <<>>
      BY <1>3, <1>9 DEF Ends
  <2>2. N(A(x[1]) \cup B(x[2])) = {}
      BY <1>6, <1>7, <2>1
  <2> QED
      BY <2>1, <2>2, ListsNone
<1>10. D \subseteq Q
  <2>1. \A x \in D : (x \notin Ends => next[x] \in Q) => x \in Q
      BY <1>8, <1>9
  <2> HIDE DEF D, Q, next, skips, out
  <2> QED
      BY <1>2, <2>1, LoopHolds
<1> DEFINE c == <<First(F), First(T)>>
<1>11. c \in Q /\ c[1] = First(F) /\ c[2] = First(T)
    BY <1>1, <1>10
<1>12. A(First(F)) = F /\ B(First(T)) = T
    BY <1>4, AheadOfFirst DEF TwoTrees
<1>13. InStep(F, T, R, c)
  <2>1. \A q \in F \cap T : q \in A(First(F)) <=> q \in B(First(T))
      BY <1>12
  <2>2. \A r \in R : r \in A(First(F))
      BY <1>4, <1>12
  <2> HIDE DEF F, T, R
  <2> QED
      BY <1>11, <2>1, <2>2 DEF InStep
<1> QED
    BY <1>1, <1>11, <1>12, <1>13

----------------------------------------------------------------------------
(* The changes in the order of their paths.                                *)

\* In the order of their paths.
ByPath(s) == \A i, j \in 1 .. Len(s) : i < j => Before(s[i].path, s[j].path)
Each(s)   == {s[i] : i \in 1 .. Len(s)}

\* The changes before a place in a list in order are its first ones.
LEMMA FirstOnes ==
    ASSUME NEW V, \A v \in V : v.path \in Seq(Nat), NEW s \in Seq(V), NEW c \in V, ByPath(s)
    PROVE  LET J == {j \in 1 .. Len(s) : Before(s[j].path, c.path)}
               k == Cardinality(J)
           IN  k \in 0 .. Len(s) /\ J = 1 .. k
<1> DEFINE n == Len(s)
           J == {j \in 1 .. n : Before(s[j].path, c.path)}
           N == {j \in 1 .. n + 1 : j \notin J}
<1>1. n \in Nat /\ \A j \in 1 .. n : s[j] \in V /\ s[j].path \in Seq(Nat)
    OBVIOUS
<1>2. n + 1 \in N
    BY <1>1
<1>3. PICK m \in N : \A j \in N : m <= j
  <2>1. N \subseteq Nat
      BY <1>1
  <2> HIDE DEF N
  <2> QED
      BY <1>2, <2>1, LeastNumber
<1>4. m \in 1 .. n + 1 /\ m \notin J
    OBVIOUS
<1>5. ASSUME NEW j \in 1 .. n, j < m PROVE j \in J
    BY <1>1, <1>3, <1>5
<1>6. ASSUME NEW j \in J PROVE j < m
  <2> SUFFICES ASSUME m <= j PROVE FALSE
      BY <1>1, <1>4
  <2>1. m \in 1 .. n /\ j \in 1 .. n /\ m # j
      BY <1>1, <1>4
  <2>2. Before(s[m].path, s[j].path) /\ Before(s[j].path, c.path)
      BY <1>1, <2>1 DEF ByPath
  <2>3. Before(s[m].path, c.path)
      BY <1>1, <2>1, <2>2, BeforeOrders
  <2> QED
      BY <1>4, <2>1, <2>3
<1>7. J = 1 .. (m - 1)
    BY <1>1, <1>4, <1>5, <1>6
<1>8. Cardinality(1 .. (m - 1)) = m - 1
  <2>1. m - 1 \in Nat /\ 1 \in Int /\ m - 1 \in Int /\ (m - 1) - 1 + 1 = m - 1 /\ (1 > m - 1 <=> m - 1 = 0)
      BY <1>1, <1>4
  <2>2. Cardinality(1 .. (m - 1)) = IF 1 > m - 1 THEN 0 ELSE (m - 1) - 1 + 1
      BY <2>1, FS_Interval
  <2> QED
      BY <2>1, <2>2
<1>9. m - 1 \in 0 .. n
    BY <1>1, <1>4
<1> HIDE DEF J
<1>10. Cardinality(J) = m - 1
    BY <1>7, <1>8
<1> QED
    BY <1>7, <1>9, <1>10 DEF J

\* A change put in its place leaves the list in order.
LEMMA PutInOrder ==
    ASSUME NEW V, \A v \in V : v.path \in Seq(Nat), NEW s \in Seq(V), NEW c \in V, ByPath(s),
           \A i \in 1 .. Len(s) : s[i].path # c.path
    PROVE  ByPath(Put(s, c)) /\ Each(Put(s, c)) = Each(s) \cup {c}
<1> DEFINE n == Len(s)
           J == {j \in 1 .. n : Before(s[j].path, c.path)}
           k == Cardinality(J)
           t == Put(s, c)
           a == SubSeq(s, 1, k)
           d == SubSeq(s, k + 1, n)
<1>1. n \in Nat /\ \A j \in 1 .. n : s[j] \in V /\ s[j].path \in Seq(Nat)
    OBVIOUS
<1>2. k \in 0 .. n /\ J = 1 .. k
    BY FirstOnes
<1>3. t = a \o <<c>> \o d
    BY DEF Put
<1> HIDE DEF k, t
<1>4. /\ a \in Seq(V) /\ Len(a) = k /\ \A i \in 1 .. k : a[i] = s[i]
      /\ d \in Seq(V) /\ Len(d) = n - k /\ \A i \in 1 .. n - k : d[i] = s[k + i]
    BY <1>1, <1>2
<1> HIDE DEF a, d
<1>5. /\ t \in Seq(V) /\ Len(t) = n + 1
      /\ \A i \in 1 .. k : t[i] = s[i]
      /\ t[k + 1] = c
      /\ \A i \in k + 2 .. n + 1 : t[i] = s[i - 1]
  <2>1. /\ t \in Seq(V) /\ Len(t) = k + 1 + (n - k)
        /\ \A i \in 1 .. k : t[i] = a[i]
        /\ t[k + 1] = c
        /\ \A j \in 1 .. n - k : t[k + 1 + j] = d[j]
    <3>1. a \in Seq(V) /\ d \in Seq(V) /\ Len(a) = k /\ Len(d) = n - k
        BY <1>4
    <3> DEFINE e == a \o <<c>>
    <3>2. /\ e \in Seq(V) /\ Len(e) = k + 1 /\ e[k + 1] = c
          /\ \A i \in 1 .. k : e[i] = a[i]
        BY <3>1
    <3> HIDE DEF e
    <3>3. t = e \o d
        BY <1>3 DEF e
    <3>4. /\ t \in Seq(V) /\ Len(t) = Len(e) + Len(d)
          /\ \A i \in 1 .. Len(e) : t[i] = e[i]
          /\ \A j \in 1 .. Len(d) : t[Len(e) + j] = d[j]
        BY <3>1, <3>2, <3>3
    <3>5. k + 1 \in 1 .. Len(e) /\ \A i \in 1 .. k : i \in 1 .. Len(e)
        BY <1>2, <3>2
    <3> QED
        BY <3>1, <3>2, <3>4, <3>5
  <2>6. ASSUME NEW i \in k + 2 .. n + 1 PROVE t[i] = s[i - 1]
    <3>1. i - (k + 1) \in 1 .. n - k /\ k + 1 + (i - (k + 1)) = i /\ k + (i - (k + 1)) = i - 1
        BY <1>1, <1>2
    <3>2. t[k + 1 + (i - (k + 1))] = d[i - (k + 1)] /\ d[i - (k + 1)] = s[k + (i - (k + 1))]
        BY <1>4, <2>1, <3>1
    <3> QED
        BY <3>1, <3>2
  <2>7. k + 1 + (n - k) = n + 1 /\ k + 1 \in 1 .. k + 1 /\ \A i \in 1 .. k : i \in 1 .. k + 1
      BY <1>1, <1>2
  <2> QED
      BY <1>4, <2>1, <2>6, <2>7
<1>6. \A i \in 1 .. k : Before(s[i].path, c.path)
    BY <1>2
<1>7. ASSUME NEW i \in k + 1 .. n PROVE Before(c.path, s[i].path)
  <2>1. i \in 1 .. n /\ i \notin J
      BY <1>1, <1>2
  <2>2. ~Before(s[i].path, c.path) /\ s[i].path # c.path
      BY <2>1
  <2> QED
      BY <1>1, <2>1, <2>2, BeforeOrders
<1>8. ByPath(t)
  <2> SUFFICES ASSUME NEW i \in 1 .. n + 1, NEW j \in 1 .. n + 1, i < j PROVE Before(t[i].path, t[j].path)
      BY <1>5 DEF ByPath
  <2>1. \A x, y \in 1 .. n : x < y => Before(s[x].path, s[y].path)
      BY DEF ByPath
  <2>2. CASE j <= k
    <3>1. i \in 1 .. k /\ j \in 1 .. k /\ i \in 1 .. n /\ j \in 1 .. n
        BY <1>1, <1>2, <2>2
    <3>2. t[i] = s[i] /\ t[j] = s[j]
        BY <1>5, <3>1
    <3> QED
        BY <2>1, <3>1, <3>2
  <2>3. CASE j = k + 1
      BY <1>1, <1>2, <1>5, <1>6, <2>3
  <2>4. CASE j > k + 1 /\ i <= k
    <3>1. i \in 1 .. k /\ j \in k + 2 .. n + 1 /\ i \in 1 .. n /\ j - 1 \in 1 .. n /\ i < j - 1
        BY <1>1, <1>2, <2>4
    <3>2. t[i] = s[i] /\ t[j] = s[j - 1]
        BY <1>5, <3>1
    <3> QED
        BY <2>1, <3>1, <3>2
  <2>5. CASE j > k + 1 /\ i = k + 1
      BY <1>1, <1>2, <1>5, <1>7, <2>5
  <2>6. CASE j > k + 1 /\ i > k + 1
    <3>1. i \in k + 2 .. n + 1 /\ j \in k + 2 .. n + 1 /\ i - 1 \in 1 .. n /\ j - 1 \in 1 .. n /\ i - 1 < j - 1
        BY <1>1, <1>2, <2>6
    <3>2. t[i] = s[i - 1] /\ t[j] = s[j - 1]
        BY <1>5, <3>1
    <3> QED
        BY <2>1, <3>1, <3>2
  <2> QED
      BY <1>1, <1>2, <2>2, <2>3, <2>4, <2>5, <2>6
<1>9. Each(t) \subseteq Each(s) \cup {c}
  <2> SUFFICES ASSUME NEW i \in 1 .. n + 1 PROVE t[i] \in Each(s) \cup {c}
      BY <1>5 DEF Each
  <2>1. CASE i <= k
      BY <1>1, <1>2, <1>5, <2>1 DEF Each
  <2>2. CASE i = k + 1
      BY <1>5, <2>2
  <2>3. CASE i > k + 1
      BY <1>1, <1>2, <1>5, <2>3 DEF Each
  <2> QED
      BY <1>2, <2>1, <2>2, <2>3
<1>10. Each(s) \subseteq Each(t) /\ c \in Each(t)
  <2>1. ASSUME NEW i \in 1 .. n PROVE s[i] \in Each(t)
    <3>1. CASE i <= k
        BY <1>1, <1>2, <1>5, <3>1 DEF Each
    <3>2. CASE i > k
      <4>1. i + 1 \in k + 2 .. n + 1 /\ (i + 1) - 1 = i /\ i + 1 \in 1 .. n + 1
          BY <1>1, <1>2, <3>2
      <4> QED
          BY <1>5, <4>1 DEF Each
    <3> QED
        BY <1>2, <3>1, <3>2
  <2>2. k + 1 \in 1 .. n + 1
      BY <1>1, <1>2
  <2> QED
      BY <1>5, <2>1, <2>2 DEF Each
<1> QED
    BY <1>8, <1>9, <1>10 DEF t

\* NewChanges puts changes of different paths in the order of their paths.
LEMMA InOrderSorts ==
    ASSUME NEW V, \A v \in V : v.path \in Seq(Nat), NEW cs \in Seq(V),
           \A i, j \in 1 .. Len(cs) : i # j => cs[i].path # cs[j].path
    PROVE  ByPath(InOrder(cs)) /\ Each(InOrder(cs)) = Each(cs)
<1> DEFINE n == Len(cs)
<1>1. n \in Nat /\ \A i \in 1 .. n : cs[i] \in V
    OBVIOUS
<1>2. PICK w : /\ InOrder(cs) = w[n] /\ w[0] = <<>>
               /\ \A i \in 1 .. n : w[i] = Put(w[i - 1], cs[i])
               /\ \A i \in 0 .. n : w[i] \in Seq(V)
    BY InOrderSteps
<1> DEFINE So(i) == {cs[j] : j \in 1 .. i}
           T == {i \in Nat : i <= n => ByPath(w[i]) /\ Each(w[i]) = So(i)}
<1>3. 0 \in T
  <2>1. Len(<<>>) = 0 /\ 1 .. 0 = {}
      OBVIOUS
  <2>2. So(0) = {}
      BY <2>1
  <2> QED
      BY <1>2, <2>1, <2>2 DEF ByPath, Each
<1>4. ASSUME NEW i \in Nat, i \in T PROVE i + 1 \in T
  <2> SUFFICES ASSUME i + 1 <= n PROVE ByPath(w[i + 1]) /\ Each(w[i + 1]) = So(i + 1)
      OBVIOUS
  <2>1. i + 1 \in 1 .. n /\ (i + 1) - 1 = i /\ i \in 0 .. n /\ i <= n
      BY <1>1
  <2>2. ByPath(w[i]) /\ Each(w[i]) = So(i) /\ w[i] \in Seq(V) /\ cs[i + 1] \in V /\ w[i + 1] = Put(w[i], cs[i + 1])
      BY <1>1, <1>2, <1>4, <2>1
  <2>3. ASSUME NEW x \in 1 .. Len(w[i]) PROVE w[i][x].path # cs[i + 1].path
    <3>1. w[i][x] \in So(i)
        BY <2>2 DEF Each
    <3>2. PICK j \in 1 .. i : w[i][x] = cs[j]
        BY <3>1
    <3>3. j \in 1 .. n /\ j # i + 1
        BY <1>1, <2>1
    <3> QED
        BY <2>1, <3>2, <3>3
  <2>4. So(i + 1) = So(i) \cup {cs[i + 1]}
    <3>1. 1 .. i + 1 = (1 .. i) \cup {i + 1}
        OBVIOUS
    <3> QED
        BY <3>1
  <2> HIDE DEF So
  <2>5. ByPath(Put(w[i], cs[i + 1])) /\ Each(Put(w[i], cs[i + 1])) = Each(w[i]) \cup {cs[i + 1]}
    <3> DEFINE s == w[i]
               c == cs[i + 1]
    <3>1. s \in Seq(V) /\ c \in V /\ ByPath(s) /\ \A x \in 1 .. Len(s) : s[x].path # c.path
        BY <2>2, <2>3
    <3> HIDE DEF s, c
    <3>2. ByPath(Put(s, c)) /\ Each(Put(s, c)) = Each(s) \cup {c}
        BY <3>1, PutInOrder
    <3> QED
        BY <3>2 DEF s, c
  <2> QED
      BY <2>2, <2>4, <2>5
<1> HIDE DEF T
<1>5. n \in T
    BY <1>1, <1>3, <1>4, SetInduction
<1>6. ByPath(w[n]) /\ Each(w[n]) = So(n)
  <2>1. n <= n
      BY <1>1
  <2> QED
      BY <1>5, <2>1 DEF T
<1> QED
    BY <1>2, <1>6 DEF Each

PathsOf(s) == {s[i].path : i \in 1 .. Len(s)}

\* The rest of a list in the order of paths.
LEMMA RestInOrder ==
    ASSUME NEW V, NEW s \in Seq(V), s # <<>>, ByPath(s)
    PROVE  /\ Head(s) = s[1] /\ Len(s) \in Nat \ {0}
           /\ Tail(s) \in Seq(V) /\ Len(Tail(s)) = Len(s) - 1
           /\ \A i \in 1 .. Len(s) - 1 : Tail(s)[i] = s[i + 1]
           /\ ByPath(Tail(s))
           /\ PathsOf(s) = {Head(s).path} \cup PathsOf(Tail(s))
           /\ \A p \in PathsOf(Tail(s)) : Before(Head(s).path, p)
<1> DEFINE t == Tail(s)
<1>1. /\ Head(s) = s[1] /\ Len(s) \in Nat \ {0} /\ t \in Seq(V) /\ Len(t) = Len(s) - 1
      /\ \A i \in 1 .. Len(s) - 1 : t[i] = s[i + 1]
    OBVIOUS
<1> HIDE DEF t
<1>2. \A i, j \in 1 .. Len(s) : i < j => Before(s[i].path, s[j].path)
    BY DEF ByPath
<1>3. \A i \in 1 .. Len(s) - 1 : i + 1 \in 1 .. Len(s) /\ 1 < i + 1
    BY <1>1
<1>4. 1 \in 1 .. Len(s)
    BY <1>1
<1>5. ByPath(t)
  <2> SUFFICES ASSUME NEW i \in 1 .. Len(s) - 1, NEW j \in 1 .. Len(s) - 1, i < j
               PROVE  Before(t[i].path, t[j].path)
      BY <1>1 DEF ByPath
  <2>1. i + 1 < j + 1
      OBVIOUS
  <2>2. Before(s[i + 1].path, s[j + 1].path)
      BY <1>2, <1>3, <2>1
  <2> QED
      BY <1>1, <2>2
<1>6. PathsOf(t) = {s[i + 1].path : i \in 1 .. Len(s) - 1}
    BY <1>1 DEF PathsOf
<1>7. PathsOf(s) = {s[1].path} \cup PathsOf(t)
  <2>1. PathsOf(s) \subseteq {s[1].path} \cup PathsOf(t)
    <3> SUFFICES ASSUME NEW i \in 1 .. Len(s), i # 1 PROVE s[i].path \in PathsOf(t)
        BY DEF PathsOf
    <3>1. i - 1 \in 1 .. Len(s) - 1 /\ (i - 1) + 1 = i
        BY <1>1
    <3> QED
        BY <1>6, <3>1
  <2>2. PathsOf(t) \subseteq PathsOf(s)
      BY <1>3, <1>6 DEF PathsOf
  <2> QED
      BY <1>4, <2>1, <2>2 DEF PathsOf
<1>8. \A p \in PathsOf(t) : Before(s[1].path, p)
    BY <1>2, <1>3, <1>4, <1>6
<1> QED
    BY <1>1, <1>5, <1>7, <1>8 DEF t

\* In the order of their paths, no two changes are of the same path.
LEMMA PathsOnce ==
    ASSUME NEW V, NEW s \in Seq(V), \A i \in 1 .. Len(s) : s[i].path \in Seq(Nat), ByPath(s)
    PROVE  Len(s) = Cardinality(PathsOf(s))
<1> DEFINE n == Len(s)
           T == PathsOf(s)
           f == [i \in 1 .. n |-> s[i].path]
<1>1. n \in Nat
    OBVIOUS
<1>2. \A i, j \in 1 .. n : s[i].path = s[j].path => i = j
  <2> SUFFICES ASSUME NEW i \in 1 .. n, NEW j \in 1 .. n, i < j PROVE s[i].path # s[j].path
      BY <1>1
  <2>1. Before(s[i].path, s[j].path)
      BY DEF ByPath
  <2> QED
      BY <2>1, BeforeOrders
<1> HIDE DEF n
<1>3. f \in Surjection(1 .. n, T)
    BY DEF Surjection, PathsOf, n
<1>4. f \in Injection(1 .. n, T)
    BY <1>2, <1>3 DEF Injection, IsInjective, Surjection
<1>5. IsFiniteSet(1 .. n) /\ Cardinality(1 .. n) = n
    BY <1>1, FS_Interval
<1>6. Cardinality(T) = n
    BY <1>3, <1>4, <1>5, FS_Surjection
<1> QED
    BY <1>6 DEF n

\* Three different things are three.
LEMMA ThreeOnes ==
    ASSUME NEW a, NEW b, NEW c, a # b, a # c, b # c
    PROVE  Cardinality({a, b, c}) = 3
<1>1. IsFiniteSet({}) /\ Cardinality({}) = 0
    BY FS_EmptySet
<1>2. IsFiniteSet({} \cup {a}) /\ Cardinality({} \cup {a}) = 1
    BY <1>1, FS_AddElement
<1>3. IsFiniteSet({a} \cup {b}) /\ Cardinality({a} \cup {b}) = 2
  <2>1. {} \cup {a} = {a} /\ b \notin {a}
      OBVIOUS
  <2> QED
      BY <1>2, <2>1, FS_AddElement
<1>4. Cardinality({a, b} \cup {c}) = 3
  <2>1. {a} \cup {b} = {a, b} /\ c \notin {a, b}
      OBVIOUS
  <2> QED
      BY <1>3, <2>1, FS_AddElement
<1>5. {a, b} \cup {c} = {a, b, c}
    OBVIOUS
<1> QED
    BY <1>4, <1>5

\* What a tree holds at a path: a file, or nothing.
FileAt(rws, root, q) == LET f == Files(rws, root) IN IF q \in DOMAIN f THEN File(f[q]) ELSE NoEntry

\* Without renamed directories, the comparison looks at files.
LEMMA ViewIsFile ==
    ASSUME NoCollision, NEW rws, RowsSound(rws), NEW root, DirIn(DOMAIN rws, root), NEW q
    PROVE  /\ View(rws, root, {}, q) = FileAt(rws, root, q)
           /\ q \in DOMAIN Files(rws, root) => FileAt(rws, root, q) # NoEntry
<1> DEFINE e == EntryAt(rws, root, q)
           f == Files(rws, root)
<1>1. q \in DOMAIN f <=> q \in PathsIn(rws, root) /\ ~e.isDir
    BY DEF Files
<1>2. CASE q \in DOMAIN f
  <2>1. f[q] = e.hash /\ q \in PathsIn(rws, root) /\ ~e.isDir
      BY <1>1, <1>2 DEF Files
  <2>2. e # NoEntry /\ e = File(e.hash)
      BY <2>1, EntryKind
  <2> QED
      BY <1>2, <2>1, <2>2 DEF View, FileAt
<1>3. CASE q \notin DOMAIN f
    BY <1>1, <1>3 DEF View, FileAt
<1> QED
    BY <1>2, <1>3

\* DiffTreeContext and NewChanges: if no directory is only renamed in, the changes are
\* the plain difference of the two trees' files, in the order of their paths.
LEMMA ChangesArePlain ==
    ASSUME NoCollision, NEW rws, RowsSound(rws),
           NEW from, DirIn(DOMAIN rws, from), NEW to, DirIn(DOMAIN rws, to),
           OnlyRenamed(rws, from, to) = {}
    PROVE  LET cs == Changes(rws, from, to)
           IN  /\ cs \in Seq(ChangesOf(rws, from, to)) /\ ByPath(cs)
               /\ Each(cs) = PlainChanges(Files(rws, from), Files(rws, to))
<1> DEFINE V == ChangesOf(rws, from, to)
           d == DiffTree(rws, from, to)
           f == Files(rws, from)
           g == Files(rws, to)
           P == PathsIn(rws, from) \cup PathsIn(rws, to)
<1>1. d \in Seq(V)
    BY DiffIn
<1>2. \A c \in V : c.path \in Seq(Nat)
  <2>1. \A q \in P : q \in Seq(Nat)
      BY PathsAre DEF Names
  <2> QED
      BY <2>1 DEF ChangesOf
<1>3. Lists(d, Noted(rws, from, to, P))
    BY DiffLists
<1>4. Noted(rws, from, to, P) = PlainChanges(f, g)
  <2> DEFINE a(q) == FileAt(rws, from, q)
             b(q) == FileAt(rws, to, q)
             D == {q \in DOMAIN f \cup DOMAIN g : ~(q \in DOMAIN f /\ q \in DOMAIN g /\ f[q] = g[q])}
  <2>1. \A q : /\ View(rws, from, {}, q) = a(q) /\ View(rws, to, {}, q) = b(q)
               /\ q \in DOMAIN f => a(q) # NoEntry
               /\ q \in DOMAIN g => b(q) # NoEntry
      BY ViewIsFile
  <2>2. DOMAIN f \cup DOMAIN g \subseteq P
      BY DEF Files
  <2>3. \A q : (q \in DOMAIN f => a(q) = File(f[q])) /\ (q \notin DOMAIN f => a(q) = NoEntry)
      BY DEF FileAt
  <2>4. \A q : (q \in DOMAIN g => b(q) = File(g[q])) /\ (q \notin DOMAIN g => b(q) = NoEntry)
      BY DEF FileAt
  <2>5. \A x, y : File(x) = File(y) => x = y
    <3>1. \A x : File(x).hash = x
        BY DEF File
    <3> QED
        BY <3>1
  <2>6. Noted(rws, from, to, P) = {Change(q, a(q), b(q)) : q \in {p \in P : a(p) # b(p)}}
      BY <2>1 DEF Noted
  <2>7. PlainChanges(f, g) = {Change(q, a(q), b(q)) : q \in D}
      BY DEF PlainChanges, FileAt
  <2> HIDE DEF a, b, f, g
  <2>8. {p \in P : a(p) # b(p)} = D
      BY <2>1, <2>2, <2>3, <2>4, <2>5
  <2> QED
      BY <2>6, <2>7, <2>8
<1>5. /\ \A i, j \in 1 .. Len(d) : i # j => d[i].path # d[j].path
      /\ Each(d) = PlainChanges(f, g)
    BY <1>3, <1>4 DEF Lists, Each
<1> HIDE DEF V, d, f, g
<1>6. ByPath(InOrder(d)) /\ Each(InOrder(d)) = Each(d)
    BY <1>1, <1>2, <1>5, InOrderSorts
<1>7. InOrder(d) \in Seq(V)
    BY <1>1, InOrderIn
<1> QED
    BY <1>5, <1>6, <1>7 DEF Changes, V, d, f, g

----------------------------------------------------------------------------
(* The files after an edit.                                                *)

\* Inserting rows changes none that is there.
LEMMA InsertAllExtends ==
    ASSUME NEW rws, NEW adds, Len(adds) \in Nat
    PROVE  Extends(InsertAll(rws, adds), rws)
<1>1. PICK after : /\ after[0] = rws
                   /\ \A i \in 1 .. Len(adds) : after[i] = Insert(after[i - 1], adds[i])
                   /\ InsertAll(rws, adds) = after[Len(adds)]
    BY InsertsOneByOne
<1> DEFINE T == {i \in Nat : i <= Len(adds) => Extends(after[i], rws)}
<1>2. 0 \in T
    BY <1>1 DEF Extends
<1>3. ASSUME NEW i \in Nat, i \in T PROVE i + 1 \in T
  <2> SUFFICES ASSUME i + 1 <= Len(adds) PROVE Extends(after[i + 1], rws)
      OBVIOUS
  <2>1. i + 1 \in 1 .. Len(adds) /\ (i + 1) - 1 = i /\ Extends(after[i], rws)
      BY <1>3
  <2>2. after[i + 1] = Insert(after[i], adds[i + 1])
      BY <1>1, <2>1
  <2> QED
      BY <2>1, <2>2 DEF Extends, Insert
<1> HIDE DEF T
<1>4. Len(adds) \in T
    BY <1>2, <1>3, SetInduction
<1> QED
    BY <1>1, <1>4 DEF T

\* Children of the kinds their hashes tell have no other hash in common.
LEMMA HashTellsKids ==
    ASSUME NEW kids, KidsRight(kids), NEW others, KidsRight(others), HashOf(kids) = HashOf(others)
    PROVE  kids = others
<1>1. DOMAIN kids = DOMAIN HashOf(kids) /\ DOMAIN others = DOMAIN HashOf(others)
    BY DEF HashOf
<1>2. ASSUME NEW n \in DOMAIN kids PROVE kids[n] = others[n]
  <2>1. kids[n].hash = HashOf(kids)[n] /\ others[n].hash = HashOf(others)[n]
      BY <1>1 DEF HashOf
  <2>2. EntryRight(kids[n]) /\ EntryRight(others[n])
      BY <1>1 DEF KidsRight
  <2> QED
      BY <2>1, <2>2 DEF EntryRight
<1>3. kids = [n \in DOMAIN kids |-> kids[n]] /\ others = [n \in DOMAIN others |-> others[n]]
    BY DEF KidsRight
<1> QED
    BY <1>1, <1>2, <1>3

\* Opened by the hash of its children, a node has these children.
LEMMA KidsOfHash ==
    ASSUME NoCollision, NEW rws, RowsSound(rws), NEW kids, KidsRight(kids),
           kids # Empty => HashOf(kids) \in DOMAIN rws
    PROVE  Kids(rws, HashOf(kids)) = kids
<1>1. CASE kids = Empty
    BY <1>1, EmptyHash DEF Kids
<1>2. CASE kids # Empty
  <2> DEFINE h == HashOf(kids)
  <2>1. h \in DOMAIN rws /\ h \notin Blobs
      BY <1>2 DEF NoCollision
  <2>2. h = HashOf(rws[h].kids) /\ KidsRight(rws[h].kids)
      BY <2>1 DEF RowsSound, NodeRow
  <2>3. rws[h].kids = kids
      BY <2>2, HashTellsKids
  <2>4. h # Empty
    <3>1. DOMAIN kids # {}
      <4> SUFFICES ASSUME DOMAIN kids = {} PROVE FALSE
          OBVIOUS
      <4>1. kids = [n \in {} |-> kids[n]]
          BY DEF KidsRight
      <4>2. [n \in {} |-> kids[n]] = Empty
          BY DEF Empty
      <4> QED
          BY <1>2, <4>1, <4>2
    <3>2. DOMAIN h = DOMAIN kids
        BY DEF HashOf
    <3>3. DOMAIN Empty = {}
        BY DEF Empty
    <3> QED
        BY <3>1, <3>2, <3>3
  <2> QED
      BY <2>3, <2>4 DEF Kids
<1> QED
    BY <1>1, <1>2

\* A file, or nothing where there is a directory.
FileOf(e) == IF e.isDir THEN NoEntry ELSE e

\* The tree after an edit: the new entry at its path and nothing below it, and
\* everywhere else the files that were there.
LEMMA EditedEntries ==
    ASSUME NoCollision, NEW rws, RowsSound(rws), NEW root, DirIn(DOMAIN rws, root),
           root \in Deep[MaxDepth], NEW p \in Seq(Names), IsPath(p), ~BlobInTheWay(rws, root, p),
           NEW e, e = NoEntry \/ \E b \in Blobs : e = File(b), NEW q \in Seq(Names)
    PROVE  LET edit == Edited(rws, root, p, e)
               t    == InsertAll(rws, edit.adds)
               was  == EntryAt(rws, root, q)
               is   == EntryAt(t, edit.root, q)
           IN  /\ RowsSound(t) /\ Extends(t, rws)
               /\ DirIn(DOMAIN t, edit.root) /\ edit.root \in Deep[MaxDepth]
               /\ IsPrefix(p, q) => is = IF q = p THEN e ELSE NoEntry
               /\ ~IsPrefix(p, q) => FileOf(is) = FileOf(was)
<1> DEFINE n == Len(p)
           edit == Edited(rws, root, p, e)
           t == InsertAll(rws, edit.adds)
           new == Rebuilt(rws, root, p, e)
           at == Along(rws, root, p)
           wt == Along(rws, root, q)
           bt == Along(t, edit.root, q)
           kids(i) == Kids(rws, at[i].hash)
           keys == Keys(edit.adds, Len(edit.adds))
<1>0. /\ n \in Nat \ {0} /\ n \in 1 .. MaxDepth /\ Len(q) \in Nat
      /\ \A i \in 1 .. n : p[i] \in Names
    BY WorkTreeAssumption DEF IsPath
<1>1. /\ Fits(DOMAIN rws, edit) /\ edit.root = HashOf(new[0])
      /\ \A i \in 0 .. n - 1 : KidsRight(new[i]) /\ (new[i] # Empty => HashOf(new[i]) \in keys)
    BY EditFits
<1>2. RowsSound(t) /\ DOMAIN t = DOMAIN rws \cup keys
    BY <1>1, InsertAllSound DEF Fits
<1>3. Extends(t, rws)
  <2>1. Len(edit.adds) \in Nat
      BY <1>1 DEF Fits, Storable
  <2> QED
      BY <2>1, InsertAllExtends
<1>4. DirIn(DOMAIN t, edit.root) /\ edit.root \in Deep[MaxDepth]
    BY <1>1, <1>2 DEF Fits
<1>5. \A i \in 0 .. n - 1 :
          new[i] = Level(kids(i), p[i + 1], IF i = n - 1 THEN e ELSE EntryOf(new[i + 1]))
    BY <1>0, RebuiltLevels
<1>6. at[0] = Dir(root) /\ bt[0] = Dir(edit.root)
    BY <1>0, RootFirst
<1>7. /\ \A i \in 1 .. n : at[i] = Below(rws, at[i - 1], p[i])
      /\ \A i \in 1 .. Len(q) : wt[i] = Below(rws, wt[i - 1], q[i])
      /\ \A i \in 1 .. Len(q) : bt[i] = Below(t, bt[i - 1], q[i])
  <2>1. /\ at = [i \in 0 .. Len(p) |-> IF i = 0 THEN Dir(root) ELSE Below(rws, at[i - 1], p[i])]
        /\ wt = [i \in 0 .. Len(q) |-> IF i = 0 THEN Dir(root) ELSE Below(rws, wt[i - 1], q[i])]
        /\ bt = [i \in 0 .. Len(q) |-> IF i = 0 THEN Dir(edit.root) ELSE Below(t, bt[i - 1], q[i])]
      BY <1>0, AlongEntries
  <2> HIDE DEF at, wt, bt, t, edit
  <2>2. (\A i \in 1 .. n : i \in 0 .. n /\ i # 0) /\ (\A i \in 1 .. Len(q) : i \in 0 .. Len(q) /\ i # 0)
      BY <1>0
  <2> QED
      BY <2>1, <2>2
<1>8. \A i \in 0 .. n - 1 : at[i].isDir \/ at[i] = NoEntry
  <2>1. at[0].isDir
      BY <1>6 DEF Dir
  <2>2. \A i \in 1 .. n - 1 : at[i].isDir \/ at[i] = NoEntry
      BY DEF BlobInTheWay
  <2>3. \A i \in 0 .. n - 1 : i = 0 \/ i \in 1 .. n - 1
      BY <1>0
  <2> QED
      BY <2>1, <2>2, <2>3
<1> DEFINE N(i) == IF i = n THEN e ELSE IF i = 0 THEN Dir(HashOf(new[0])) ELSE EntryOf(new[i])
<1>9. \A i \in 0 .. n - 1 : Kids(t, HashOf(new[i])) = new[i]
  <2> TAKE i \in 0 .. n - 1
  <2>1. KidsRight(new[i]) /\ (new[i] # Empty => HashOf(new[i]) \in DOMAIN t)
      BY <1>1, <1>2
  <2> HIDE DEF new, t
  <2> QED
      BY <1>2, <2>1, KidsOfHash
<1>10. \A i \in 0 .. n - 1 : new[i] = Level(kids(i), p[i + 1], N(i + 1))
  <2>1. \A i \in 0 .. n - 1 : i + 1 # 0 /\ (i + 1 = n <=> i = n - 1)
      BY <1>0
  <2> HIDE DEF new, kids, n
  <2> QED
      BY <1>5, <2>1
<1> HIDE DEF at, wt, bt, t, edit, new, keys
<1>11. ASSUME NEW i \in 0 .. n - 1, NEW m \in Names
       PROVE  /\ m = p[i + 1] => Below(t, N(i), m) = N(i + 1)
              /\ m # p[i + 1] => Below(t, N(i), m) = Below(rws, at[i], m)
  <2> DEFINE k == Kids(rws, at[i].hash)
             u == N(i + 1)
  <2>1. new[i] = Level(k, p[i + 1], u) /\ Kids(t, HashOf(new[i])) = new[i]
      BY <1>9, <1>10
  <2>2. Below(rws, at[i], m) = IF m \in DOMAIN k THEN k[m] ELSE NoEntry
    <3>1. CASE at[i].isDir
        BY <3>1 DEF Below
    <3>2. CASE at[i] = NoEntry
      <4>1. k = Empty /\ DOMAIN Empty = {}
          BY <3>2 DEF Kids, NoEntry, Empty
      <4> QED
          BY <3>2, <4>1 DEF Below, NoEntry
    <3> QED
        BY <1>8, <3>1, <3>2
  <2>3. N(i) = Dir(HashOf(new[i])) \/ (N(i) = NoEntry /\ new[i] = Empty)
    <3>1. i # n
        BY <1>0
    <3> QED
        BY <3>1 DEF EntryOf
  <2>4. Below(t, N(i), m) = IF m \in DOMAIN new[i] THEN new[i][m] ELSE NoEntry
    <3> HIDE DEF N
    <3>1. CASE N(i) = Dir(HashOf(new[i]))
        BY <2>1, <3>1 DEF Below, Dir
    <3>2. CASE N(i) = NoEntry /\ new[i] = Empty
      <4>1. DOMAIN Empty = {}
          BY DEF Empty
      <4> QED
          BY <3>2, <4>1 DEF Below, NoEntry
    <3> QED
        BY <2>3, <3>1, <3>2
  <2> HIDE DEF N, k, u
  <2>5. CASE u = NoEntry
    <3>1. DOMAIN new[i] = DOMAIN k \ {p[i + 1]} /\ \A x \in DOMAIN new[i] : new[i][x] = k[x]
        BY <2>1, <2>5 DEF Level, Without
    <3> QED
        BY <2>2, <2>4, <2>5, <3>1 DEF u
  <2>6. CASE u # NoEntry
    <3>1. /\ DOMAIN new[i] = DOMAIN k \cup {p[i + 1]} /\ new[i][p[i + 1]] = u
          /\ \A x \in DOMAIN new[i] \ {p[i + 1]} : new[i][x] = k[x]
        BY <2>1, <2>6 DEF Level, WithKid
    <3> QED
        BY <2>2, <2>4, <3>1 DEF u
  <2> QED
      BY <2>5, <2>6
<1>12. ASSUME NEW k \in 0 .. n, k <= Len(q), \A i \in 1 .. k : p[i] = q[i]
       PROVE  bt[k] = N(k) /\ wt[k] = at[k]
  <2> DEFINE T == {i \in Nat : i <= k => bt[i] = N(i)}
  <2>1. 0 \in T
      BY <1>0, <1>1, <1>6
  <2>2. ASSUME NEW i \in Nat, i \in T PROVE i + 1 \in T
    <3> SUFFICES ASSUME i + 1 <= k PROVE bt[i + 1] = N(i + 1)
        OBVIOUS
    <3>1. i \in 0 .. n - 1 /\ i + 1 \in 1 .. Len(q) /\ (i + 1) - 1 = i /\ i + 1 \in 1 .. k /\ i + 1 \in 1 .. n
        BY <1>0, <1>12
    <3>2. bt[i] = N(i) /\ p[i + 1] = q[i + 1] /\ p[i + 1] \in Names
        BY <1>0, <1>12, <2>2, <3>1
    <3>3. bt[i + 1] = Below(t, bt[i], q[i + 1])
        BY <1>7, <3>1
    <3> HIDE DEF N
    <3> QED
        BY <1>11, <3>1, <3>2, <3>3
  <2> HIDE DEF T, N
  <2>3. k \in T
      BY <2>1, <2>2, SetInduction
  <2>4. wt[k] = at[k]
      BY <1>0, <1>12, AlongPrefix DEF at, wt
  <2> QED
      BY <2>3, <2>4 DEF T
<1>13. EntryAt(rws, root, q) = wt[Len(q)] /\ EntryAt(t, edit.root, q) = bt[Len(q)]
    BY DEF EntryAt, wt, bt
<1>14. p \in Seq(Nat) /\ q \in Seq(Nat)
    BY DEF Names
<1>15. CASE IsPrefix(p, q)
  <2>1. n <= Len(q) /\ \A i \in 1 .. n : p[i] = q[i]
      BY <1>14, <1>15, PrefixOf
  <2>2. bt[n] = e
    <3>1. n \in 0 .. n
        BY <1>0
    <3> QED
        BY <1>12, <2>1, <3>1
  <2>3. q = p => EntryAt(t, edit.root, q) = e
      BY <1>13, <2>2
  <2>4. ASSUME q # p PROVE EntryAt(t, edit.root, q) = NoEntry
    <3>1. n < Len(q)
      <4> SUFFICES ASSUME n = Len(q) PROVE FALSE
          BY <1>0, <2>1
      <4> QED
          BY <1>14, <2>1, <2>4
    <3>2. ~e.isDir
        BY DEF File, NoEntry
    <3>3. EntryAt(t, edit.root, q) = NoEntry
      <4> SUFFICES ASSUME EntryAt(t, edit.root, q) # NoEntry PROVE FALSE
          OBVIOUS
      <4> DEFINE d == SubSeq(q, 1, n)
      <4>1. n \in 0 .. Len(q) - 1 /\ n \in 0 .. Len(q)
          BY <1>0, <3>1
      <4>2. d \in Seq(Names) /\ Len(d) = n /\ (\A j \in 1 .. n : d[j] = q[j]) /\ EntryAt(t, edit.root, d).isDir
          BY <1>2, <1>4, <4>1, WayDown
      <4>3. EntryAt(t, edit.root, d) = bt[n]
        <5> HIDE DEF d
        <5>1. n \in 0 .. Len(d) /\ n <= Len(q) /\ Len(d) \in Nat
            BY <1>0, <4>1, <4>2
        <5>2. Along(t, edit.root, d)[n] = Along(t, edit.root, q)[n]
            BY <1>0, <4>2, <5>1, AlongPrefix
        <5> QED
            BY <4>2, <5>2 DEF EntryAt, bt
      <4> QED
          BY <2>2, <3>2, <4>2, <4>3
    <3> QED
        BY <3>3
  <2> QED
      BY <1>2, <1>3, <1>4, <1>15, <2>3, <2>4 DEF t, edit
<1>16. CASE ~IsPrefix(p, q)
  <2> DEFINE X == {i \in 1 .. Len(q) : i <= n /\ p[i] # q[i]}
  <2>1. CASE X = {}
    <3>1. Len(q) < n /\ \A i \in 1 .. Len(q) : p[i] = q[i]
      <4>1. \A i \in 1 .. Len(q) : i <= n => p[i] = q[i]
          BY <2>1
      <4>2. ~(n <= Len(q))
          BY <1>0, <1>14, <1>16, <4>1, PrefixOf
      <4> QED
          BY <1>0, <4>1, <4>2
    <3>2. Len(q) \in 0 .. n - 1 /\ Len(q) \in 0 .. n /\ Len(q) <= Len(q) /\ Len(q) # n
        BY <1>0, <3>1
    <3>3. bt[Len(q)] = N(Len(q)) /\ wt[Len(q)] = at[Len(q)]
        BY <1>12, <3>1, <3>2
    <3>4. FileOf(wt[Len(q)]) = NoEntry
        BY <1>8, <3>2, <3>3 DEF FileOf
    <3>5. FileOf(bt[Len(q)]) = NoEntry
        BY <3>2, <3>3 DEF FileOf, Dir, EntryOf
    <3> QED
        BY <1>2, <1>3, <1>4, <1>13, <1>16, <3>4, <3>5 DEF t, edit
  <2>2. CASE X # {}
    <3>1. PICK j \in X : \A i \in X : j <= i
      <4>1. X \subseteq Nat
          OBVIOUS
      <4> HIDE DEF X
      <4> QED
          BY <2>2, <4>1, LeastNumber
    <3> DEFINE k == j - 1
    <3>2. /\ j \in 1 .. Len(q) /\ j <= n /\ p[j] # q[j] /\ k \in 0 .. n /\ k \in 0 .. n - 1
          /\ k <= Len(q) /\ k + 1 = j /\ j \in 0 .. Len(q)
        BY <1>0
    <3>3. \A i \in 1 .. k : p[i] = q[i]
      <4> TAKE i \in 1 .. k
      <4>1. i \in 1 .. Len(q) /\ i <= n /\ ~(j <= i)
          BY <3>2
      <4> QED
          BY <3>1, <4>1
    <3>4. bt[k] = N(k) /\ wt[k] = at[k]
        BY <1>12, <3>2, <3>3
    <3>5. q[j] \in Names
        BY <3>2
    <3> HIDE DEF N
    <3>6. bt[j] = wt[j]
      <4>1. bt[j] = Below(t, bt[k], q[j]) /\ wt[j] = Below(rws, wt[k], q[j])
          BY <1>7, <3>2
      <4> HIDE DEF k
      <4> QED
          BY <1>11, <3>2, <3>4, <3>5, <4>1
    <3>7. bt[Len(q)] = wt[Len(q)]
      <4>1. Len(q) \in j .. Len(q)
          BY <3>2
      <4>2. \A i \in j .. Len(q) : Along(t, edit.root, q)[i] = Along(rws, root, q)[i]
          BY <1>0, <1>3, <3>2, <3>6, SameBelow DEF bt, wt
      <4> QED
          BY <4>1, <4>2 DEF bt, wt
    <3> QED
        BY <1>2, <1>3, <1>4, <1>13, <1>16, <3>7 DEF t, edit
  <2> QED
      BY <2>1, <2>2
<1> QED
    BY <1>15, <1>16

\* What a tree holds at a path, from its entry there.
LEMMA FileAtIs ==
    ASSUME NoCollision, NEW rws, RowsSound(rws), NEW root, DirIn(DOMAIN rws, root), NEW q
    PROVE  /\ FileAt(rws, root, q) =
                  IF q \in Seq(Names) /\ Len(q) \in 1 .. MaxDepth THEN FileOf(EntryAt(rws, root, q)) ELSE NoEntry
           /\ q \in DOMAIN Files(rws, root) <=> FileAt(rws, root, q) # NoEntry
           /\ FileAt(rws, root, q) = NoEntry \/ \E b \in Blobs : FileAt(rws, root, q) = File(b)
           /\ q \in DOMAIN Files(rws, root) => /\ FileAt(rws, root, q) = File(Files(rws, root)[q])
                                               /\ Files(rws, root)[q] \in Blobs
<1> DEFINE e == EntryAt(rws, root, q)
           f == Files(rws, root)
<1>1. q \in DOMAIN f <=> /\ q \in Seq(Names) /\ Len(q) \in 1 .. MaxDepth
                         /\ e # NoEntry /\ ~e.isDir
    BY FilePathsAre DEF FilePaths, Files
<1>2. CASE q \in DOMAIN f
  <2>1. f[q] = e.hash /\ q \in PathsIn(rws, root)
      BY <1>2 DEF Files
  <2>2. e # NoEntry /\ e = File(e.hash) /\ e.hash \in Blobs
      BY <1>1, <1>2, <2>1, EntryKind
  <2>3. FileAt(rws, root, q) = e
      BY <1>2, <2>1, <2>2 DEF FileAt
  <2>4. FileOf(e) = e
      BY <1>1, <1>2 DEF FileOf
  <2> QED
      BY <1>1, <1>2, <2>1, <2>2, <2>3, <2>4
<1>3. CASE q \notin DOMAIN f
  <2>1. FileAt(rws, root, q) = NoEntry
      BY <1>3 DEF FileAt
  <2>2. q \in Seq(Names) /\ Len(q) \in 1 .. MaxDepth => FileOf(e) = NoEntry
      BY <1>1, <1>3 DEF FileOf
  <2> QED
      BY <1>3, <2>1, <2>2
<1> QED
    BY <1>2, <1>3

\* Below a file, or where there is nothing, there is nothing.
LEMMA NothingBelow ==
    ASSUME NoCollision, NEW rws, RowsSound(rws), NEW root, DirIn(DOMAIN rws, root),
           NEW p \in Seq(Names), ~EntryAt(rws, root, p).isDir, NEW q \in Seq(Names), IsStrictPrefix(p, q)
    PROVE  EntryAt(rws, root, q) = NoEntry
<1> SUFFICES ASSUME EntryAt(rws, root, q) # NoEntry PROVE FALSE
    OBVIOUS
<1>0. p \in Seq(Nat) /\ q \in Seq(Nat)
    BY DEF Names
<1>1. Len(p) < Len(q) /\ \A i \in 1 .. Len(p) : p[i] = q[i]
    BY <1>0, PrefixIs
<1> DEFINE d == SubSeq(q, 1, Len(p))
<1>2. Len(p) \in 0 .. Len(q) - 1
    BY <1>0, <1>1
<1>3. d \in Seq(Names) /\ Len(d) = Len(p) /\ (\A j \in 1 .. Len(p) : d[j] = q[j]) /\ EntryAt(rws, root, d).isDir
    BY <1>2, WayDown
<1> HIDE DEF d
<1>4. d = p
    BY <1>1, <1>3
<1> QED
    BY <1>3, <1>4

\* The files after an edit at a path where there is no directory.
LEMMA EditedFiles ==
    ASSUME NoCollision, NEW rws, RowsSound(rws), NEW root, DirIn(DOMAIN rws, root),
           root \in Deep[MaxDepth], NEW p \in Seq(Names), IsPath(p), ~BlobInTheWay(rws, root, p),
           ~EntryAt(rws, root, p).isDir,
           NEW e, e = NoEntry \/ \E b \in Blobs : e = File(b)
    PROVE  LET edit == Edited(rws, root, p, e)
               t    == InsertAll(rws, edit.adds)
           IN  /\ RowsSound(t) /\ Extends(t, rws)
               /\ DirIn(DOMAIN t, edit.root) /\ edit.root \in Deep[MaxDepth]
               /\ FileAt(t, edit.root, p) = e
               /\ \A q : q # p => FileAt(t, edit.root, q) = FileAt(rws, root, q)
<1> DEFINE edit == Edited(rws, root, p, e)
           t == InsertAll(rws, edit.adds)
<1>1. /\ RowsSound(t) /\ Extends(t, rws)
      /\ DirIn(DOMAIN t, edit.root) /\ edit.root \in Deep[MaxDepth]
    BY EditedEntries
<1>2. \A q \in Seq(Names) :
         /\ IsPrefix(p, q) => EntryAt(t, edit.root, q) = IF q = p THEN e ELSE NoEntry
         /\ ~IsPrefix(p, q) => FileOf(EntryAt(t, edit.root, q)) = FileOf(EntryAt(rws, root, q))
    BY EditedEntries
<1> HIDE DEF t, edit
<1>3. ASSUME NEW q PROVE FileAt(t, edit.root, q) = IF q = p THEN e ELSE FileAt(rws, root, q)
  <2>1. p \in Seq(Nat) /\ Len(p) \in 1 .. MaxDepth /\ \A s \in Seq(Names) : s \in Seq(Nat)
      BY DEF IsPath, Names
  <2>2. FileOf(e) = e /\ FileOf(NoEntry) = NoEntry
      BY DEF FileOf, File, NoEntry
  <2>3. FileAt(t, edit.root, q) = IF q \in Seq(Names) /\ Len(q) \in 1 .. MaxDepth
                                  THEN FileOf(EntryAt(t, edit.root, q)) ELSE NoEntry
      BY <1>1, FileAtIs
  <2>4. FileAt(rws, root, q) = IF q \in Seq(Names) /\ Len(q) \in 1 .. MaxDepth
                               THEN FileOf(EntryAt(rws, root, q)) ELSE NoEntry
      BY FileAtIs
  <2>5. CASE q = p
    <3>1. IsPrefix(p, p)
        BY <2>1, PrefixOf
    <3>2. EntryAt(t, edit.root, p) = e
        BY <1>2, <3>1
    <3> QED
        BY <2>1, <2>2, <2>3, <2>5, <3>2
  <2>6. CASE q # p /\ q \in Seq(Names) /\ IsPrefix(p, q)
    <3>1. IsStrictPrefix(p, q)
        BY <2>1, <2>6, PrefixOf
    <3>2. EntryAt(rws, root, q) = NoEntry
        BY <2>6, <3>1, NothingBelow
    <3>3. EntryAt(t, edit.root, q) = NoEntry
        BY <1>2, <2>6
    <3> QED
        BY <2>3, <2>4, <2>6, <3>2, <3>3
  <2>7. CASE q # p /\ q \in Seq(Names) /\ ~IsPrefix(p, q)
      BY <1>2, <2>3, <2>4, <2>7
  <2>8. CASE q # p /\ q \notin Seq(Names)
      BY <2>3, <2>4, <2>8
  <2> QED
      BY <2>5, <2>6, <2>7, <2>8
<1> QED
    BY <1>1, <1>3 DEF t, edit

\* A file that is in the way is there.
LEMMA WayIsBarred ==
    ASSUME NoCollision, NEW rws, RowsSound(rws), NEW root, DirIn(DOMAIN rws, root),
           NEW p \in Seq(Names), Len(p) \in 1 .. MaxDepth, BlobInTheWay(rws, root, p)
    PROVE  /\ \E q \in DOMAIN Files(rws, root) : IsStrictPrefix(q, p)
           /\ EntryAt(rws, root, p) = NoEntry
<1> DEFINE at == Along(rws, root, p)
<1>1. PICK i \in 1 .. Len(p) - 1 : at[i] # NoEntry /\ ~at[i].isDir
    BY DEF BlobInTheWay
<1> DEFINE q == SubSeq(p, 1, i)
<1>2. q \in Seq(Names) /\ Len(q) = i /\ (\A j \in 1 .. i : q[j] = p[j]) /\ i \in Nat /\ Len(p) \in Nat
    OBVIOUS
<1> HIDE DEF q, at
<1>3. EntryAt(rws, root, q) = at[i]
  <2>1. i \in 0 .. Len(q) /\ i <= Len(p) /\ Len(q) \in Nat
      BY <1>2
  <2>2. Along(rws, root, q)[i] = Along(rws, root, p)[i]
      BY <1>2, <2>1, AlongPrefix
  <2> QED
      BY <1>2, <2>2 DEF EntryAt, at
<1>4. q \in DOMAIN Files(rws, root)
  <2>1. Len(q) \in 1 .. MaxDepth
      BY <1>2, WorkTreeAssumption
  <2> QED
      BY <1>1, <1>2, <1>3, <2>1, FilePathsAre DEF FilePaths, Files
<1>5. IsStrictPrefix(q, p)
  <2>1. q \in Seq(Nat) /\ p \in Seq(Nat) /\ Len(q) < Len(p)
      BY <1>2 DEF Names
  <2> QED
      BY <1>2, <2>1, PrefixIs
<1>6. EntryAt(rws, root, p) = NoEntry
    BY <1>1, <1>2, <1>3, <1>5, NothingBelow
<1> QED
    BY <1>4, <1>5, <1>6

\* A directory has a file below it.
LEMMA DirHasFile ==
    ASSUME NoCollision, NEW rws, RowsSound(rws), NEW root, DirIn(DOMAIN rws, root),
           root \in Deep[MaxDepth], NEW p \in Seq(Names), Len(p) \in 1 .. MaxDepth,
           EntryAt(rws, root, p).isDir
    PROVE  \E q \in DOMAIN Files(rws, root) : IsStrictPrefix(p, q)
<1> DEFINE e == EntryAt(rws, root, p)
<1>1. e # NoEntry
    BY DEF NoEntry
<1>2. e.hash # Empty
  <2> DEFINE at == Along(rws, root, p)
             n == Len(p)
  <2>1. at = [i \in 0 .. n |-> IF i = 0 THEN Dir(root) ELSE Below(rws, at[i - 1], p[i])]
      BY AlongEntries
  <2>2. EntryIn(DOMAIN rws, at[n - 1])
      BY PathIn
  <2> HIDE DEF at
  <2>3. at[n] = Below(rws, at[n - 1], p[n]) /\ e = at[n]
      BY <2>1 DEF EntryAt, at
  <2>4. e.hash \in DOMAIN rws
      BY <1>1, <2>2, <2>3, BelowIn
  <2>5. Empty \notin DOMAIN rws
    <3> SUFFICES ASSUME Empty \in DOMAIN rws PROVE FALSE
        OBVIOUS
    <3>1. Empty \notin Blobs
        BY EmptyHash DEF NoCollision
    <3>2. DOMAIN rws[Empty].kids # {} /\ Empty = HashOf(rws[Empty].kids)
        BY <3>1 DEF RowsSound, NodeRow
    <3>3. DOMAIN HashOf(rws[Empty].kids) = DOMAIN rws[Empty].kids /\ DOMAIN Empty = {}
        BY DEF HashOf, Empty
    <3> QED
        BY <3>2, <3>3
  <2> QED
      BY <2>4, <2>5
<1>3. Len(p) <= MaxDepth
    BY WorkTreeAssumption
<1> QED
    BY <1>2, <1>3, FileBelow DEF FilePaths, Files

----------------------------------------------------------------------------
(* A change, applied.                                                      *)

EditOf(rws, root, c) ==
    CASE Action(c) = "Insert" -> AddLeaf(rws, root, c.path, c.to.hash)
      [] Action(c) = "Delete" -> RemoveEntry(rws, root, c.path)
      [] OTHER                -> ReplaceLeaf(rws, root, c.path, c.to.hash)

\* A file, or nothing.
Leaf(e) == e = NoEntry \/ \E b \in Blobs : e = File(b)

\* ApplyOneChange, of a change from what the tree holds at its path: done, it makes
\* this the file the change is to, and leaves every other file; it fails only where
\* the path of a file would lead on to another.
LEMMA ChangeApplies ==
    ASSUME NoCollision, NEW rws, RowsSound(rws), NEW root, DirIn(DOMAIN rws, root),
           root \in Deep[MaxDepth], NEW c, c.path \in Seq(Names), Len(c.path) \in 1 .. MaxDepth,
           Leaf(c.to), c.from # c.to, c.from = FileAt(rws, root, c.path)
    PROVE  LET e == EditOf(rws, root, c)
               t == InsertAll(rws, e.adds)
           IN  /\ e.answer = "ok" =>
                    /\ RowsSound(t) /\ Extends(t, rws)
                    /\ DirIn(DOMAIN t, e.root) /\ e.root \in Deep[MaxDepth]
                    /\ FileAt(t, e.root, c.path) = c.to
                    /\ \A q : q # c.path => FileAt(t, e.root, q) = FileAt(rws, root, q)
               /\ e.answer # "ok" =>
                    /\ e.answer \in {"blob must be leaf", "entry exit"} /\ c.from = NoEntry
                    /\ \E q \in DOMAIN Files(rws, root) : IsStrictPrefix(q, c.path) \/ IsStrictPrefix(c.path, q)
<1> DEFINE p == c.path
           E == EntryAt(rws, root, p)
           edit == Edited(rws, root, p, c.to)
           e == EditOf(rws, root, c)
<1>1. IsPath(p)
  <2>1. \A i \in 1 .. Len(p) : p[i] \in Names
      OBVIOUS
  <2> QED
      BY <2>1 DEF IsPath
<1>2. c.from = FileOf(E)
    BY FileAtIs
<1>3. c.to # NoEntry => c.to = File(c.to.hash)
  <2> SUFFICES ASSUME c.to # NoEntry PROVE c.to = File(c.to.hash)
      OBVIOUS
  <2>1. PICK b \in Blobs : c.to = File(b)
      BY DEF Leaf
  <2>2. File(b).hash = b
      BY DEF File
  <2> QED
      BY <2>1, <2>2
<1>4. CASE c.from = NoEntry
  <2>1. Action(c) = "Insert" /\ c.to # NoEntry
      BY <1>4 DEF Action
  <2>2. e = AddLeaf(rws, root, p, c.to.hash)
      BY <2>1 DEF EditOf
  <2>3. CASE BlobInTheWay(rws, root, p)
    <3>1. e = Fails("blob must be leaf")
      <4> HIDE DEF e, E
      <4> QED
          BY <2>2, <2>3 DEF AddLeaf
    <3>2. \E q \in DOMAIN Files(rws, root) : IsStrictPrefix(q, p)
        BY <2>3, WayIsBarred
    <3>3. e.answer = "blob must be leaf"
      <4> HIDE DEF e
      <4> QED
          BY <3>1 DEF Fails
    <3> QED
        BY <1>4, <3>2, <3>3
  <2>4. CASE ~BlobInTheWay(rws, root, p) /\ E # NoEntry
    <3>1. e = Fails("entry exit")
      <4> HIDE DEF e
      <4> QED
          BY <2>2, <2>4 DEF AddLeaf
    <3>2. E.isDir
        BY <1>2, <1>4, <2>4 DEF FileOf
    <3>3. \E q \in DOMAIN Files(rws, root) : IsStrictPrefix(p, q)
        BY <3>2, DirHasFile
    <3>4. e.answer = "entry exit"
      <4> HIDE DEF e
      <4> QED
          BY <3>1 DEF Fails
    <3> QED
        BY <1>4, <3>3, <3>4
  <2>5. CASE ~BlobInTheWay(rws, root, p) /\ E = NoEntry
    <3>1. e = Does(edit)
        BY <1>3, <2>1, <2>2, <2>5 DEF AddLeaf
    <3>2. e.answer = "ok" /\ e.adds = edit.adds /\ e.root = edit.root
        BY <3>1 DEF Does
    <3>3. ~E.isDir
        BY <2>5 DEF NoEntry
    <3> HIDE DEF e, edit, E
    <3>4. LET t == InsertAll(rws, edit.adds)
          IN  /\ RowsSound(t) /\ Extends(t, rws)
              /\ DirIn(DOMAIN t, edit.root) /\ edit.root \in Deep[MaxDepth]
              /\ FileAt(t, edit.root, p) = c.to
              /\ \A q : q # p => FileAt(t, edit.root, q) = FileAt(rws, root, q)
        BY <1>1, <2>5, <3>3, EditedFiles DEF Leaf, E, edit
    <3> QED
        BY <3>2, <3>4 DEF e
  <2> QED
      BY <2>3, <2>4, <2>5
<1>5. CASE c.from # NoEntry
  <2>1. E # NoEntry /\ ~E.isDir
      BY <1>2, <1>5 DEF FileOf
  <2>2. ~BlobInTheWay(rws, root, p)
      BY <2>1, WayIsBarred
  <2>3. e = Does(edit)
    <3>1. CASE c.to = NoEntry
      <4>1. Action(c) = "Delete"
          BY <1>5, <3>1 DEF Action
      <4> QED
          BY <2>1, <2>2, <3>1, <4>1 DEF EditOf, RemoveEntry
    <3>2. CASE c.to # NoEntry
      <4>1. Action(c) = "Modify"
          BY <1>5, <3>2 DEF Action
      <4>2. e = ReplaceLeaf(rws, root, p, c.to.hash)
          BY <4>1 DEF EditOf
      <4> QED
          BY <1>3, <2>1, <2>2, <3>2, <4>2 DEF ReplaceLeaf
    <3> QED
        BY <3>1, <3>2
  <2>4. e.answer = "ok" /\ e.adds = edit.adds /\ e.root = edit.root
      BY <2>3 DEF Does
  <2> HIDE DEF e, edit, E
  <2>5. LET t == InsertAll(rws, edit.adds)
        IN  /\ RowsSound(t) /\ Extends(t, rws)
            /\ DirIn(DOMAIN t, edit.root) /\ edit.root \in Deep[MaxDepth]
            /\ FileAt(t, edit.root, p) = c.to
            /\ \A q : q # p => FileAt(t, edit.root, q) = FileAt(rws, root, q)
      BY <1>1, <2>1, <2>2, EditedFiles DEF Leaf, E, edit
  <2> QED
      BY <2>4, <2>5 DEF e
<1> QED
    BY <1>4, <1>5

\* Files that hash alike are the same.
LEMMA LeafByHash ==
    ASSUME NoCollision, NEW a, Leaf(a), NEW b, Leaf(b), a.hash = b.hash
    PROVE  a = b
<1>1. Empty \notin Blobs
    BY EmptyHash DEF NoCollision
<1>2. NoEntry.hash = Empty /\ \A x : File(x).hash = x
    BY DEF NoEntry, File
<1> QED
    BY <1>1, <1>2 DEF Leaf

\* An edit can be opened when its rows are stored, whatever the tree: the root is
\* its last.
LEMMA EditOpens ==
    ASSUME NEW rws, NEW root, NEW p, Len(p) \in Nat \ {0}, NEW e
    PROVE  LET edit == Edited(rws, root, p, e)
           IN  Len(edit.adds) \in Nat /\ Opens(InsertAll(rws, edit.adds), edit.root)
<1> DEFINE n == Len(p)
           new == Rebuilt(rws, root, p, e)
           kids(i) == Kids(rws, Along(rws, root, p)[i].hash)
           under(i) == IF i = n - 1 THEN e ELSE EntryOf(new[i + 1])
           left == CHOOSE k \in 0 .. n : \A i \in 0 .. n - 1 : new[i] # Empty <=> i < k
           adds == AddsOf(new, e, left)
           l == FileFirst(e)
<1>0. n \in Nat \ {0}
    OBVIOUS
<1>1. \A i \in 0 .. n - 1 : new[i] = Level(kids(i), p[i + 1], under(i))
    BY RebuiltLevels
<1> HIDE DEF new, kids, n
<1>2. left \in 0 .. n /\ \A i \in 0 .. n - 1 : new[i] # Empty <=> i < left
  <2>1. ASSUME NEW i \in 0 .. n - 1, i + 1 \in 0 .. n - 1, new[i + 1] # Empty PROVE new[i] # Empty
    <3>1. i # n - 1
        BY <1>0, <2>1
    <3>2. under(i) # NoEntry
        BY <2>1, <3>1 DEF EntryOf, Dir, NoEntry
    <3> HIDE DEF under
    <3>3. new[i] = WithKid(kids(i), p[i + 1], under(i))
        BY <1>1, <3>2 DEF Level
    <3>4. p[i + 1] \in DOMAIN new[i]
        BY <3>3 DEF WithKid
    <3> QED
        BY <3>4 DEF Empty
  <2>2. \E k \in 0 .. n : \A i \in 0 .. n - 1 : new[i] # Empty <=> i < k
      BY <1>0, <2>1, Threshold
  <2> QED
      BY <2>2
<1>3. Edited(rws, root, p, e) = [root |-> HashOf(new[0]), adds |-> adds]
    BY DEF Edited, new, n, left, adds, AddsOf, NodeAt, FileRow
<1> HIDE DEF left
<1>4. /\ Len(adds) = l + left /\ l \in {0, 1}
      /\ \A j \in 1 .. left : adds[l + j] = NodeAt(new, left - j)
  <2>1. left \in Nat
      BY <1>0, <1>2
  <2>2. l \in {0, 1}
      BY DEF FileFirst
  <2> QED
      BY <2>1, <2>2, EditAdds
<1> HIDE DEF adds, l
<1>5. Len(adds) \in Nat
    BY <1>0, <1>2, <1>4
<1>6. Opens(InsertAll(rws, adds), HashOf(new[0]))
  <2>1. CASE left = 0
    <3>1. new[0] = Empty
        BY <1>0, <1>2, <2>1
    <3> QED
        BY <3>1, EmptyHash DEF Opens
  <2>2. CASE left # 0
    <3>1. left \in 1 .. left /\ left - left = 0 /\ Len(adds) \in 1 .. Len(adds) /\ Len(adds) = l + left
        BY <1>0, <1>2, <1>4, <2>2
    <3>2. adds[l + left] = NodeAt(new, left - left)
        BY <1>4, <3>1
    <3>3. adds[Len(adds)].hash = HashOf(new[0])
        BY <3>1, <3>2 DEF NodeAt
    <3>4. PICK after : /\ \A i \in 1 .. Len(adds) : after[i] = Insert(after[i - 1], adds[i])
                       /\ InsertAll(rws, adds) = after[Len(adds)]
        BY <1>5, InsertsOneByOne
    <3>5. adds[Len(adds)].hash \in DOMAIN InsertAll(rws, adds)
      <4> DEFINE last == adds[Len(adds)]
                 was == after[Len(adds) - 1]
      <4>1. InsertAll(rws, adds) = Insert(was, last)
          BY <3>1, <3>4
      <4> HIDE DEF last, was
      <4>2. last.hash \in DOMAIN Insert(was, last)
          BY DEF Insert
      <4> QED
          BY <4>1, <4>2 DEF last
    <3> QED
        BY <3>3, <3>5 DEF Opens
  <2> QED
      BY <2>1, <2>2
<1> QED
    BY <1>3, <1>5, <1>6

\* So can the tree after a change that could be applied.
LEMMA ChangeOpens ==
    ASSUME NEW rws, NEW root, Opens(rws, root), NEW c, Len(c.path) \in Nat \ {0}
    PROVE  LET e == EditOf(rws, root, c)
           IN  /\ e.answer = "ok" => /\ Opens(InsertAll(rws, e.adds), e.root)
                                     /\ Extends(InsertAll(rws, e.adds), rws)
               /\ e.answer # "ok" => e.answer \in {"path not found", "entry exit", "blob must be leaf"}
<1> DEFINE p == c.path
           e == EditOf(rws, root, c)
           Answers(x) == x = Does(Edited(rws, root, p, NoEntry)) \/ x = Does(Edited(rws, root, p, File(c.to.hash)))
           Bad == {"path not found", "entry exit", "blob must be leaf"}
<1>1. Answers(e) \/ \E why \in Bad : e = Fails(why)
  <2> DEFINE add == AddLeaf(rws, root, p, c.to.hash)
             del == RemoveEntry(rws, root, p)
             rep == ReplaceLeaf(rws, root, p, c.to.hash)
  <2>1. e = add \/ e = del \/ e = rep
      BY DEF EditOf
  <2>2. Answers(add) \/ \E why \in Bad : add = Fails(why)
      BY DEF AddLeaf
  <2>3. Answers(del) \/ \E why \in Bad : del = Fails(why)
      BY DEF RemoveEntry
  <2>4. Answers(rep) \/ \E why \in Bad : rep = Fails(why)
      BY DEF ReplaceLeaf
  <2> HIDE DEF add, del, rep, e, Answers, Bad
  <2> QED
      BY <2>1, <2>2, <2>3, <2>4
<1> HIDE DEF e
<1>2. CASE Answers(e)
  <2>1. PICK x : e = Does(Edited(rws, root, p, x))
      BY <1>2
  <2>2. e.answer = "ok" /\ e.adds = Edited(rws, root, p, x).adds /\ e.root = Edited(rws, root, p, x).root
      BY <2>1 DEF Does
  <2>3. Len(e.adds) \in Nat /\ Opens(InsertAll(rws, e.adds), e.root)
      BY <2>2, EditOpens
  <2>4. Extends(InsertAll(rws, e.adds), rws)
      BY <2>3, InsertAllExtends
  <2> QED
      BY <2>2, <2>3, <2>4 DEF e
<1>3. CASE \E why \in Bad : e = Fails(why)
  <2>1. PICK why \in Bad : e = Fails(why)
      BY <1>3
  <2>2. e.answer = why
      BY <2>1 DEF Fails
  <2>3. e.answer # "ok" /\ e.answer \in {"path not found", "entry exit", "blob must be leaf"}
      BY <2>2
  <2> QED
      BY <2>3 DEF e
<1> QED
    BY <1>1, <1>2, <1>3

\* Rows that are added change no tree that is there, whatever they are.
LEMMA TreeExtends ==
    ASSUME NoCollision, NEW rws, RowsSound(rws), NEW root, DirIn(DOMAIN rws, root), NEW t, Extends(t, rws)
    PROVE  PathsIn(t, root) = PathsIn(rws, root) /\ Files(t, root) = Files(rws, root)
<1> DEFINE E(k) == Entries(rws, root, k)
           F(f) == [k \in 0 .. MaxDepth |-> IF k = 0 THEN {<<>>} ELSE Deeper(t, root, f[k - 1])]
           g == [k \in 0 .. MaxDepth |-> E(k)]
           level == CHOOSE f : f = F(f)
<1>0. MaxDepth \in Nat
    BY WorkTreeAssumption
<1>1. \A p \in Seq(Names) : EntryAt(t, root, p) = EntryAt(rws, root, p)
  <2> TAKE p \in Seq(Names)
  <2>1. Len(p) \in Nat
      OBVIOUS
  <2> QED
      BY <2>1, EntryExtends
<1>2. \A k \in Nat : Deeper(t, root, E(k)) = E(k + 1)
  <2> TAKE k \in Nat
  <2>1. ASSUME NEW p \in {q \in E(k) : EntryAt(rws, root, q).isDir}
        PROVE  Lower(t, root, p) = Lower(rws, root, p)
    <3> DEFINE e == EntryAt(rws, root, p)
    <3>1. p \in Seq(Names) /\ e # NoEntry /\ e.isDir
        BY DEF Entries
    <3>2. EntryIn(DOMAIN rws, e)
      <4>1. Len(p) \in Nat /\ Len(p) \in 0 .. Len(p)
          BY <3>1
      <4> QED
          BY <4>1, PathIn DEF EntryAt
    <3> HIDE DEF e
    <3>3. e.hash = Empty \/ e.hash \in DOMAIN rws
        BY <3>1, <3>2 DEF EntryIn, DirIn, File
    <3>4. Kids(t, e.hash) = Kids(rws, e.hash)
        BY <3>3 DEF Kids, Extends
    <3> QED
        BY <1>1, <3>1, <3>4 DEF Lower, e
  <2>2. {q \in E(k) : EntryAt(t, root, q).isDir} = {q \in E(k) : EntryAt(rws, root, q).isDir}
      BY <1>1 DEF Entries
  <2>3. Deeper(t, root, E(k)) = Deeper(rws, root, E(k))
      BY <2>1, <2>2 DEF Deeper
  <2> QED
      BY <2>3, EntriesDeeper
<1>3. E(0) = {<<>>}
    BY RootEntry
<1> HIDE DEF E
<1>4. g = F(g)
  <2>1. ASSUME NEW k \in 0 .. MaxDepth, k # 0 PROVE g[k] = Deeper(t, root, g[k - 1])
    <3>1. k - 1 \in Nat /\ (k - 1) + 1 = k /\ k - 1 \in 0 .. MaxDepth
        BY <1>0, <2>1
    <3>2. E((k - 1) + 1) = Deeper(t, root, E(k - 1))
        BY <1>2, <3>1
    <3> QED
        BY <3>1, <3>2
  <2>2. g[0] = {<<>>}
      BY <1>0, <1>3
  <2>3. g = [k \in 0 .. MaxDepth |-> g[k]]
      OBVIOUS
  <2> HIDE DEF g
  <2> QED
      BY <2>1, <2>2, <2>3
<1>5. level = F(level)
  <2>1. \E f : f = F(f)
      BY <1>4
  <2> HIDE DEF F
  <2> QED
      BY <2>1
<1>6. PathsIn(t, root) = UNION {level[k] : k \in 1 .. MaxDepth}
    BY DEF PathsIn, Deeper, Lower
<1> HIDE DEF level, g
<1>7. \A k \in 0 .. MaxDepth : level[k] = E(k)
  <2> DEFINE T == {k \in Nat : k <= MaxDepth => level[k] = E(k)}
  <2>1. 0 \in T
      BY <1>0, <1>3, <1>5
  <2>2. ASSUME NEW k \in Nat, k \in T PROVE k + 1 \in T
    <3> SUFFICES ASSUME k + 1 <= MaxDepth PROVE level[k + 1] = E(k + 1)
        OBVIOUS
    <3>1. k + 1 \in 0 .. MaxDepth /\ (k + 1) - 1 = k /\ k + 1 # 0
        BY <1>0
    <3>2. level[k + 1] = Deeper(t, root, level[k])
        BY <1>5, <3>1
    <3>3. level[k] = E(k)
        BY <1>0, <2>2
    <3> QED
        BY <1>2, <3>2, <3>3
  <2> HIDE DEF T
  <2>3. Nat \subseteq T
      BY <2>1, <2>2, SetInduction
  <2> QED
      BY <2>3 DEF T
<1>8. PathsIn(t, root) = PathsIn(rws, root)
  <2>1. PathsIn(t, root) = UNION {E(k) : k \in 1 .. MaxDepth}
      BY <1>0, <1>6, <1>7
  <2>2. UNION {E(k) : k \in 1 .. MaxDepth} =
            {p \in Seq(Names) : Len(p) \in 1 .. MaxDepth /\ EntryAt(rws, root, p) # NoEntry}
      BY DEF E, Entries
  <2> QED
      BY <2>1, <2>2, PathsAre
<1>9. \A p \in PathsIn(rws, root) : EntryAt(t, root, p) = EntryAt(rws, root, p)
    BY <1>1, PathsAre
<1> QED
    BY <1>8, <1>9 DEF Files

\* Nor does it make or unmake renamed directories.
LEMMA RenamedExtends ==
    ASSUME NoCollision, NEW rws, RowsSound(rws), NEW t, Extends(t, rws),
           NEW from, DirIn(DOMAIN rws, from), NEW to, DirIn(DOMAIN rws, to)
    PROVE  OnlyRenamed(t, from, to) = OnlyRenamed(rws, from, to)
<1> DEFINE P == PathsIn(rws, from) \cap PathsIn(rws, to)
           a(p) == EntryAt(rws, from, p)
           b(p) == EntryAt(rws, to, p)
<1>1. PathsIn(t, from) = PathsIn(rws, from) /\ PathsIn(t, to) = PathsIn(rws, to)
    BY TreeExtends
<1>2. ASSUME NEW p \in P
      PROVE  /\ EntryAt(t, from, p) = a(p) /\ EntryAt(t, to, p) = b(p)
             /\ a(p).isDir /\ b(p).isDir =>
                  (SameChildren(t, a(p).hash, b(p).hash) <=> SameChildren(rws, a(p).hash, b(p).hash))
  <2>1. Len(p) \in Nat
      BY PathsAre
  <2>2. EntryAt(t, from, p) = a(p) /\ EntryAt(t, to, p) = b(p)
      BY <2>1, EntryExtends
  <2>3. EntryIn(DOMAIN rws, a(p)) /\ EntryIn(DOMAIN rws, b(p))
      BY EntryKind
  <2> HIDE DEF a, b
  <2>4. \A e : EntryIn(DOMAIN rws, e) /\ e.isDir => Kids(t, e.hash) = Kids(rws, e.hash)
    <3> SUFFICES ASSUME NEW e, EntryIn(DOMAIN rws, e), e.isDir PROVE Kids(t, e.hash) = Kids(rws, e.hash)
        OBVIOUS
    <3>1. e # NoEntry
        BY DEF NoEntry
    <3>2. e.hash = Empty \/ e.hash \in DOMAIN rws
        BY <3>1 DEF EntryIn, DirIn
    <3> QED
        BY <3>2 DEF Kids, Extends
  <2>5. a(p).isDir /\ b(p).isDir => /\ ChildHashes(t, a(p).hash) = ChildHashes(rws, a(p).hash)
                                    /\ ChildHashes(t, b(p).hash) = ChildHashes(rws, b(p).hash)
    <3>1. \A h : Kids(t, h) = Kids(rws, h) => ChildHashes(t, h) = ChildHashes(rws, h)
        BY Zenon DEF ChildHashes
    <3> QED
        BY <2>3, <2>4, <3>1
  <2> QED
      BY <2>2, <2>5 DEF SameChildren
<1>3. OnlyRenamed(t, from, to) =
          {p \in P : /\ EntryAt(t, from, p).isDir /\ EntryAt(t, to, p).isDir
                     /\ EntryAt(t, from, p) # EntryAt(t, to, p)
                     /\ SameChildren(t, EntryAt(t, from, p).hash, EntryAt(t, to, p).hash)}
    BY <1>1 DEF OnlyRenamed
<1>4. OnlyRenamed(rws, from, to) =
          {p \in P : a(p).isDir /\ b(p).isDir /\ a(p) # b(p) /\ SameChildren(rws, a(p).hash, b(p).hash)}
    BY DEF OnlyRenamed
<1> HIDE DEF P, a, b
<1> QED
    BY <1>2, <1>3, <1>4
=============================================================================
