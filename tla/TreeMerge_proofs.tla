-------------------------- MODULE TreeMerge_proofs --------------------------
(***************************************************************************)
(* Theorems about TreeMerge, for all trees of the Triples and Crosses:     *)
(* what the comparison lists, what a merge keeps and why one fails.        *)
(*                                                                         *)
(* A path that both sides changed is at the head of both lists at once, so *)
(* no change finds another file at its path than the base had there, and   *)
(* one that cannot be applied is barred by a path of one of the trees.     *)
(***************************************************************************)
EXTENDS TreeMerge, TreeDiff_proofs

----------------------------------------------------------------------------
(* The trees a merge starts with.                                          *)

\* The hashes one level lower.
Under1(L) == UNION {{h[n] : n \in DOMAIN h} : h \in L \ Blobs}

\* Each level lists what the directories of the one above it hold.
LEMMA LevelsAre ==
    ASSUME NEW roots
    PROVE  /\ LevelsOf(roots)[0] = roots \ {Empty}
           /\ \A k \in 1 .. MaxDepth : LevelsOf(roots)[k] = Under1(LevelsOf(roots)[k - 1])
<1> DEFINE top == roots \ {Empty}
           F(n, f) == [k \in 0 .. n |-> IF k = 0 THEN top ELSE Under1(f[k - 1])]
           T == {n \in Nat : \E f : f = F(n, f)}
<1>1. 0 \in T
  <2> DEFINE f == [i \in 0 .. 0 |-> top]
  <2>1. f = F(0, f)
      OBVIOUS
  <2> QED
      BY <2>1
<1>2. ASSUME NEW n \in T PROVE n + 1 \in T
  <2>1. PICK f : f = F(n, f)
      BY <1>2
  <2> DEFINE g == [i \in 0 .. n + 1 |-> IF i \in 0 .. n THEN f[i] ELSE Under1(f[n])]
  <2>2. g = F(n + 1, g)
    <3>1. ASSUME NEW i \in 0 .. n + 1, i # 0 PROVE i - 1 \in 0 .. n /\ g[i - 1] = f[i - 1]
        BY <3>1
    <3>2. ASSUME NEW i \in 0 .. n PROVE f[i] = IF i = 0 THEN top ELSE Under1(f[i - 1])
        BY <2>1
    <3> HIDE DEF Under1, top
    <3> QED
        BY <3>1, <3>2
  <2> HIDE DEF g
  <2>3. \E h : h = F(n + 1, h)
      BY <2>2
  <2>4. n + 1 \in Nat
      OBVIOUS
  <2> HIDE DEF F
  <2> QED
      BY <2>3, <2>4
<1>3. MaxDepth \in Nat \ {0}
    BY WorkTreeAssumption
<1>4. MaxDepth \in T
  <2> HIDE DEF T
  <2> QED
      BY <1>1, <1>2, <1>3, SetInduction
<1>5. \E f : f = F(MaxDepth, f)
    BY <1>4
<1>6. LevelsOf(roots) = F(MaxDepth, LevelsOf(roots))
    BY <1>5 DEF LevelsOf, Under1
<1> DEFINE level == LevelsOf(roots)
<1> HIDE DEF level
<1>7. level = F(MaxDepth, level)
    BY <1>6 DEF level
<1>8. level[0] = top
  <2>1. 0 \in 0 .. MaxDepth
      BY <1>3
  <2> QED
      BY <1>7, <2>1
<1>9. \A k \in 1 .. MaxDepth : level[k] = Under1(level[k - 1])
  <2>1. \A k \in 1 .. MaxDepth : k \in 0 .. MaxDepth /\ k # 0
      BY <1>3
  <2> QED
      BY <1>7, <2>1
<1> QED
    BY <1>8, <1>9 DEF level

\* The rows that a run starts with are the nodes of trees.
LEMMA RowsAreTrees ==
    ASSUME NoCollision, NEW roots, AreTrees(roots)
    PROVE  /\ RowsSound(RowsOf(roots))
           /\ \A h \in roots : DirIn(DOMAIN RowsOf(roots), h) /\ h \in Deep[MaxDepth]
<1> DEFINE L(k) == LevelsOf(roots)[k]
           rws == RowsOf(roots)
<1>0. MaxDepth \in Nat \ {0}
    BY WorkTreeAssumption
<1>1. L(0) = roots \ {Empty} /\ \A k \in 1 .. MaxDepth : L(k) = Under1(L(k - 1))
    BY LevelsAre
<1>2. /\ roots \cap Blobs = {}
      /\ \A k \in 0 .. MaxDepth : \A h \in L(k) \ Blobs :
            /\ k < MaxDepth
            /\ h = [n \in DOMAIN h |-> h[n]] /\ h # Empty
            /\ DOMAIN h \subseteq Nat \ {0} /\ IsFiniteSet(DOMAIN h)
    BY DEF AreTrees
<1>3. /\ DOMAIN rws = UNION {L(k) : k \in 0 .. MaxDepth}
      /\ \A h \in DOMAIN rws : rws[h] = IF h \in Blobs THEN BlobRow ELSE TreeRow(NodeOf(h))
    BY DEF RowsOf
<1> HIDE DEF L, rws
<1>4. \A k \in 0 .. MaxDepth - 1 : \A h \in L(k) \ Blobs : \A n \in DOMAIN h : h[n] \in L(k + 1)
  <2> TAKE k \in 0 .. MaxDepth - 1
  <2>1. k + 1 \in 1 .. MaxDepth /\ (k + 1) - 1 = k
      BY <1>0
  <2>2. L(k + 1) = Under1(L(k))
      BY <1>1, <2>1
  <2> QED
      BY <2>2 DEF Under1
<1>5. ASSUME NEW k \in 0 .. MaxDepth, NEW h \in L(k)
      PROVE  NodeRow(h, rws[h]) /\ Listed(rws[h].kids) \subseteq DOMAIN rws
  <2>0. h \in DOMAIN rws
      BY <1>3
  <2>1. CASE h \in Blobs
    <3>1. rws[h] = BlobRow /\ rws[h].kids = Empty /\ DOMAIN Empty = {}
        BY <1>3, <2>0, <2>1 DEF BlobRow, Empty
    <3> QED
        BY <2>1, <3>1 DEF NodeRow, Listed
  <2>2. CASE h \notin Blobs
    <3> DEFINE kids == NodeOf(h)
    <3>1. rws[h] = TreeRow(kids) /\ TreeRow(kids).type = "tree" /\ TreeRow(kids).kids = kids
        BY <1>3, <2>0, <2>2 DEF TreeRow
    <3>2. /\ k < MaxDepth /\ h = [n \in DOMAIN h |-> h[n]] /\ h # Empty
          /\ DOMAIN h \subseteq Nat \ {0} /\ IsFiniteSet(DOMAIN h)
        BY <1>2, <2>2
    <3>3. /\ DOMAIN kids = DOMAIN h /\ kids = [n \in DOMAIN kids |-> kids[n]]
          /\ \A n \in DOMAIN h : kids[n].hash = h[n] /\ EntryRight(kids[n])
        BY DEF NodeOf, EntryRight, File, Dir
    <3>4. DOMAIN h # {}
      <4> SUFFICES ASSUME DOMAIN h = {} PROVE FALSE
          OBVIOUS
      <4>1. h = [n \in {} |-> h[n]]
          BY <3>2
      <4>2. [n \in {} |-> h[n]] = Empty
          BY DEF Empty
      <4> QED
          BY <3>2, <4>1, <4>2
    <3> HIDE DEF kids
    <3>5. HashOf(kids) = h
      <4>1. HashOf(kids) = [n \in DOMAIN h |-> h[n]]
          BY <3>3 DEF HashOf
      <4> QED
          BY <3>2, <4>1
    <3>6. KidsRight(kids)
        BY <3>2, <3>3 DEF KidsRight, Names
    <3>7. Listed(kids) \subseteq DOMAIN rws
      <4>1. k \in 0 .. MaxDepth - 1 /\ k + 1 \in 0 .. MaxDepth
          BY <1>0, <3>2
      <4>2. \A n \in DOMAIN h : h[n] \in L(k + 1)
          BY <1>4, <2>2, <4>1
      <4> QED
          BY <1>3, <3>3, <4>1, <4>2 DEF Listed
    <3> QED
        BY <3>1, <3>3, <3>4, <3>5, <3>6, <3>7 DEF NodeRow
  <2> QED
      BY <2>1, <2>2
<1>6. RowsSound(rws)
    BY <1>3, <1>5 DEF RowsSound
<1>7. ASSUME NEW h \in roots PROVE DirIn(DOMAIN rws, h)
  <2>1. h # Empty => h \in L(0) /\ 0 \in 0 .. MaxDepth
      BY <1>0, <1>1
  <2> QED
      BY <1>2, <1>3, <2>1 DEF DirIn
<1> DEFINE T == {j \in Nat : j <= MaxDepth => \A h \in L(MaxDepth - j) \ Blobs : h \in Deep[j]}
<1>8. 0 \in T
  <2>1. MaxDepth - 0 \in 0 .. MaxDepth /\ ~(MaxDepth - 0 < MaxDepth)
      BY <1>0
  <2> QED
      BY <1>2, <2>1
<1>9. ASSUME NEW j \in Nat, j \in T PROVE j + 1 \in T
  <2> SUFFICES ASSUME j + 1 <= MaxDepth, NEW h \in L(MaxDepth - (j + 1)) \ Blobs PROVE h \in Deep[j + 1]
      OBVIOUS
  <2> DEFINE k == MaxDepth - (j + 1)
  <2>1. k \in 0 .. MaxDepth - 1 /\ k \in 0 .. MaxDepth /\ k + 1 = MaxDepth - j /\ j <= MaxDepth /\ j \in 0 .. MaxDepth - 1
      BY <1>0
  <2>2. \A g \in L(MaxDepth - j) \ Blobs : g \in Deep[j]
      BY <1>9, <2>1
  <2>3. h = [n \in DOMAIN h |-> h[n]] /\ DOMAIN h \subseteq Nat \ {0}
      BY <1>2, <2>1
  <2>4. \A n \in DOMAIN h : h[n] \in L(MaxDepth - j)
      BY <1>4, <2>1
  <2>5. \A n \in DOMAIN h : h[n] \in Blobs \cup Deep[j]
      BY <2>2, <2>4
  <2> DEFINE N == DOMAIN h
             S == Blobs \cup Deep[j]
  <2>6. h \in [N -> S] /\ N \in SUBSET Names
      BY <2>3, <2>5 DEF Names
  <2> HIDE DEF N, S
  <2>7. h \in UNION {[M -> S] : M \in SUBSET Names}
      BY <2>6
  <2>8. h \in HashesOf(Deep[j])
      BY <2>7 DEF HashesOf, S
  <2> QED
      BY <2>1, <2>8, DeepIs
<1>10. MaxDepth \in T
  <2> HIDE DEF T
  <2> QED
      BY <1>0, <1>8, <1>9, SetInduction
<1>11. ASSUME NEW h \in roots PROVE h \in Deep[MaxDepth]
  <2>1. CASE h = Empty
      BY <2>1, EmptyRoot
  <2>2. CASE h # Empty
    <3>1. h \in L(MaxDepth - MaxDepth) \ Blobs /\ MaxDepth <= MaxDepth
        BY <1>0, <1>1, <1>2, <2>2
    <3> QED
        BY <1>10, <3>1
  <2> QED
      BY <2>1, <2>2
<1> QED
    BY <1>6, <1>7, <1>11 DEF rws

----------------------------------------------------------------------------
(* The inductive invariant.                                                *)

\* What the three trees of the merge and the merged one hold at a path.
Was(p)    == FileAt(rows, merging.base, p)
Source(p) == FileAt(rows, merging.source, p)
Target(p) == FileAt(rows, merging.target, p)
Is(p)     == FileAt(rows, cur, p)

\* What the merged tree may hold there.
Wanted(p) ==
    IF Source(p) = Was(p) \/ Source(p) = Target(p) THEN {Target(p)}
    ELSE IF Target(p) = Was(p) THEN {Source(p)}
    ELSE IF after = <<>> THEN {Source(p), Target(p)} ELSE {}

\* The trees that are still to be merged.
Roots == {merging.base, merging.source, merging.target}
             \cup (IF after = <<>> THEN {} ELSE {after[1], after[2]})

\* Their nodes are there, and were before the merge stored any.
Based(was) ==
    /\ RowsSound(was) /\ Extends(rows, was)
    /\ \A h \in Roots : DirIn(DOMAIN was, h) /\ h \in Deep[MaxDepth]

\* The changes of a list are some of those from the base to a tree.
Todo(s, root) ==
    /\ \E V : s \in Seq(V)
    /\ ByPath(s)
    /\ \A i \in 1 .. Len(s) :
          LET c == s[i]
          IN  /\ c.path \in Seq(Names) /\ Len(c.path) \in 1 .. MaxDepth
              /\ c.from = Was(c.path) /\ c.to = FileAt(rows, root, c.path) /\ c.from # c.to

\* A path that both sides changed is still to come from both or from none; of one
\* that is still to come the merged tree holds what the base does, and of any other
\* what it may.
Halfway ==
    /\ Todo(left, merging.source) /\ Todo(right, merging.target)
    /\ \A p : Source(p) # Was(p) /\ Target(p) # Was(p) => (p \in PathsOf(left) <=> p \in PathsOf(right))
    /\ \A p : IF p \in PathsOf(left) \cup PathsOf(right) THEN Is(p) = Was(p) ELSE Is(p) \in Wanted(p)

Failures == Phases \ {"start", "apply", "done", "conflict"}

\* A merge in which no directory is only renamed in.
Plain ==
    /\ RowsSound(rows)
    /\ phase \in {"apply", "done"} => DirIn(DOMAIN rows, cur) /\ cur \in Deep[MaxDepth] /\ Halfway
    /\ phase = "done" => left = <<>> /\ right = <<>>
    /\ phase = "conflict" => \E p : Source(p) # Was(p) /\ Target(p) # Was(p) /\ Source(p) # Target(p)
    /\ phase \in Failures => \E p, q \in AllPaths : IsStrictPrefix(p, q)

MergeInv ==
    /\ phase \in Phases /\ Opens(rows, cur)
    /\ \A s \in {left, right} : \E V : s \in Seq(V) /\ \A c \in V : Len(c.path) \in Nat \ {0}
    /\ \E was : Based(was)
    /\ after # <<>> => ~Renamed
    /\ phase = "conflict" => after # <<>>
    /\ phase = "start" => RowsSound(rows)
    /\ ~Renamed => Plain

\* Storing nodes changes none of the trees that are merged.
LEMMA RootsStay ==
    ASSUME NoCollision, NEW was, Based(was), Extends(rows', rows), UNCHANGED <<merging, after>>
    PROVE  /\ Based(was)' /\ (Renamed' <=> Renamed)
           /\ \A h \in Roots : Files(rows', h) = Files(rows, h)
           /\ \A h \in Roots : \A q : FileAt(rows', h, q) = FileAt(rows, h, q)
<1>1. Extends(rows', was)
    BY DEF Based, Extends
<1>2. Roots' = Roots
    BY DEF Roots
<1>3. Based(was)'
    BY <1>1, <1>2 DEF Based
<1>4. ASSUME NEW h \in Roots PROVE Files(rows', h) = Files(rows, h)
    BY <1>1, TreeExtends DEF Based
<1>5. merging.base \in Roots /\ merging.source \in Roots /\ merging.target \in Roots
    BY DEF Roots
<1>6. /\ OnlyRenamed(rows', merging.base, merging.source) = OnlyRenamed(rows, merging.base, merging.source)
      /\ OnlyRenamed(rows', merging.base, merging.target) = OnlyRenamed(rows, merging.base, merging.target)
    BY <1>1, <1>5, RenamedExtends DEF Based
<1>7. Renamed' <=> Renamed
    BY <1>6 DEF Renamed
<1>8. \A h \in Roots : \A q : FileAt(rows', h, q) = FileAt(rows, h, q)
    BY <1>4 DEF FileAt
<1> QED
    BY <1>3, <1>4, <1>7, <1>8

----------------------------------------------------------------------------
(* One change applied.                                                     *)

\* What the trees of a merge hold at a path.
LEMMA RootsHold ==
    ASSUME NoCollision, NEW was, Based(was), RowsSound(rows)
    PROVE  /\ \A h \in Roots : DirIn(DOMAIN rows, h) /\ h \in Deep[MaxDepth]
           /\ merging.base \in Roots /\ merging.source \in Roots /\ merging.target \in Roots
           /\ \A p : /\ Leaf(Was(p)) /\ Leaf(Source(p)) /\ Leaf(Target(p))
                     /\ p \in AllPaths <=> Was(p) # NoEntry \/ Source(p) # NoEntry \/ Target(p) # NoEntry
<1>1. \A h \in Roots : DirIn(DOMAIN rows, h) /\ h \in Deep[MaxDepth]
    BY DEF Based, Extends, DirIn
<1>2. merging.base \in Roots /\ merging.source \in Roots /\ merging.target \in Roots
    BY DEF Roots
<1>3. \A h \in Roots : \A p : /\ Leaf(FileAt(rows, h, p))
                              /\ p \in DOMAIN Files(rows, h) <=> FileAt(rows, h, p) # NoEntry
    BY <1>1, FileAtIs DEF Leaf
<1>4. AllPaths = DOMAIN Files(rows, merging.base) \cup DOMAIN Files(rows, merging.source)
                     \cup DOMAIN Files(rows, merging.target)
    BY DEF AllPaths, BaseFiles, SourceFiles, TargetFiles
<1> QED
    BY <1>1, <1>2, <1>3, <1>4 DEF Was, Source, Target

\* Whatever the trees, an applied change leaves a tree that can be opened.
LEMMA ApplyOpens ==
    ASSUME NoCollision, MergeInv, phase = "apply", NEW c, Len(c.path) \in Nat \ {0},
           NEW l, NEW r, Apply(c, l, r)
    PROVE  /\ phase' \in Phases \ {"start", "done", "conflict"} /\ Opens(rows', cur') /\ Extends(rows', rows)
           /\ UNCHANGED <<merging, after>>
<1> DEFINE e == EditOf(rows, cur, c)
<1>1. e = Edit(c)
    BY DEF Edit, EditOf
<1>2. Opens(rows, cur)
    BY DEF MergeInv
<1>3. /\ e.answer = "ok" => /\ Opens(InsertAll(rows, e.adds), e.root)
                            /\ Extends(InsertAll(rows, e.adds), rows)
      /\ e.answer # "ok" => e.answer \in {"path not found", "entry exit", "blob must be leaf"}
    BY <1>2, ChangeOpens
<1>4. /\ IF e.answer = "ok"
         THEN cur' = e.root /\ rows' = InsertAll(rows, e.adds) /\ UNCHANGED phase
         ELSE phase' = e.answer /\ UNCHANGED <<cur, rows>>
      /\ UNCHANGED <<merging, after>>
    BY <1>1 DEF Apply, Stay
<1> HIDE DEF e
<1>5. CASE e.answer = "ok"
    BY <1>3, <1>4, <1>5 DEF Phases
<1>6. CASE e.answer # "ok"
  <2>1. Extends(rows', rows)
      BY <1>4, <1>6 DEF Extends
  <2> QED
      BY <1>2, <1>3, <1>4, <1>6, <2>1 DEF Phases
<1> QED
    BY <1>5, <1>6

\* What an applied change does, if the lists are kept in step.
LEMMA ApplyPlain ==
    ASSUME NoCollision, MergeInv, ~Renamed, phase = "apply",
           NEW c, c.path \in Seq(Names), Len(c.path) \in 1 .. MaxDepth,
           c.from = Was(c.path), c.from # c.to, c.to \in Wanted(c.path), Leaf(c.to),
           NEW l, NEW r, Apply(c, l, r),
           Todo(left', merging.source), Todo(right', merging.target),
           PathsOf(left) \cup PathsOf(right) = {c.path} \cup PathsOf(left') \cup PathsOf(right'),
           c.path \notin PathsOf(left') \cup PathsOf(right'),
           \A p : Source(p) # Was(p) /\ Target(p) # Was(p) => (p \in PathsOf(left') <=> p \in PathsOf(right'))
    PROVE  Plain'
<1> DEFINE e == EditOf(rows, cur, c)
           t == InsertAll(rows, e.adds)
<1>1. e = Edit(c)
    BY DEF Edit, EditOf
<1>2. Plain
    BY DEF MergeInv
<1>3. RowsSound(rows) /\ DirIn(DOMAIN rows, cur) /\ cur \in Deep[MaxDepth] /\ Halfway
    BY <1>2 DEF Plain
<1>4. PICK was : Based(was)
    BY DEF MergeInv
<1>5. c.from = Is(c.path)
    BY <1>3 DEF Halfway
<1>6. /\ e.answer = "ok" =>
              /\ RowsSound(t) /\ Extends(t, rows)
              /\ DirIn(DOMAIN t, e.root) /\ e.root \in Deep[MaxDepth]
              /\ FileAt(t, e.root, c.path) = c.to
              /\ \A q : q # c.path => FileAt(t, e.root, q) = FileAt(rows, cur, q)
      /\ e.answer # "ok" =>
              /\ e.answer \in {"blob must be leaf", "entry exit"} /\ c.from = NoEntry
              /\ \E q \in DOMAIN Files(rows, cur) : IsStrictPrefix(q, c.path) \/ IsStrictPrefix(c.path, q)
    BY <1>3, <1>5, ChangeApplies DEF Is
<1>7. /\ IF e.answer = "ok"
         THEN cur' = e.root /\ rows' = t /\ UNCHANGED phase
         ELSE phase' = e.answer /\ UNCHANGED <<cur, rows>>
      /\ UNCHANGED <<merging, after>>
    BY <1>1 DEF Apply, Stay
<1> HIDE DEF e, t
<1>8. Extends(rows', rows)
    BY <1>6, <1>7 DEF Extends
<1>9. /\ \A h \in Roots : Files(rows', h) = Files(rows, h)
      /\ \A h \in Roots : \A q : FileAt(rows', h, q) = FileAt(rows, h, q)
    BY <1>4, <1>7, <1>8, RootsStay
<1>10. /\ merging.base \in Roots /\ merging.source \in Roots /\ merging.target \in Roots
       /\ \A p : p \in AllPaths <=> Was(p) # NoEntry \/ Source(p) # NoEntry \/ Target(p) # NoEntry
    BY <1>3, <1>4, RootsHold
<1>11. AllPaths' = AllPaths
    BY <1>7, <1>9, <1>10 DEF AllPaths, BaseFiles, SourceFiles, TargetFiles
<1>12. CASE e.answer = "ok"
  <2>1. RowsSound(rows') /\ DirIn(DOMAIN rows', cur') /\ cur' \in Deep[MaxDepth] /\ phase' = "apply"
      BY <1>6, <1>7, <1>12
  <2>2. \A q : FileAt(rows', cur', q) = IF q = c.path THEN c.to ELSE Is(q)
      BY <1>6, <1>7, <1>12 DEF Is
  <2>3. \A q : /\ FileAt(rows', merging'.base, q) = Was(q)
               /\ FileAt(rows', merging'.source, q) = Source(q)
               /\ FileAt(rows', merging'.target, q) = Target(q)
      BY <1>7, <1>9, <1>10 DEF Was, Source, Target
  <2>4. Todo(left, merging.source)' /\ Todo(right, merging.target)'
    <3>1. \A q : /\ FileAt(rows', merging'.source, q) = FileAt(rows, merging.source, q)
                 /\ FileAt(rows', merging'.target, q) = FileAt(rows, merging.target, q)
                 /\ FileAt(rows', merging'.base, q) = FileAt(rows, merging.base, q)
        BY <1>7, <1>9, <1>10
    <3> QED
        BY <3>1, Zenon DEF Todo, Was
  <2>5. \A p : FileAt(rows', merging'.source, p) # FileAt(rows', merging'.base, p)
                   /\ FileAt(rows', merging'.target, p) # FileAt(rows', merging'.base, p)
                   => (p \in PathsOf(left') <=> p \in PathsOf(right'))
      BY <2>3
  <2>6. \A p : IF p \in PathsOf(left') \cup PathsOf(right') THEN FileAt(rows', cur', p) = Was(p)
               ELSE FileAt(rows', cur', p) \in Wanted(p)
    <3> SUFFICES ASSUME NEW p
                 PROVE  IF p \in PathsOf(left') \cup PathsOf(right') THEN FileAt(rows', cur', p) = Was(p)
                        ELSE FileAt(rows', cur', p) \in Wanted(p)
        OBVIOUS
    <3>1. IF p \in PathsOf(left) \cup PathsOf(right) THEN Is(p) = Was(p) ELSE Is(p) \in Wanted(p)
        BY <1>3 DEF Halfway
    <3> QED
        BY <2>2, <3>1
  <2>7. \A p : Wanted(p)' = Wanted(p)
      BY <1>7, <2>3 DEF Wanted, Was, Source, Target
  <2>8. Halfway'
      BY <2>3, <2>4, <2>5, <2>6, <2>7 DEF Halfway, Was, Source, Target, Is
  <2> QED
      BY <2>1, <2>8 DEF Plain, Failures
<1>13. CASE e.answer # "ok"
  <2>1. PICK q \in DOMAIN Files(rows, cur) : IsStrictPrefix(q, c.path) \/ IsStrictPrefix(c.path, q)
      BY <1>6, <1>13
  <2>2. Is(q) # NoEntry
      BY <1>3, FileAtIs DEF Is
  <2>3. Is(q) = Was(q) \/ Is(q) = Source(q) \/ Is(q) = Target(q)
    <3>1. Is(q) = Was(q) \/ Is(q) \in Wanted(q)
        BY <1>3 DEF Halfway
    <3> QED
        BY <3>1 DEF Wanted
  <2>4. q \in AllPaths
      BY <1>10, <2>2, <2>3
  <2>5. c.path \in AllPaths
    <3>1. c.to = Source(c.path) \/ c.to = Target(c.path)
        BY DEF Wanted
    <3> QED
        BY <1>10, <3>1
  <2>6. RowsSound(rows') /\ phase' \in {"blob must be leaf", "entry exit"}
      BY <1>3, <1>6, <1>7, <1>13
  <2>7. \E a, b \in AllPaths : IsStrictPrefix(a, b)
      BY <2>1, <2>4, <2>5
  <2>8. \E a, b \in AllPaths' : IsStrictPrefix(a, b)
      BY <1>11, <2>7
  <2> QED
      BY <2>6, <2>8 DEF Plain
<1> QED
    BY <1>12, <1>13

\* The next change of a list and those behind it.
LEMMA NextChange ==
    ASSUME NEW s, NEW root, Todo(s, root), s # <<>>
    PROVE  LET c == Head(s)
           IN  /\ c.path \in Seq(Names) /\ Len(c.path) \in 1 .. MaxDepth
               /\ c.from = Was(c.path) /\ c.to = FileAt(rows, root, c.path) /\ c.from # c.to
               /\ Todo(Tail(s), root)
               /\ PathsOf(s) = {c.path} \cup PathsOf(Tail(s))
               /\ \A p \in PathsOf(Tail(s)) : Before(c.path, p) /\ p # c.path
               /\ \A p \in PathsOf(s) : p \in Seq(Names) /\ FileAt(rows, root, p) # Was(p)
<1> DEFINE Right(c) == /\ c.path \in Seq(Names) /\ Len(c.path) \in 1 .. MaxDepth
                       /\ c.from = Was(c.path) /\ c.to = FileAt(rows, root, c.path) /\ c.from # c.to
<1>1. PICK V : s \in Seq(V)
    BY DEF Todo
<1>2. ByPath(s) /\ \A i \in 1 .. Len(s) : Right(s[i])
    BY DEF Todo
<1>3. /\ Head(s) = s[1] /\ Len(s) \in Nat \ {0}
      /\ Tail(s) \in Seq(V) /\ Len(Tail(s)) = Len(s) - 1
      /\ \A i \in 1 .. Len(s) - 1 : Tail(s)[i] = s[i + 1]
      /\ ByPath(Tail(s))
      /\ PathsOf(s) = {Head(s).path} \cup PathsOf(Tail(s))
      /\ \A p \in PathsOf(Tail(s)) : Before(Head(s).path, p)
    BY <1>1, <1>2, RestInOrder
<1>4. \A p \in PathsOf(s) : p \in Seq(Names) /\ FileAt(rows, root, p) # Was(p)
    BY <1>2 DEF PathsOf
<1> HIDE DEF Right
<1>5. Right(Head(s))
  <2>1. 1 \in 1 .. Len(s)
      BY <1>3
  <2> QED
      BY <1>2, <1>3, <2>1
<1>6. \A i \in 1 .. Len(Tail(s)) : Right(Tail(s)[i])
  <2> TAKE i \in 1 .. Len(Tail(s))
  <2>1. i \in 1 .. Len(s) - 1 /\ i + 1 \in 1 .. Len(s)
      BY <1>3
  <2> QED
      BY <1>2, <1>3, <2>1
<1>7. Todo(Tail(s), root)
    BY <1>3, <1>6 DEF Todo, Right
<1>8. \A p \in PathsOf(Tail(s)) : p # Head(s).path
  <2>1. Head(s).path \in Seq(Nat)
      BY <1>5 DEF Right, Names
  <2>2. ~Before(Head(s).path, Head(s).path)
      BY <2>1, BeforeOrders
  <2> QED
      BY <1>3, <2>2
<1> QED
    BY <1>3, <1>4, <1>5, <1>7, <1>8 DEF Right

\* A change that comes before the other list's next one is not in that list.
LEMMA OnlyHere ==
    ASSUME NEW s, NEW root, Todo(s, root), NEW p \in Seq(Names), s # <<>> => Before(p, Head(s).path)
    PROVE  p \notin PathsOf(s)
<1>1. CASE s = <<>>
    BY <1>1 DEF PathsOf
<1>2. CASE s # <<>>
  <2> DEFINE h == Head(s).path
  <2>1. /\ h \in Seq(Names) /\ PathsOf(s) = {h} \cup PathsOf(Tail(s))
        /\ \A q \in PathsOf(Tail(s)) : Before(h, q)
        /\ \A q \in PathsOf(s) : q \in Seq(Names)
      BY <1>2, NextChange
  <2>2. h \in Seq(Nat) /\ p \in Seq(Nat) /\ Before(p, h)
      BY <1>2, <2>1 DEF Names
  <2> HIDE DEF h
  <2>3. p # h /\ ~Before(h, p)
      BY <2>2, BeforeOrders
  <2> QED
      BY <2>1, <2>3
<1> QED
    BY <1>1, <1>2

\* The rest of a list is as short of its paths.
LEMMA RestNamed ==
    ASSUME NEW s, NEW V, s \in Seq(V), \A c \in V : Len(c.path) \in Nat \ {0}, s # <<>>
    PROVE  /\ Len(Head(s).path) \in Nat \ {0}
           /\ \A takes : Rest(s, takes) \in Seq(V)
    BY DEF Rest

\* An applied change keeps the invariant if it does in a merge without renamed
\* directories.
LEMMA ApplyInv ==
    ASSUME NoCollision, MergeInv, phase = "apply",
           NEW c, (left # <<>> /\ c = Head(left)) \/ (right # <<>> /\ c = Head(right)),
           NEW l, l => left # <<>>, NEW r, r => right # <<>>,
           Apply(c, l, r), ~Renamed => Plain'
    PROVE  MergeInv'
<1>1. \A s \in {left, right} : \E V : s \in Seq(V) /\ \A d \in V : Len(d.path) \in Nat \ {0}
    BY DEF MergeInv
<1>2. Len(c.path) \in Nat \ {0}
    BY <1>1, RestNamed
<1>3. /\ phase' \in Phases \ {"start", "done", "conflict"} /\ Opens(rows', cur') /\ Extends(rows', rows)
      /\ UNCHANGED <<merging, after>>
    BY <1>2, ApplyOpens
<1>4. \A s \in {left', right'} : \E V : s \in Seq(V) /\ \A d \in V : Len(d.path) \in Nat \ {0}
  <2>1. left' = Rest(left, l) /\ right' = Rest(right, r)
      BY DEF Apply
  <2>2. PICK V : left \in Seq(V) /\ \A d \in V : Len(d.path) \in Nat \ {0}
      BY <1>1
  <2>3. PICK W : right \in Seq(W) /\ \A d \in W : Len(d.path) \in Nat \ {0}
      BY <1>1
  <2>4. left' \in Seq(V)
      BY <2>1, <2>2 DEF Rest
  <2>5. right' \in Seq(W)
      BY <2>1, <2>3 DEF Rest
  <2> QED
      BY <2>2, <2>3, <2>4, <2>5
<1>5. PICK was : Based(was)
    BY DEF MergeInv
<1>6. Based(was)' /\ (Renamed' <=> Renamed)
    BY <1>3, <1>5, RootsStay
<1>7. (\E w : Based(w))'
    BY <1>6
<1>8. after' # <<>> => ~Renamed'
    BY <1>3, <1>6 DEF MergeInv
<1> QED
    BY <1>3, <1>4, <1>6, <1>7, <1>8 DEF MergeInv

\* The lists of a plain merge under way.
LEMMA HalfwayThere ==
    ASSUME NoCollision, MergeInv, ~Renamed, phase = "apply"
    PROVE  /\ Todo(left, merging.source) /\ Todo(right, merging.target)
           /\ \A p : Source(p) # Was(p) /\ Target(p) # Was(p) => (p \in PathsOf(left) <=> p \in PathsOf(right))
           /\ \A p : Leaf(Was(p)) /\ Leaf(Source(p)) /\ Leaf(Target(p))
<1>1. RowsSound(rows) /\ Halfway
    BY DEF MergeInv, Plain
<1>2. PICK was : Based(was)
    BY DEF MergeInv
<1>3. \A p : Leaf(Was(p)) /\ Leaf(Source(p)) /\ Leaf(Target(p))
    BY <1>1, <1>2, RootsHold
<1> QED
    BY <1>1, <1>3 DEF Halfway

\* A change of the source alone.
LEMMA TakeLeftInv == ASSUME NoCollision, MergeInv, TakeLeft PROVE MergeInv'
<1> DEFINE c == Head(left)
<1>1. phase = "apply" /\ Leads(left, right) /\ Apply(c, TRUE, FALSE)
    BY DEF TakeLeft
<1>2. left # <<>> /\ (right # <<>> => Before(c.path, Head(right).path))
    BY <1>1 DEF Leads
<1>3. ASSUME ~Renamed PROVE Plain'
  <2>1. /\ Todo(left, merging.source) /\ Todo(right, merging.target)
        /\ \A p : Source(p) # Was(p) /\ Target(p) # Was(p) => (p \in PathsOf(left) <=> p \in PathsOf(right))
        /\ \A p : Leaf(Was(p)) /\ Leaf(Source(p)) /\ Leaf(Target(p))
      BY <1>1, <1>3, HalfwayThere
  <2>2. left' = Tail(left) /\ right' = right
      BY <1>1 DEF Apply, Rest
  <2>3. /\ c.path \in Seq(Names) /\ Len(c.path) \in 1 .. MaxDepth
        /\ c.from = Was(c.path) /\ c.to = Source(c.path) /\ c.from # c.to
        /\ Todo(Tail(left), merging.source)
        /\ PathsOf(left) = {c.path} \cup PathsOf(Tail(left))
        /\ \A p \in PathsOf(Tail(left)) : p # c.path
      BY <1>2, <2>1, NextChange DEF Source
  <2>4. c.path \notin PathsOf(right)
      BY <1>2, <2>1, <2>3, OnlyHere
  <2> HIDE DEF c
  <2>5. Target(c.path) = Was(c.path) /\ Leaf(c.to)
      BY <2>1, <2>3, <2>4
  <2>6. c.to \in Wanted(c.path)
      BY <2>3, <2>5 DEF Wanted
  <2> QED
      BY <1>1, <1>3, <2>1, <2>2, <2>3, <2>4, <2>5, <2>6, ApplyPlain
<1>4. (left # <<>> /\ c = Head(left)) \/ (right # <<>> /\ c = Head(right))
    BY <1>2
<1> HIDE DEF c
<1> QED
    BY <1>1, <1>2, <1>3, <1>4, ApplyInv

\* A change of the target alone.
LEMMA TakeRightInv == ASSUME NoCollision, MergeInv, TakeRight PROVE MergeInv'
<1> DEFINE c == Head(right)
<1>1. phase = "apply" /\ Leads(right, left) /\ Apply(c, FALSE, TRUE)
    BY DEF TakeRight
<1>2. right # <<>> /\ (left # <<>> => Before(c.path, Head(left).path))
    BY <1>1 DEF Leads
<1>3. ASSUME ~Renamed PROVE Plain'
  <2>1. /\ Todo(left, merging.source) /\ Todo(right, merging.target)
        /\ \A p : Source(p) # Was(p) /\ Target(p) # Was(p) => (p \in PathsOf(left) <=> p \in PathsOf(right))
        /\ \A p : Leaf(Was(p)) /\ Leaf(Source(p)) /\ Leaf(Target(p))
      BY <1>1, <1>3, HalfwayThere
  <2>2. right' = Tail(right) /\ left' = left
      BY <1>1 DEF Apply, Rest
  <2>3. /\ c.path \in Seq(Names) /\ Len(c.path) \in 1 .. MaxDepth
        /\ c.from = Was(c.path) /\ c.to = Target(c.path) /\ c.from # c.to
        /\ Todo(Tail(right), merging.target)
        /\ PathsOf(right) = {c.path} \cup PathsOf(Tail(right))
        /\ \A p \in PathsOf(Tail(right)) : p # c.path
      BY <1>2, <2>1, NextChange DEF Target
  <2>4. c.path \notin PathsOf(left)
      BY <1>2, <2>1, <2>3, OnlyHere
  <2> HIDE DEF c
  <2>5. Source(c.path) = Was(c.path) /\ Leaf(c.to)
      BY <2>1, <2>3, <2>4
  <2>6. c.to \in Wanted(c.path)
      BY <2>3, <2>5 DEF Wanted
  <2> QED
      BY <1>1, <1>3, <2>1, <2>2, <2>3, <2>4, <2>5, <2>6, ApplyPlain
<1>4. (left # <<>> /\ c = Head(left)) \/ (right # <<>> /\ c = Head(right))
    BY <1>2
<1> HIDE DEF c
<1> QED
    BY <1>1, <1>2, <1>3, <1>4, ApplyInv

\* Either change of a path that both lists are at.
LEMMA BothAtPath ==
    ASSUME NoCollision, MergeInv, phase = "apply", SamePath,
           NEW c \in {Head(left), Head(right)}, Apply(c, TRUE, TRUE),
           ~Renamed => c.to \in Wanted(c.path)
    PROVE  MergeInv'
<1> DEFINE a == Head(left)
           b == Head(right)
<1>1. left # <<>> /\ right # <<>> /\ a.path = b.path
    BY DEF SamePath
<1>2. ASSUME ~Renamed PROVE Plain'
  <2>1. /\ Todo(left, merging.source) /\ Todo(right, merging.target)
        /\ \A p : Source(p) # Was(p) /\ Target(p) # Was(p) => (p \in PathsOf(left) <=> p \in PathsOf(right))
        /\ \A p : Leaf(Was(p)) /\ Leaf(Source(p)) /\ Leaf(Target(p))
      BY <1>2, HalfwayThere
  <2>2. left' = Tail(left) /\ right' = Tail(right)
      BY DEF Apply, Rest
  <2>3. /\ a.path \in Seq(Names) /\ Len(a.path) \in 1 .. MaxDepth
        /\ a.from = Was(a.path) /\ a.to = Source(a.path) /\ a.from # a.to
        /\ Todo(Tail(left), merging.source)
        /\ PathsOf(left) = {a.path} \cup PathsOf(Tail(left))
        /\ \A p \in PathsOf(Tail(left)) : p # a.path
      BY <1>1, <2>1, NextChange DEF Source
  <2>4. /\ b.from = Was(b.path) /\ b.to = Target(b.path) /\ b.from # b.to
        /\ Todo(Tail(right), merging.target)
        /\ PathsOf(right) = {b.path} \cup PathsOf(Tail(right))
        /\ \A p \in PathsOf(Tail(right)) : p # b.path
      BY <1>1, <2>1, NextChange DEF Target
  <2> HIDE DEF a, b
  <2>5. c = a \/ c = b
      BY DEF a, b
  <2>6. /\ c.path = a.path /\ c.from = Was(c.path) /\ c.from # c.to /\ Leaf(c.to)
        /\ c.path \in Seq(Names) /\ Len(c.path) \in 1 .. MaxDepth
      BY <1>1, <2>1, <2>3, <2>4, <2>5
  <2>7. PathsOf(left) = {c.path} \cup PathsOf(left') /\ PathsOf(right) = {c.path} \cup PathsOf(right')
      BY <1>1, <2>2, <2>3, <2>4, <2>6
  <2>8. c.path \notin PathsOf(left') \cup PathsOf(right')
      BY <1>1, <2>2, <2>3, <2>4, <2>6
  <2>9. Todo(left', merging.source) /\ Todo(right', merging.target)
      BY <2>2, <2>3, <2>4
  <2>10. \A p : Source(p) # Was(p) /\ Target(p) # Was(p) => (p \in PathsOf(left') <=> p \in PathsOf(right'))
      BY <2>1, <2>7, <2>8
  <2>11. PathsOf(left) \cup PathsOf(right) = {c.path} \cup PathsOf(left') \cup PathsOf(right')
      BY <2>7
  <2> QED
      BY <1>2, <2>6, <2>8, <2>9, <2>10, <2>11, ApplyPlain
<1>3. (left # <<>> /\ c = Head(left)) \/ (right # <<>> /\ c = Head(right))
    BY <1>1
<1> QED
    BY <1>1, <1>2, <1>3, ApplyInv

----------------------------------------------------------------------------
(* The steps of a merge.                                                   *)

\* In a plain merge the changes of a path that both lists are at go from the same
\* file, so the side that has them differ is the one they go to.
LEMMA HeadsMeet ==
    ASSUME NoCollision, MergeInv, ~Renamed, phase = "apply", SamePath
    PROVE  LET a == Head(left)
               b == Head(right)
               p == a.path
           IN  /\ a.to = Source(p) /\ b.to = Target(p) /\ b.path = p
               /\ Source(p) # Was(p) /\ Target(p) # Was(p)
               /\ ~Mismatch(a, b)
               /\ Conflict(a, b) <=> Source(p) # Target(p)
<1> DEFINE a == Head(left)
           b == Head(right)
<1>1. left # <<>> /\ right # <<>> /\ a.path = b.path
    BY DEF SamePath
<1>2. /\ Todo(left, merging.source) /\ Todo(right, merging.target)
      /\ \A p : Leaf(Was(p)) /\ Leaf(Source(p)) /\ Leaf(Target(p))
    BY HalfwayThere
<1>3. a.from = Was(a.path) /\ a.to = Source(a.path) /\ a.from # a.to
    BY <1>1, <1>2, NextChange DEF Source
<1>4. b.from = Was(b.path) /\ b.to = Target(b.path) /\ b.from # b.to
    BY <1>1, <1>2, NextChange DEF Target
<1> HIDE DEF a, b
<1>5. ~Mismatch(a, b)
    BY <1>1, <1>3, <1>4 DEF Mismatch, Action
<1>6. Conflict(a, b) <=> Source(a.path) # Target(a.path)
  <2>1. a.to = b.to => ~Conflict(a, b)
      BY <1>1, <1>3, <1>4 DEF Conflict, Action
  <2>2. a.to # b.to => a.to.hash # b.to.hash
      BY <1>2, <1>3, <1>4, LeafByHash
  <2> QED
      BY <1>1, <1>3, <1>4, <2>1, <2>2 DEF Conflict
<1> QED
    BY <1>1, <1>3, <1>4, <1>5, <1>6 DEF a, b

\* Both sides did the same.
LEMMA TakeBothInv == ASSUME NoCollision, MergeInv, TakeBoth PROVE MergeInv'
<1>1. /\ phase = "apply" /\ SamePath /\ ~Conflict(Head(left), Head(right))
      /\ Apply(Head(left), TRUE, TRUE)
    BY DEF TakeBoth
<1> DEFINE c == Head(left)
<1>2. ~Renamed => c.to \in Wanted(c.path)
    BY <1>1, HeadsMeet DEF Wanted
<1>3. c \in {Head(left), Head(right)}
    OBVIOUS
<1> HIDE DEF c
<1> QED
    BY <1>1, <1>2, <1>3, BothAtPath DEF c

\* A merge that gives up has changed nothing.
LEMMA FailInv ==
    ASSUME NoCollision, MergeInv, phase = "apply", NEW why \in Phases \ {"start", "apply", "done"}, Fail(why),
           why = "conflict" => after # <<>>,
           ~Renamed => why = "conflict" /\ \E p : Source(p) # Was(p) /\ Target(p) # Was(p) /\ Source(p) # Target(p)
    PROVE  MergeInv'
<1>1. phase' = why /\ UNCHANGED <<rows, left, right, cur, merging, after>>
    BY DEF Fail, Stay
<1>2. Renamed' = Renamed /\ Roots' = Roots
    BY <1>1 DEF Renamed, Roots
<1>3. (\E was : Based(was))'
    BY <1>1, <1>2 DEF MergeInv, Based
<1>4. ASSUME ~Renamed PROVE Plain'
  <2>1. RowsSound(rows)
      BY <1>4 DEF MergeInv, Plain
  <2>2. phase' = "conflict" /\ \E p : (Source(p) # Was(p) /\ Target(p) # Was(p) /\ Source(p) # Target(p))'
      BY <1>1, <1>4 DEF Source, Target, Was
  <2> QED
      BY <1>1, <2>1, <2>2 DEF Plain, Failures
<1> QED
    BY <1>1, <1>2, <1>3, <1>4 DEF MergeInv

\* Either choice is one of the sides; without one the merge fails over a conflict.
LEMMA ResolveInv == ASSUME NoCollision, MergeInv, Resolve PROVE MergeInv'
<1>1. phase = "apply" /\ SamePath /\ Conflict(Head(left), Head(right))
    BY DEF Resolve
<1>2. CASE after = <<>>
  <2>1. PICK c \in {Head(left), Head(right)} : Apply(c, TRUE, TRUE)
      BY <1>2 DEF Resolve
  <2>2. ~Renamed => c.to \in Wanted(c.path)
      BY <1>1, <1>2, HeadsMeet DEF Wanted
  <2> QED
      BY <1>1, <2>1, <2>2, BothAtPath
<1>3. CASE after # <<>>
  <2>1. Fail("conflict")
      BY <1>3 DEF Resolve
  <2>2. ~Renamed => \E p : Source(p) # Was(p) /\ Target(p) # Was(p) /\ Source(p) # Target(p)
      BY <1>1, HeadsMeet
  <2>3. "conflict" \in Phases \ {"start", "apply", "done"}
      BY DEF Phases
  <2> QED
      BY <1>1, <1>3, <2>1, <2>2, <2>3, FailInv
<1> QED
    BY <1>2, <1>3

\* "must be a bug": with plain changes it does not happen.
LEMMA RefuseInv == ASSUME NoCollision, MergeInv, Refuse PROVE MergeInv'
<1>1. phase = "apply" /\ SamePath /\ Mismatch(Head(left), Head(right)) /\ Fail("action not match")
    BY DEF Refuse
<1>2. Renamed
    BY <1>1, HeadsMeet
<1>3. "action not match" \in Phases \ {"start", "apply", "done"}
    BY DEF Phases
<1> QED
    BY <1>1, <1>2, <1>3, FailInv

\* The merge is done: nothing is left to come.
LEMMA FinishInv == ASSUME NoCollision, MergeInv, Finish PROVE MergeInv'
<1>1. /\ phase = "apply" /\ left = <<>> /\ right = <<>> /\ phase' = "done"
      /\ UNCHANGED <<rows, left, right, cur, merging, after>>
    BY DEF Finish, Stay
<1>2. Renamed' = Renamed /\ Roots' = Roots /\ phase' \in Phases
    BY <1>1 DEF Renamed, Roots, Phases
<1>3. (\E was : Based(was))'
    BY <1>1, <1>2 DEF MergeInv, Based
<1>4. ASSUME ~Renamed PROVE Plain'
  <2>1. RowsSound(rows) /\ DirIn(DOMAIN rows, cur) /\ cur \in Deep[MaxDepth] /\ Halfway
      BY <1>1, <1>4 DEF MergeInv, Plain
  <2>2. Halfway'
      BY <1>1, <2>1 DEF Halfway, Todo, Was, Source, Target, Is, Wanted
  <2> QED
      BY <1>1, <2>1, <2>2 DEF Plain, Failures
<1> QED
    BY <1>1, <1>2, <1>3, <1>4 DEF MergeInv

\* The merged ancestors are a tree like those they came from.
LEMMA VirtualCommitInv == ASSUME NoCollision, MergeInv, VirtualCommit PROVE MergeInv'
<1>1. /\ phase = "done" /\ after # <<>> /\ phase' = "start" /\ after' = <<>>
      /\ merging' = [base |-> cur, source |-> after[1], target |-> after[2]]
      /\ UNCHANGED <<rows, left, right, cur>>
    BY DEF VirtualCommit
<1>2. RowsSound(rows) /\ DirIn(DOMAIN rows, cur) /\ cur \in Deep[MaxDepth]
    BY <1>1 DEF MergeInv, Plain
<1>3. PICK was : Based(was)
    BY DEF MergeInv
<1>4. \A h \in Roots : DirIn(DOMAIN rows, h) /\ h \in Deep[MaxDepth]
    BY <1>2, <1>3, RootsHold
<1>5. Roots' = {cur, after[1], after[2]} /\ after[1] \in Roots /\ after[2] \in Roots
    BY <1>1 DEF Roots
<1>6. Extends(rows, rows)
    BY DEF Extends
<1>7. Based(rows)'
    BY <1>1, <1>2, <1>4, <1>5, <1>6 DEF Based
<1>8. (\E w : Based(w))'
    BY <1>7
<1>9. Plain' /\ phase' \in Phases
    BY <1>1, <1>2 DEF Plain, Failures, Phases
<1> QED
    BY <1>1, <1>2, <1>8, <1>9 DEF MergeInv

\* The changes to a tree, if no directory is only renamed in, are one for each path
\* at which it differs from the base.
LEMMA ChangesTodo ==
    ASSUME NoCollision, RowsSound(rows), DirIn(DOMAIN rows, merging.base),
           NEW to, DirIn(DOMAIN rows, to), OnlyRenamed(rows, merging.base, to) = {}
    PROVE  LET cs == Changes(rows, merging.base, to)
           IN  /\ Todo(cs, to)
               /\ \A p : p \in PathsOf(cs) <=> FileAt(rows, to, p) # Was(p)
<1> DEFINE cs == Changes(rows, merging.base, to)
           f == Files(rows, merging.base)
           g == Files(rows, to)
           b(p) == FileAt(rows, to, p)
<1>1. /\ cs \in Seq(ChangesOf(rows, merging.base, to)) /\ ByPath(cs)
      /\ Each(cs) = PlainChanges(f, g)
    BY ChangesArePlain
<1>2. \A p : /\ p \in DOMAIN f <=> Was(p) # NoEntry
             /\ p \in DOMAIN f => Was(p) = File(f[p])
             /\ p \in DOMAIN g <=> b(p) # NoEntry
             /\ p \in DOMAIN g => b(p) = File(g[p])
             /\ Was(p) # NoEntry \/ b(p) # NoEntry => p \in Seq(Names) /\ Len(p) \in 1 .. MaxDepth
    BY FileAtIs DEF Was
<1>3. PlainChanges(f, g) =
          {Change(p, Was(p), b(p)) : p \in {q \in DOMAIN f \cup DOMAIN g :
                                               ~(q \in DOMAIN f /\ q \in DOMAIN g /\ f[q] = g[q])}}
    BY DEF PlainChanges, FileAt, Was
<1> HIDE DEF f, g, b, cs
<1>4. {q \in DOMAIN f \cup DOMAIN g : ~(q \in DOMAIN f /\ q \in DOMAIN g /\ f[q] = g[q])}
          = {q \in DOMAIN f \cup DOMAIN g : Was(q) # b(q)}
  <2>1. \A x, y : File(x) = File(y) => x = y
    <3>1. \A x : File(x).hash = x
        BY DEF File
    <3> QED
        BY <3>1
  <2> QED
      BY <1>2, <2>1
<1>5. \A c : c \in Each(cs) <=> \E p : Was(p) # b(p) /\ c = Change(p, Was(p), b(p))
    BY <1>1, <1>2, <1>3, <1>4
<1>6. \A p, x, y : Change(p, x, y).path = p /\ Change(p, x, y).from = x /\ Change(p, x, y).to = y
    BY DEF Change
<1>7. \A c \in Each(cs) : /\ c.path \in Seq(Names) /\ Len(c.path) \in 1 .. MaxDepth
                          /\ c.from = Was(c.path) /\ c.to = b(c.path) /\ c.from # c.to
    BY <1>2, <1>5, <1>6
<1>8. \A i \in 1 .. Len(cs) : cs[i] \in Each(cs)
    BY DEF Each
<1>9. Todo(cs, to)
  <2>1. \A i \in 1 .. Len(cs) :
            LET c == cs[i]
            IN  /\ c.path \in Seq(Names) /\ Len(c.path) \in 1 .. MaxDepth
                /\ c.from = Was(c.path) /\ c.to = FileAt(rows, to, c.path) /\ c.from # c.to
      BY <1>7, <1>8 DEF b
  <2> QED
      BY <1>1, <2>1 DEF Todo
<1>10. \A p : p \in PathsOf(cs) <=> \E c \in Each(cs) : c.path = p
    BY DEF PathsOf, Each
<1>11. \A p : p \in PathsOf(cs) <=> b(p) # Was(p)
    BY <1>5, <1>6, <1>7, <1>10
<1> QED
    BY <1>9, <1>11 DEF b, cs

\* The changes to both sides are listed.
LEMMA StartInv == ASSUME NoCollision, MergeInv, Start PROVE MergeInv'
<1>1. /\ phase = "start" /\ phase' = "apply" /\ cur' = merging.base
      /\ left' = Changes(rows, merging.base, merging.source)
      /\ right' = Changes(rows, merging.base, merging.target)
      /\ UNCHANGED <<rows, merging, after>>
    BY DEF Start, Stay
<1>2. RowsSound(rows)
    BY <1>1 DEF MergeInv
<1>3. PICK was : Based(was)
    BY DEF MergeInv
<1>4. /\ DirIn(DOMAIN rows, merging.base) /\ merging.base \in Deep[MaxDepth]
      /\ DirIn(DOMAIN rows, merging.source) /\ DirIn(DOMAIN rows, merging.target)
    BY <1>2, <1>3, RootsHold
<1>5. Opens(rows', cur')
    BY <1>1, <1>4 DEF Opens, DirIn
<1>6. ASSUME NEW to, DirIn(DOMAIN rows, to)
      PROVE  \E V : Changes(rows, merging.base, to) \in Seq(V) /\ \A c \in V : Len(c.path) \in Nat \ {0}
  <2> DEFINE V == ChangesOf(rows, merging.base, to)
  <2>1. DiffTree(rows, merging.base, to) \in Seq(V)
      BY <1>2, <1>4, <1>6, DiffIn
  <2>2. \A c \in V : Len(c.path) \in Nat \ {0}
    <3>1. \A p \in PathsIn(rows, merging.base) \cup PathsIn(rows, to) : Len(p) \in Nat \ {0}
        BY <1>2, <1>4, <1>6, PathsAre
    <3> QED
        BY <3>1 DEF ChangesOf
  <2> HIDE DEF V
  <2>3. Changes(rows, merging.base, to) \in Seq(V)
      BY <2>1, InOrderIn DEF Changes
  <2> QED
      BY <2>2, <2>3
<1>7. \A s \in {left', right'} : \E V : s \in Seq(V) /\ \A c \in V : Len(c.path) \in Nat \ {0}
    BY <1>1, <1>4, <1>6
<1>8. Renamed' = Renamed /\ Roots' = Roots
    BY <1>1 DEF Renamed, Roots
<1>9. (\E w : Based(w))'
    BY <1>1, <1>3, <1>8 DEF Based
<1>10. ASSUME ~Renamed PROVE Plain'
  <2>1. /\ OnlyRenamed(rows, merging.base, merging.source) = {}
        /\ OnlyRenamed(rows, merging.base, merging.target) = {}
      BY <1>10 DEF Renamed
  <2>2. Todo(left', merging.source) /\ \A p : p \in PathsOf(left') <=> Source(p) # Was(p)
      BY <1>1, <1>2, <1>4, <2>1, ChangesTodo DEF Source
  <2>3. Todo(right', merging.target) /\ \A p : p \in PathsOf(right') <=> Target(p) # Was(p)
      BY <1>1, <1>2, <1>4, <2>1, ChangesTodo DEF Target
  <2>4. \A p : /\ Was(p)' = Was(p) /\ Source(p)' = Source(p) /\ Target(p)' = Target(p) /\ Is(p)' = Was(p)
               /\ Wanted(p)' = Wanted(p)
      BY <1>1 DEF Was, Source, Target, Is, Wanted
  <2>5. Todo(left, merging.source)' /\ Todo(right, merging.target)'
      BY <1>1, <2>2, <2>3 DEF Todo, Was
  <2>6. \A p : (Source(p) # Was(p) /\ Target(p) # Was(p))' => (p \in PathsOf(left') <=> p \in PathsOf(right'))
      BY <2>2, <2>3, <2>4
  <2>7. \A p : IF p \in PathsOf(left') \cup PathsOf(right') THEN Is(p)' = Was(p)' ELSE Is(p)' \in Wanted(p)'
    <3> TAKE p
    <3>1. p \notin PathsOf(left') \cup PathsOf(right') => Was(p) \in Wanted(p)
        BY <2>2, <2>3 DEF Wanted
    <3> QED
        BY <2>4, <3>1
  <2>8. Halfway'
      BY <2>5, <2>6, <2>7 DEF Halfway
  <2> QED
      BY <1>1, <1>2, <1>4, <2>8 DEF Plain, Failures
<1>11. phase' \in Phases
    BY <1>1 DEF Phases
<1> QED
    BY <1>1, <1>5, <1>7, <1>8, <1>9, <1>10, <1>11 DEF MergeInv

\* Every step keeps the invariant.
LEMMA MergeStep == ASSUME NoCollision, MergeInv, [Next]_vars PROVE MergeInv'
<1>1. CASE Next
    BY <1>1, StartInv, TakeLeftInv, TakeRightInv, TakeBothInv, ResolveInv, RefuseInv, FinishInv,
       VirtualCommitInv DEF Next
<1>2. CASE UNCHANGED vars
  <2>1. UNCHANGED <<rows, merging, after, phase, left, right, cur>>
      BY <1>2 DEF vars
  <2>2. Renamed' = Renamed /\ Roots' = Roots
      BY <2>1 DEF Renamed, Roots
  <2>3. (\E was : Based(was))'
      BY <2>1, <2>2 DEF MergeInv, Based
  <2>4. Plain => Plain'
    <3>1. Halfway => Halfway'
        BY <2>1 DEF Halfway, Todo, Was, Source, Target, Is, Wanted
    <3>2. AllPaths' = AllPaths
        BY <2>1 DEF AllPaths, BaseFiles, SourceFiles, TargetFiles
    <3>3. \A p : Was(p)' = Was(p) /\ Source(p)' = Source(p) /\ Target(p)' = Target(p)
        BY <2>1 DEF Was, Source, Target
    <3> QED
        BY <2>1, <3>1, <3>2, <3>3 DEF Plain
  <2> QED
      BY <2>1, <2>2, <2>3, <2>4 DEF MergeInv
<1> QED
    BY <1>1, <1>2

\* In the criss-cross merges no directory is only renamed in on the way to the two
\* ancestors that are merged first.
PlainCrosses ==
    \A x \in Crosses :
        LET rws == RowsOf({x.base, x.one, x.two, x.source, x.target})
        IN  OnlyRenamed(rws, x.base, x.one) = {} /\ OnlyRenamed(rws, x.base, x.two) = {}

\* It holds of the trees a merge starts with.
LEMMA MergeStarts == ASSUME NoCollision, PlainCrosses, Init PROVE MergeInv
<1> DEFINE roots == {merging.base, merging.source, merging.target} \cup {after[i] : i \in DOMAIN after}
<1>1. rows = RowsOf(roots) /\ phase = "start" /\ left = <<>> /\ right = <<>> /\ cur = Empty
    BY DEF Init
<1>2. roots = Roots /\ AreTrees(roots) /\ (after # <<>> => ~Renamed)
  <2>1. CASE merging \in Triples /\ after = <<>>
    <3>1. roots = {merging.base, merging.source, merging.target}
        BY <2>1
    <3> QED
        BY <2>1, <3>1, TreeMergeAssumption DEF Roots
  <2>2. ASSUME NEW x \in Crosses, merging = [base |-> x.base, source |-> x.one, target |-> x.two],
               after = <<x.source, x.target>>
        PROVE  roots = Roots /\ AreTrees(roots) /\ (after # <<>> => ~Renamed)
    <3>1. DOMAIN after = {1, 2} /\ after[1] = x.source /\ after[2] = x.target /\ after # <<>>
        BY <2>2
    <3>2. roots = {x.base, x.one, x.two, x.source, x.target} /\ roots = Roots
        BY <2>2, <3>1 DEF Roots
    <3> HIDE DEF roots
    <3>3. AreTrees(roots)
        BY <3>2, TreeMergeAssumption
    <3>4. ~Renamed
        BY <1>1, <2>2, <3>2 DEF PlainCrosses, Renamed
    <3> QED
        BY <3>2, <3>3, <3>4
  <2> QED
      BY <2>1, <2>2 DEF Init
<1> HIDE DEF roots
<1>3. RowsSound(rows) /\ \A h \in Roots : DirIn(DOMAIN rows, h) /\ h \in Deep[MaxDepth]
    BY <1>1, <1>2, RowsAreTrees
<1>4. Based(rows)
    BY <1>3 DEF Based, Extends
<1>5. \E was : Based(was)
    BY <1>4
<1>6. \A s \in {left, right} : \E V : s \in Seq(V) /\ \A c \in V : Len(c.path) \in Nat \ {0}
  <2> DEFINE V == {}
  <2>1. <<>> \in Seq(V) /\ \A c \in V : Len(c.path) \in Nat \ {0}
      OBVIOUS
  <2> HIDE DEF V
  <2> QED
      BY <1>1, <2>1
<1>7. Opens(rows, cur) /\ phase \in Phases
    BY <1>1 DEF Opens, Phases
<1>8. Plain
    BY <1>1, <1>3 DEF Plain, Failures
<1> QED
    BY <1>1, <1>2, <1>3, <1>5, <1>6, <1>7, <1>8 DEF MergeInv

----------------------------------------------------------------------------
(* What follows.                                                           *)

\* What the invariant says of the properties: the trees can be opened,
LEMMA InvTypes == ASSUME NoCollision, MergeInv PROVE TypeOK
<1>1. PICK was : Based(was)
    BY DEF MergeInv
<1>2. \A h \in {merging.base, merging.source, merging.target} : Opens(rows, h)
    BY <1>1 DEF Based, Roots, DirIn, Extends, Opens
<1> QED
    BY <1>2 DEF MergeInv, TypeOK

\* the comparison finds the plain difference,
LEMMA InvDiff == ASSUME NoCollision, MergeInv PROVE DiffIsPlain
<1> SUFFICES ASSUME phase = "start", NEW to \in {merging.source, merging.target},
                    OnlyRenamed(rows, merging.base, to) = {}
             PROVE  LET cs == Changes(rows, merging.base, to)
                    IN  /\ {cs[i] : i \in DOMAIN cs} = PlainChanges(BaseFiles, Files(rows, to))
                        /\ Len(cs) = Cardinality({cs[i].path : i \in DOMAIN cs})
    BY DEF DiffIsPlain
<1> DEFINE cs == Changes(rows, merging.base, to)
           V == ChangesOf(rows, merging.base, to)
<1>1. RowsSound(rows)
    BY DEF MergeInv
<1>2. PICK was : Based(was)
    BY DEF MergeInv
<1>3. DirIn(DOMAIN rows, merging.base) /\ DirIn(DOMAIN rows, to)
    BY <1>1, <1>2, RootsHold
<1>4. cs \in Seq(V) /\ ByPath(cs) /\ Each(cs) = PlainChanges(BaseFiles, Files(rows, to))
    BY <1>1, <1>3, ChangesArePlain DEF BaseFiles
<1>5. \A c \in V : c.path \in Seq(Nat)
  <2>1. \A q \in PathsIn(rows, merging.base) \cup PathsIn(rows, to) : q \in Seq(Nat)
      BY <1>1, <1>3, PathsAre DEF Names
  <2> QED
      BY <2>1 DEF ChangesOf
<1> HIDE DEF cs, V
<1>6. DOMAIN cs = 1 .. Len(cs) /\ \A i \in 1 .. Len(cs) : cs[i].path \in Seq(Nat)
    BY <1>4, <1>5
<1>7. Len(cs) = Cardinality(PathsOf(cs))
    BY <1>4, <1>6, PathsOnce
<1> QED
    BY <1>4, <1>6, <1>7 DEF Each, PathsOf, cs

\* What a tree holds at a path, by its files.
LEMMA HashAt ==
    ASSUME NEW rws, NEW h, NEW p
    PROVE  At(Files(rws, h), p) = FileAt(rws, h, p).hash
    BY DEF At, FileAt, File, NoEntry

\* a merged tree has what both sides did,
LEMMA InvMerged == ASSUME NoCollision, MergeInv PROVE MergeKeepsBothSides
<1> SUFFICES ASSUME phase = "done", ~Renamed PROVE MergeKeepsBothSides
    BY DEF MergeKeepsBothSides
<1> DEFINE merged == Files(rows, cur)
           b(p) == At(BaseFiles, p)
           s(p) == At(SourceFiles, p)
           t(p) == At(TargetFiles, p)
           Allowed(p) == IF s(p) = b(p) \/ s(p) = t(p) THEN {t(p)}
                         ELSE IF t(p) = b(p) THEN {s(p)}
                         ELSE IF after = <<>> THEN {s(p), t(p)} ELSE {}
<1>1. /\ RowsSound(rows) /\ DirIn(DOMAIN rows, cur) /\ cur \in Deep[MaxDepth] /\ Halfway
      /\ left = <<>> /\ right = <<>>
    BY DEF MergeInv, Plain
<1>2. PICK was : Based(was)
    BY DEF MergeInv
<1>3. \A p : /\ Leaf(Was(p)) /\ Leaf(Source(p)) /\ Leaf(Target(p))
             /\ p \in AllPaths <=> Was(p) # NoEntry \/ Source(p) # NoEntry \/ Target(p) # NoEntry
    BY <1>1, <1>2, RootsHold
<1>4. \A p : Is(p) \in Wanted(p)
  <2>1. PathsOf(left) \cup PathsOf(right) = {}
      BY <1>1 DEF PathsOf
  <2> QED
      BY <1>1, <2>1 DEF Halfway
<1>5. \A p : /\ b(p) = Was(p).hash /\ s(p) = Source(p).hash /\ t(p) = Target(p).hash
             /\ At(merged, p) = Is(p).hash
    BY HashAt DEF BaseFiles, SourceFiles, TargetFiles, Was, Source, Target, Is
<1>6. \A p : /\ s(p) = b(p) <=> Source(p) = Was(p)
             /\ s(p) = t(p) <=> Source(p) = Target(p)
             /\ t(p) = b(p) <=> Target(p) = Was(p)
    BY <1>3, <1>5, LeafByHash
<1>7. DOMAIN merged \subseteq AllPaths
  <2> SUFFICES ASSUME NEW p \in DOMAIN merged PROVE p \in AllPaths
      OBVIOUS
  <2>1. Is(p) # NoEntry
      BY <1>1, FileAtIs DEF Is
  <2>2. Is(p) = Source(p) \/ Is(p) = Target(p)
      BY <1>4 DEF Wanted
  <2> QED
      BY <1>3, <2>1, <2>2
<1>8. cur = TreeHash(merged)
    BY <1>1, HashFromFiles
<1> HIDE DEF b, s, t, merged
<1>9. \A p \in AllPaths : At(merged, p) \in Allowed(p)
    BY <1>4, <1>5, <1>6 DEF Wanted
<1> QED
    BY <1>7, <1>8, <1>9 DEF MergeKeepsBothSides, merged, b, s, t

\* and merging fails for a reason.
LEMMA InvFails == ASSUME NoCollision, MergeInv PROVE FailsForAReason
<1>1. ASSUME phase = "conflict"
      PROVE  \E p \in AllPaths : Cardinality({At(f, p) : f \in {BaseFiles, SourceFiles, TargetFiles}}) = 3
  <2>1. Plain
      BY <1>1 DEF MergeInv
  <2>2. PICK p : Source(p) # Was(p) /\ Target(p) # Was(p) /\ Source(p) # Target(p)
      BY <1>1, <2>1 DEF Plain
  <2>3. PICK was : Based(was)
      BY DEF MergeInv
  <2>4. /\ Leaf(Was(p)) /\ Leaf(Source(p)) /\ Leaf(Target(p))
        /\ p \in AllPaths <=> Was(p) # NoEntry \/ Source(p) # NoEntry \/ Target(p) # NoEntry
      BY <2>1, <2>3, RootsHold DEF Plain
  <2>5. p \in AllPaths
      BY <2>2, <2>4
  <2>6. /\ Source(p).hash # Was(p).hash /\ Target(p).hash # Was(p).hash
        /\ Source(p).hash # Target(p).hash
      BY <2>2, <2>4, LeafByHash
  <2>7. {At(f, p) : f \in {BaseFiles, SourceFiles, TargetFiles}}
            = {Was(p).hash, Source(p).hash, Target(p).hash}
      BY HashAt DEF BaseFiles, SourceFiles, TargetFiles, Was, Source, Target
  <2>8. Cardinality({Was(p).hash, Source(p).hash, Target(p).hash}) = 3
      BY <2>6, ThreeOnes
  <2> QED
      BY <2>5, <2>7, <2>8
<1>2. phase \in Failures /\ ~Renamed => \E p, q \in AllPaths : IsStrictPrefix(p, q)
    BY DEF MergeInv, Plain
<1> QED
    BY <1>1, <1>2 DEF FailsForAReason, Failures

\* The trees of a merge, and the one it makes, can always be opened (NewTreeNode): what
\* merge and ApplyOneChange refer to is stored.
THEOREM MergesStayTyped == ASSUME NoCollision, PlainCrosses PROVE Spec => []TypeOK
<1>1. Init => MergeInv
    BY MergeStarts
<1>2. MergeInv /\ [Next]_vars => MergeInv'
    BY MergeStep
<1>3. MergeInv => TypeOK
    BY InvTypes
<1> QED
    BY <1>1, <1>2, <1>3, PTL DEF Spec

\* What DiffTreeContext and NewChanges say of two trees is, whatever the trees, the
\* insertions, deletions and modifications of their files, each once, unless files
\* were only renamed within a directory (isDiffChildrenSame).
THEOREM DiffsArePlain == ASSUME NoCollision, PlainCrosses PROVE Spec => []DiffIsPlain
<1>1. Init => MergeInv
    BY MergeStarts
<1>2. MergeInv /\ [Next]_vars => MergeInv'
    BY MergeStep
<1>3. MergeInv => DiffIsPlain
    BY InvDiff
<1> QED
    BY <1>1, <1>2, <1>3, PTL DEF Spec

\* merge, with the iterators of changes.go and either resolver, loses no change of
\* either side and makes none of its own, for all trees and all choices, and for the
\* virtual commits of findBestAncestor; its result has the hash its files have.
THEOREM MergedTreesKeepBothSides == ASSUME NoCollision, PlainCrosses PROVE Spec => []MergeKeepsBothSides
<1>1. Init => MergeInv
    BY MergeStarts
<1>2. MergeInv /\ [Next]_vars => MergeInv'
    BY MergeStep
<1>3. MergeInv => MergeKeepsBothSides
    BY InvMerged
<1> QED
    BY <1>1, <1>2, <1>3, PTL DEF Spec

\* merge fails only over a path that both sides changed differently, where none may
\* choose, or over a path that is a file in one tree and a directory in another
\* (ErrBlobMustBeLeaf, ErrEntryExit).
THEOREM MergesFailForAReason == ASSUME NoCollision, PlainCrosses PROVE Spec => []FailsForAReason
<1>1. Init => MergeInv
    BY MergeStarts
<1>2. MergeInv /\ [Next]_vars => MergeInv'
    BY MergeStep
<1>3. MergeInv => FailsForAReason
    BY InvFails
<1> QED
    BY <1>1, <1>2, <1>3, PTL DEF Spec
=============================================================================
