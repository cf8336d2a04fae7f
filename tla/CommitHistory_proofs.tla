------------------------ MODULE CommitHistory_proofs ------------------------
(***************************************************************************)
(* The walks visit what they should, MergeBase answers the best common     *)
(* ancestors and the pages list a line, for every history and all dates.   *)
(***************************************************************************)
EXTENDS CommitHistory, FiniteSetTheorems, TLAPS

\* Induction, from the pigeonhole principle: were n not in S, the numbers up to n
\* would fit among those below n.
LEMMA SetInduction ==
    ASSUME NEW S, 0 \in S, \A i \in Nat : i \in S => i + 1 \in S
    PROVE  Nat \subseteq S
<1> SUFFICES ASSUME NEW n \in Nat, n \notin S PROVE FALSE
    OBVIOUS
<1> DEFINE f == [i \in 0 .. n |-> IF i \in S THEN i ELSE i - 1]
<1>1. \A i \in 0 .. n : i \notin S => i # 0 /\ i - 1 \in 0 .. (n - 1) /\ i - 1 \notin S
  <2> TAKE i \in 0 .. n
  <2> HAVE i \notin S
  <2>1. i # 0 /\ i - 1 \in Nat /\ (i - 1) + 1 = i
      OBVIOUS
  <2> QED
      BY <2>1
<1>2. \A i \in 0 .. n : i \in S => i \in 0 .. (n - 1)
    OBVIOUS
<1>3. f \in [0 .. n -> 0 .. (n - 1)]
    BY <1>1, <1>2
<1> DEFINE A == 0 .. n
           B == 0 .. (n - 1)
<1>4. IsFiniteSet(A) /\ Cardinality(A) = n + 1
  <2>1. 0 \in Int /\ n \in Int /\ ~(0 > n)
      OBVIOUS
  <2> QED
      BY <2>1, FS_Interval
<1>5. IsFiniteSet(B) /\ Cardinality(B) = n
  <2>1. 0 \in Int /\ n - 1 \in Int /\ (0 > n - 1 <=> n = 0) /\ (n - 1) - 0 + 1 = n
      OBVIOUS
  <2>2. /\ IsFiniteSet(0 .. (n - 1))
        /\ Cardinality(0 .. (n - 1)) = IF 0 > n - 1 THEN 0 ELSE (n - 1) - 0 + 1
      BY <2>1, FS_Interval
  <2> QED
      BY <2>1, <2>2
<1>6. Cardinality(B) < Cardinality(A)
    BY <1>4, <1>5
<1>7. f \in [A -> B]
    BY <1>3
<1> HIDE DEF f, A, B
<1>8. PICK i, j \in A : i # j /\ f[i] = f[j]
    BY <1>4, <1>5, <1>6, <1>7, FS_PigeonHole
<1> USE DEF f, A, B
<1> QED
    BY <1>1, <1>8

\* A loop that appends to its output, or leaves it alone, until it is done: the
\* recursive function that says what is still to come exists, if every turn makes
\* a measure smaller.
Turn(x, w, done, skips, head, next) ==
    IF x \in done THEN <<>> ELSE IF x \in skips THEN w[next[x]] ELSE head[x] \o w[next[x]]

\* What the loop k does in each of its states.
IsLoop(k) ==
    /\ \A x \in k.states : k.mu[x] \in Nat
    /\ \A x \in k.states \ k.done : k.next[x] \in k.states /\ k.mu[k.next[x]] < k.mu[x]
IsRest(w, k) == w = [x \in k.states |-> Turn(x, w, k.done, k.skips, k.head, k.next)]

LEMMA LoopEnds == ASSUME NEW k, IsLoop(k) PROVE \E w : IsRest(w, k)
<1> DEFINE D == k.states
           done == k.done
           skips == k.skips
           head == k.head
           next == k.next
           mu == k.mu
<1> USE DEF IsLoop
<1> HIDE DEF D, done, skips, head, next, mu
<1>a. \A x \in D : mu[x] \in Nat
    BY DEF D, mu
<1>b. \A x \in D \ done : next[x] \in D /\ mu[next[x]] < mu[x]
    BY DEF D, mu, done, next
<1> HIDE DEF IsLoop
<1> USE <1>a, <1>b
<1> DEFINE Low(n) == {x \in D : mu[x] < n}
           Do(x, w) == Turn(x, w, done, skips, head, next)
           F(n, w) == [x \in Low(n) |-> Do(x, w)]
           T == {n \in Nat : \E w : w = F(n, w)}
           W(n) == CHOOSE w : w = F(n, w)
<1>0. ASSUME NEW x, NEW v, NEW w, x \notin done => v[next[x]] = w[next[x]] PROVE Do(x, v) = Do(x, w)
    BY <1>0 DEF Turn
<1>1. 0 \in T
  <2>1. Low(0) = {}
      OBVIOUS
  <2> DEFINE w == [x \in {} |-> x]
  <2>2. w = F(0, w)
      BY <2>1
  <2> QED
      BY <2>2
<1>2. ASSUME NEW n \in Nat, n \in T PROVE n + 1 \in T
  <2>1. PICK w : w = F(n, w)
      BY <1>2
  <2> DEFINE g == [x \in Low(n + 1) |-> IF x \in Low(n) THEN w[x] ELSE Do(x, w)]
  <2>2. ASSUME NEW x \in Low(n + 1) PROVE g[x] = Do(x, g)
    <3>1. x \notin done => next[x] \in Low(n) /\ next[x] \in Low(n + 1)
        OBVIOUS
    <3>2. x \notin done => g[next[x]] = w[next[x]]
        BY <3>1
    <3>3. Do(x, g) = Do(x, w)
        BY <3>2, <1>0
    <3>4. x \in Low(n) => w[x] = Do(x, w)
        BY <2>1
    <3> HIDE DEF Do
    <3>5. g[x] = IF x \in Low(n) THEN w[x] ELSE Do(x, w)
        OBVIOUS
    <3> QED
        BY <3>3, <3>4, <3>5
  <2>3. g = [x \in Low(n + 1) |-> g[x]]
      OBVIOUS
  <2> HIDE DEF g, Do, Low
  <2>4. g = F(n + 1, g)
      BY <2>2, <2>3
  <2>5. \E h : h = F(n + 1, h)
      BY <2>4
  <2> HIDE DEF F
  <2> QED
      BY <2>5
<1>3. ASSUME NEW n \in Nat PROVE W(n) = F(n, W(n))
  <2> HIDE DEF T
  <2>1. n \in T
      BY <1>1, <1>2, SetInduction
  <2>2. \E w : w = F(n, w)
      BY <2>1 DEF T
  <2> HIDE DEF F
  <2> QED
      BY <2>2
<1> HIDE DEF W, T
<1>4. ASSUME NEW n \in Nat, NEW x \in Low(n) PROVE W(n)[x] = Do(x, W(n))
  <2> HIDE DEF Do, Low
  <2> QED
      BY <1>3
<1> DEFINE S == {j \in Nat : \A x \in Low(j) : \A n, m \in Nat :
                     mu[x] < n /\ mu[x] < m => W(n)[x] = W(m)[x]}
<1>5. 0 \in S
    OBVIOUS
<1>6. ASSUME NEW j \in Nat, j \in S PROVE j + 1 \in S
  <2> SUFFICES ASSUME NEW x \in Low(j + 1), NEW n \in Nat, NEW m \in Nat, mu[x] < n, mu[x] < m
               PROVE  W(n)[x] = W(m)[x]
      OBVIOUS
  <2>1. x \in Low(n) /\ x \in Low(m)
      OBVIOUS
  <2>2. x \notin done => W(n)[next[x]] = W(m)[next[x]]
    <3> SUFFICES ASSUME x \notin done PROVE W(n)[next[x]] = W(m)[next[x]]
        OBVIOUS
    <3>1. next[x] \in D /\ mu[next[x]] \in Nat /\ mu[next[x]] < mu[x] /\ mu[x] \in Nat
        OBVIOUS
    <3>2. next[x] \in Low(j) /\ mu[next[x]] < n /\ mu[next[x]] < m
        BY <3>1
    <3> QED
        BY <1>6, <3>2
  <2>3. Do(x, W(n)) = Do(x, W(m))
      BY <2>2, <1>0
  <2> HIDE DEF Do
  <2> QED
      BY <1>4, <2>1, <2>3
<1> HIDE DEF S
<1>7. Nat \subseteq S
    BY <1>5, <1>6, SetInduction
<1> DEFINE g == [x \in D |-> W(mu[x] + 1)[x]]
<1>8. ASSUME NEW x \in D PROVE g[x] = Do(x, g)
  <2>1. x \in Low(mu[x] + 1) /\ mu[x] + 1 \in Nat
      OBVIOUS
  <2>2. W(mu[x] + 1)[x] = Do(x, W(mu[x] + 1))
      BY <1>4, <2>1
  <2>3. x \notin done => g[next[x]] = W(mu[x] + 1)[next[x]]
    <3> SUFFICES ASSUME x \notin done PROVE g[next[x]] = W(mu[x] + 1)[next[x]]
        OBVIOUS
    <3>1. next[x] \in D /\ mu[next[x]] \in Nat /\ mu[next[x]] < mu[x] /\ mu[x] \in Nat
        OBVIOUS
    <3>2. mu[x] \in S /\ next[x] \in Low(mu[x])
        BY <1>7, <3>1
    <3>3. mu[next[x]] < mu[next[x]] + 1 /\ mu[next[x]] < mu[x] + 1
             /\ mu[next[x]] + 1 \in Nat /\ mu[x] + 1 \in Nat
        BY <3>1
    <3>4. W(mu[next[x]] + 1)[next[x]] = W(mu[x] + 1)[next[x]]
        BY <3>2, <3>3 DEF S
    <3> QED
        BY <3>1, <3>4
  <2>4. Do(x, g) = Do(x, W(mu[x] + 1))
      BY <1>0, <2>3
  <2>5. g[x] = W(mu[x] + 1)[x]
      OBVIOUS
  <2> HIDE DEF Do, g
  <2> QED
      BY <2>2, <2>4, <2>5
<1>9. g = [x \in D |-> g[x]]
    OBVIOUS
<1> HIDE DEF g, Do
<1>10. g = [x \in D |-> Do(x, g)]
    BY <1>8, <1>9
<1> QED
    BY <1>10 DEF Do, IsRest, D, done, skips, head, next

----------------------------------------------------------------------------
(* What a walk visits.                                                     *)

\* A commit put in front of others.
LEMMA InFront ==
    ASSUME NEW C, NEW c \in C, NEW s \in Seq(C)
    PROVE  /\ <<c>> \o s \in Seq(C)
           /\ ToSet(<<c>> \o s) = {c} \cup ToSet(s)
           /\ c \notin ToSet(s) /\ Once(s) => Once(<<c>> \o s)
<1> DEFINE t == <<c>> \o s
<1>1. /\ t \in Seq(C) /\ Len(t) = Len(s) + 1 /\ t[1] = c /\ Len(s) \in Nat
      /\ \A i \in 2 .. Len(t) : i - 1 \in 1 .. Len(s) /\ t[i] = s[i - 1]
      /\ \A i \in 1 .. Len(s) : i + 1 \in 2 .. Len(t) /\ t[i + 1] = s[i]
      /\ DOMAIN s = 1 .. Len(s) /\ DOMAIN t = 1 .. Len(t)
    OBVIOUS
<1> HIDE DEF t
<1>2. \A i \in 1 .. Len(t) : i = 1 \/ i \in 2 .. Len(t)
    BY <1>1
<1>3. 1 \in 1 .. Len(t)
    BY <1>1
<1>4. ToSet(t) = {c} \cup ToSet(s)
  <2>1. ASSUME NEW i \in DOMAIN t PROVE t[i] \in {c} \cup ToSet(s)
      BY <1>1, <1>2 DEF ToSet
  <2>2. ASSUME NEW i \in DOMAIN s PROVE s[i] \in ToSet(t)
    <3>1. i + 1 \in DOMAIN t /\ t[i + 1] = s[i]
        BY <1>1, <1>2
    <3> QED
        BY <3>1 DEF ToSet
  <2>3. c \in ToSet(t)
      BY <1>1, <1>3 DEF ToSet
  <2> QED
      BY <2>1, <2>2, <2>3 DEF ToSet
<1>5. ASSUME c \notin ToSet(s), Once(s), NEW i \in DOMAIN t, NEW j \in DOMAIN t, t[i] = t[j] PROVE i = j
  <2>1. ASSUME NEW m \in 2 .. Len(t) PROVE t[m] # c
      BY <1>1, <1>5 DEF ToSet
  <2>2. CASE i = 1 \/ j = 1
      BY <1>1, <1>2, <1>5, <2>1, <2>2
  <2>3. CASE i # 1 /\ j # 1
    <3>1. i - 1 \in DOMAIN s /\ j - 1 \in DOMAIN s /\ s[i - 1] = s[j - 1]
        BY <1>1, <1>2, <1>5, <2>3
    <3>2. i - 1 = j - 1
        BY <1>5, <3>1 DEF Once
    <3> QED
        BY <1>1, <3>2
  <2> QED
      BY <2>2, <2>3
<1> QED
    BY <1>1, <1>4, <1>5 DEF Once, t

\* The loop k walks commits if of those it has still to do (todo) it picks one, which
\* it passes over if it has seen it, and else visits, with more to do after it.
Skip(k, x) ==
    LET y == k.next[x]
    IN  /\ k.seen[y] = k.seen[x]
        /\ k.todo[y] \subseteq k.todo[x]
        /\ k.todo[x] \subseteq k.todo[y] \cup k.seen[x]
Visits(k, x, C, more) ==
    LET y == k.next[x]
        c == k.pick[x]
    IN  /\ c \in C /\ c \notin k.seen[x] /\ c \in k.todo[x]
        /\ k.head[x] = <<c>>
        /\ k.seen[y] = k.seen[x] \cup {c}
        /\ k.todo[y] \subseteq k.todo[x] \cup more[c]
        /\ k.todo[x] \cup more[c] \subseteq k.todo[y] \cup k.seen[y]
IsWalk(k, C, more) ==
    /\ IsLoop(k)
    /\ \A x \in k.states : x \in k.done => k.todo[x] = {}
    /\ \A x \in k.states \ k.done : IF x \in k.skips THEN Skip(k, x) ELSE Visits(k, x, C, more)

\* Out of a state comes a sequence s of commits.
Ends(k, x, s, C, more) ==
    /\ s \in Seq(C) /\ Once(s) /\ ToSet(s) \cap k.seen[x] = {}
    /\ k.todo[x] \subseteq k.seen[x] \cup ToSet(s)
    /\ (\A c \in k.seen[x] : more[c] \subseteq k.seen[x] \cup k.todo[x]) =>
          \A c \in k.seen[x] \cup ToSet(s) : more[c] \subseteq k.seen[x] \cup ToSet(s)
    /\ \A R : k.todo[x] \subseteq R /\ (\A c \in R : more[c] \subseteq R) => ToSet(s) \subseteq R

\* A walk visits, each once, the commits that can be reached from those it has to do.
LEMMA WalkEnds ==
    ASSUME NEW C, NEW more, NEW k, IsWalk(k, C, more), NEW w, IsRest(w, k), NEW x \in k.states
    PROVE  Ends(k, x, w[x], C, more)
<1> DEFINE Good(n) == \A y \in k.states : k.mu[y] < n => Ends(k, y, w[y], C, more)
           T == {n \in Nat : Good(n)}
<1>1. 0 \in T
    BY DEF IsWalk, IsLoop
<1>2. ASSUME NEW n \in Nat, n \in T, NEW y \in k.states, k.mu[y] < n + 1
      PROVE  Ends(k, y, w[y], C, more)
  <2> DEFINE z == k.next[y]
  <2>1. w[y] = Turn(y, w, k.done, k.skips, k.head, k.next)
      BY DEF IsRest
  <2>2. CASE y \in k.done
    <3>1. w[y] = <<>> /\ k.todo[y] = {}
        BY <2>1, <2>2 DEF Turn, IsWalk
    <3>2. ToSet(w[y]) = {} /\ Once(w[y]) /\ w[y] \in Seq(C)
        BY <3>1 DEF ToSet, Once
    <3> QED
        BY <3>1, <3>2 DEF Ends
  <2>3. y \notin k.done => z \in k.states /\ Ends(k, z, w[z], C, more)
    <3> SUFFICES ASSUME y \notin k.done PROVE z \in k.states /\ Ends(k, z, w[z], C, more)
        OBVIOUS
    <3>1. z \in k.states /\ k.mu[z] < k.mu[y] /\ k.mu[z] \in Nat /\ k.mu[y] \in Nat
        BY DEF IsWalk, IsLoop
    <3>2. k.mu[z] < n
        BY <1>2, <3>1
    <3> QED
        BY <1>2, <3>1, <3>2
  <2>4. CASE y \notin k.done /\ y \in k.skips
    <3>1. w[y] = w[z]
        BY <2>1, <2>4 DEF Turn
    <3>2. /\ k.seen[z] = k.seen[y] /\ k.todo[z] \subseteq k.todo[y]
          /\ k.todo[y] \subseteq k.todo[z] \cup k.seen[y]
        BY <2>4 DEF IsWalk, Skip
    <3> DEFINE s == w[z]
    <3>3. Ends(k, z, s, C, more)
        BY <2>3, <2>4
    <3> HIDE DEF s, z
    <3>4. Ends(k, y, s, C, more)
        BY <3>2, <3>3 DEF Ends
    <3> QED
        BY <3>1, <3>4 DEF s
  <2>5. CASE y \notin k.done /\ y \notin k.skips
    <3> DEFINE s == w[z]
               c == k.pick[y]
    <3>1. w[y] = <<c>> \o s
      <4>1. k.head[y] = <<c>>
          BY <2>5 DEF IsWalk, Visits
      <4> QED
          BY <2>1, <2>5, <4>1 DEF Turn
    <3>2. /\ c \in C /\ c \notin k.seen[y] /\ c \in k.todo[y]
          /\ k.seen[z] = k.seen[y] \cup {c}
          /\ k.todo[z] \subseteq k.todo[y] \cup more[c]
          /\ k.todo[y] \cup more[c] \subseteq k.todo[z] \cup k.seen[z]
        BY <2>5 DEF IsWalk, Visits
    <3>3. Ends(k, z, s, C, more)
        BY <2>3, <2>5
    <3> HIDE DEF s, z, c
    <3>4. s \in Seq(C) /\ c \notin ToSet(s) /\ Once(s)
        BY <3>2, <3>3 DEF Ends
    <3>5. <<c>> \o s \in Seq(C) /\ Once(<<c>> \o s) /\ ToSet(<<c>> \o s) = {c} \cup ToSet(s)
        BY <3>2, <3>4, InFront
    <3>6. ASSUME \A d \in k.seen[y] : more[d] \subseteq k.seen[y] \cup k.todo[y]
          PROVE  \A d \in k.seen[y] \cup ({c} \cup ToSet(s)) :
                     more[d] \subseteq k.seen[y] \cup ({c} \cup ToSet(s))
      <4>1. \A d \in k.seen[z] : more[d] \subseteq k.seen[z] \cup k.todo[z]
          BY <3>2, <3>6
      <4>2. \A d \in k.seen[z] \cup ToSet(s) : more[d] \subseteq k.seen[z] \cup ToSet(s)
          BY <3>3, <4>1 DEF Ends
      <4> QED
          BY <3>2, <4>2
    <3>7. ASSUME NEW R, k.todo[y] \subseteq R, \A d \in R : more[d] \subseteq R
          PROVE  {c} \cup ToSet(s) \subseteq R
      <4>1. k.todo[z] \subseteq R
          BY <3>2, <3>7
      <4>2. ToSet(s) \subseteq R
          BY <3>3, <3>7, <4>1 DEF Ends
      <4> QED
          BY <3>2, <3>7, <4>2
    <3>8. k.todo[y] \subseteq k.seen[y] \cup ({c} \cup ToSet(s))
        BY <3>2, <3>3 DEF Ends
    <3>9. ({c} \cup ToSet(s)) \cap k.seen[y] = {}
        BY <3>2, <3>3 DEF Ends
    <3>10. Ends(k, y, <<c>> \o s, C, more)
      <4> DEFINE t == <<c>> \o s
      <4>1. t \in Seq(C) /\ Once(t) /\ ToSet(t) = {c} \cup ToSet(s)
          BY <3>5
      <4> HIDE DEF t
      <4>2. Ends(k, y, t, C, more)
          BY <3>6, <3>7, <3>8, <3>9, <4>1 DEF Ends
      <4> QED
          BY <4>2 DEF t
    <3> QED
        BY <3>1, <3>10
  <2> QED
      BY <2>2, <2>4, <2>5
<1>3. ASSUME NEW n \in Nat, n \in T PROVE n + 1 \in T
    BY <1>2, <1>3
<1> HIDE DEF T
<1>4. Nat \subseteq T
    BY <1>1, <1>3, SetInduction
<1>5. k.mu[x] \in Nat /\ k.mu[x] + 1 \in T /\ k.mu[x] < k.mu[x] + 1
  <2>1. k.mu[x] \in Nat
      BY DEF IsWalk, IsLoop
  <2> QED
      BY <1>4, <2>1
<1> QED
    BY <1>5 DEF T

----------------------------------------------------------------------------
(* Histories.                                                              *)

\* Commits are inserted after their parents, of which there are at most two.
HistoryOK ==
    /\ parents \in Seq(Seq(Nat)) /\ when \in Seq(Times) /\ Len(when) = Len(parents)
    /\ \A c \in Commits : ToSet(parents[c]) \subseteq 1 .. c - 1 /\ Len(parents[c]) <= 2

\* What is known of the parents of a commit.
LEMMA ParentsOK ==
    ASSUME HistoryOK, NEW c \in Commits
    PROVE  /\ parents[c] \in Seq(Commits) /\ Len(parents[c]) \in Nat /\ Len(parents[c]) <= 2
           /\ \A p \in ToSet(parents[c]) : p \in Commits /\ p < c
           /\ c \in Nat /\ when[c] \in Nat
<1>1. Len(parents) \in Nat /\ c \in 1 .. Len(parents) /\ c \in 1 .. Len(when)
    BY DEF HistoryOK, Commits
<1>2. when[c] \in Nat
  <2>1. when \in Seq(Times)
      BY DEF HistoryOK
  <2>2. when[c] \in Times
      BY <1>1, <2>1
  <2> QED
      BY <2>2, HistoryAssumption
<1>3. parents[c] \in Seq(Nat) /\ ToSet(parents[c]) \subseteq 1 .. c - 1 /\ Len(parents[c]) <= 2
  <2>1. parents \in Seq(Seq(Nat))
      BY DEF HistoryOK
  <2>2. parents[c] \in Seq(Nat)
      BY <1>1, <2>1
  <2> QED
      BY <2>2 DEF HistoryOK
<1>4. \A p \in 1 .. c - 1 : p \in 1 .. Len(parents) /\ p < c
    BY <1>1
<1>5. \A i \in 1 .. Len(parents[c]) : parents[c][i] \in ToSet(parents[c])
    BY <1>3 DEF ToSet
<1>6. parents[c] \in Seq(1 .. Len(parents))
    BY <1>3, <1>4, <1>5
<1>7. \A p \in ToSet(parents[c]) : p \in 1 .. Len(parents) /\ p < c
    BY <1>3, <1>4
<1>8. Len(parents[c]) \in Nat /\ Len(parents[c]) <= 2
    BY <1>3
<1>9. c \in Nat
    BY <1>1
<1> QED
    BY <1>2, <1>6, <1>7, <1>8, <1>9 DEF Commits

LEMMA CommitNumbers == HistoryOK => Len(parents) \in Nat
BY DEF HistoryOK

\* A commit's history is the commit and its parents' histories.
LEMMA HistoryStep ==
    ASSUME HistoryOK
    PROVE  History = [c \in Commits |-> {c} \cup UNION {History[p] : p \in ToSet(parents[c])}]
<1> DEFINE H(f, c) == {c} \cup UNION {f[p] : p \in ToSet(parents[c])}
           F(n, f) == [c \in 1 .. n |-> H(f, c)]
           T == {n \in Nat : n <= Len(parents) => \E f : f = F(n, f)}
<1>1. 0 \in T
  <2> DEFINE f == [c \in {} |-> c]
  <2>1. f = F(0, f)
      OBVIOUS
  <2> QED
      BY <2>1
<1>2. ASSUME NEW n \in Nat, n \in T PROVE n + 1 \in T
  <2> SUFFICES ASSUME n + 1 <= Len(parents) PROVE \E f : f = F(n + 1, f)
      OBVIOUS
  <2>0. Len(parents) \in Nat
      BY CommitNumbers
  <2>1. PICK f : f = F(n, f)
      BY <1>2, <2>0
  <2> DEFINE g == [c \in 1 .. n + 1 |-> IF c \in 1 .. n THEN f[c] ELSE H(f, c)]
  <2>2. ASSUME NEW c \in 1 .. n + 1 PROVE g[c] = H(g, c)
    <3>1. c \in Commits
        BY <2>0 DEF Commits
    <3>2. ASSUME NEW p \in ToSet(parents[c]) PROVE g[p] = f[p]
      <4>1. p \in 1 .. Len(parents) /\ p < c
          BY <3>1, ParentsOK DEF Commits
      <4>2. p \in 1 .. n /\ p \in 1 .. n + 1
          BY <2>0, <4>1
      <4> QED
          BY <4>2
    <3>4. H(g, c) = H(f, c)
      <4> HIDE DEF g
      <4>1. {g[p] : p \in ToSet(parents[c])} = {f[p] : p \in ToSet(parents[c])}
          BY <3>2
      <4> QED
          BY <4>1
    <3>5. c \in 1 .. n => f[c] = H(f, c)
        BY <2>1
    <3>6. g[c] = IF c \in 1 .. n THEN f[c] ELSE H(f, c)
        OBVIOUS
    <3> HIDE DEF H, g
    <3> QED
        BY <3>4, <3>5, <3>6
  <2>3. g = [c \in 1 .. n + 1 |-> g[c]]
      OBVIOUS
  <2> HIDE DEF g, H
  <2>4. g = F(n + 1, g)
      BY <2>2, <2>3
  <2> HIDE DEF F
  <2> QED
      BY <2>4
<1> HIDE DEF T
<1>3. Len(parents) \in T
    BY <1>1, <1>2, SetInduction, CommitNumbers
<1>4. \E f : f = F(Len(parents), f)
    BY <1>3, CommitNumbers DEF T
<1>5. \E f : f = [c \in Commits |-> {c} \cup UNION {f[p] : p \in ToSet(parents[c])}]
    BY <1>4 DEF Commits
<1> QED
    BY <1>5 DEF History

\* A set of commits with the parents of each.
Closed(R) == R \subseteq Commits /\ \A d \in R : ToSet(parents[d]) \subseteq R

\* A history is the smallest closed set with its commit.
LEMMA HistoryIsLeast ==
    ASSUME HistoryOK, NEW c \in Commits
    PROVE  /\ c \in History[c] /\ Closed(History[c])
           /\ \A R : Closed(R) /\ c \in R => History[c] \subseteq R
           /\ \A d \in History[c] : d <= c
<1> DEFINE Good(b) == /\ b \in History[b] /\ Closed(History[b])
                      /\ \A R : Closed(R) /\ b \in R => History[b] \subseteq R
                      /\ \A d \in History[b] : d <= b
           T == {n \in Nat : \A b \in Commits : b <= n => Good(b)}
<1>1. 0 \in T
    BY DEF Commits
<1>2. ASSUME NEW n \in Nat, n \in T, NEW b \in Commits, b <= n + 1 PROVE Good(b)
  <2>1. History[b] = {b} \cup UNION {History[p] : p \in ToSet(parents[b])}
      BY HistoryStep
  <2>2. ASSUME NEW p \in ToSet(parents[b]) PROVE p \in Commits /\ p < b /\ Good(p)
    <3>1. p \in Commits /\ p < b /\ b \in Nat /\ p \in Nat
        BY ParentsOK DEF Commits
    <3>2. p <= n
        BY <1>2, <3>1
    <3> QED
        BY <1>2, <3>1, <3>2
  <2>3. b \in Nat
      BY DEF Commits
  <2>4. Closed(History[b])
    <3>1. History[b] \subseteq Commits
        BY <2>1, <2>2 DEF Closed
    <3>2. ASSUME NEW d \in History[b] PROVE ToSet(parents[d]) \subseteq History[b]
      <4>1. CASE d = b
          BY <2>1, <2>2, <4>1
      <4>2. CASE d # b
        <5>1. PICK p \in ToSet(parents[b]) : d \in History[p]
            BY <2>1, <4>2
        <5>2. ToSet(parents[d]) \subseteq History[p]
            BY <2>2, <5>1 DEF Closed
        <5> QED
            BY <2>1, <5>2
      <4> QED
          BY <4>1, <4>2
    <3> QED
        BY <3>1, <3>2 DEF Closed
  <2>5. ASSUME NEW R, Closed(R), b \in R PROVE History[b] \subseteq R
    <3>1. \A p \in ToSet(parents[b]) : p \in R
        BY <2>5 DEF Closed
    <3>2. \A p \in ToSet(parents[b]) : History[p] \subseteq R
        BY <2>2, <2>5, <3>1
    <3> QED
        BY <2>1, <2>5, <3>2
  <2>6. ASSUME NEW d \in History[b] PROVE d <= b
    <3>1. CASE d = b
        BY <2>3, <3>1
    <3>2. CASE d # b
      <4>1. PICK p \in ToSet(parents[b]) : d \in History[p]
          BY <2>1, <3>2
      <4>2. d <= p /\ p < b /\ d \in Commits /\ p \in Commits
          BY <2>2, <4>1 DEF Closed
      <4> QED
          BY <4>2, <2>3 DEF Commits
    <3> QED
        BY <3>1, <3>2
  <2> QED
      BY <2>1, <2>4, <2>5, <2>6
<1>3. ASSUME NEW n \in Nat, n \in T PROVE n + 1 \in T
    BY <1>2, <1>3
<1> HIDE DEF T
<1>4. c \in Nat /\ c \in T /\ c <= c
    BY <1>1, <1>3, SetInduction DEF Commits
<1> QED
    BY <1>4 DEF T

\* The history of a commit in a history is part of it, and no two commits are in
\* each other's.
LEMMA HistoryNests ==
    ASSUME HistoryOK, NEW c \in Commits, NEW d \in History[c]
    PROVE  d \in Commits /\ History[d] \subseteq History[c] /\ (c \in History[d] => c = d)
<1>1. d \in Commits /\ d <= c
    BY HistoryIsLeast DEF Closed
<1>2. History[d] \subseteq History[c]
    BY <1>1, HistoryIsLeast
<1>3. c \in History[d] => c <= d
    BY <1>1, HistoryIsLeast
<1> QED
    BY <1>1, <1>2, <1>3 DEF Commits

----------------------------------------------------------------------------
(* The walks over a line of commits.                                       *)

MoreOf(limit) == [c \in Commits |-> ToSet(More(c, limit))]

\* One after the other.
LEMMA InOrder ==
    ASSUME NEW C, NEW s \in Seq(C), NEW t \in Seq(C)
    PROVE  s \o t \in Seq(C) /\ ToSet(s \o t) = ToSet(s) \cup ToSet(t) /\ Len(s \o t) = Len(s) + Len(t)
<1> DEFINE u == s \o t
<1>1. /\ u \in Seq(C) /\ Len(u) = Len(s) + Len(t) /\ Len(s) \in Nat /\ Len(t) \in Nat
      /\ DOMAIN u = 1 .. Len(u) /\ DOMAIN s = 1 .. Len(s) /\ DOMAIN t = 1 .. Len(t)
    OBVIOUS
<1>2. \A i \in 1 .. Len(s) : i \in 1 .. Len(u) /\ u[i] = s[i]
    OBVIOUS
<1>3. \A i \in 1 .. Len(t) : Len(s) + i \in 1 .. Len(u) /\ u[Len(s) + i] = t[i]
    OBVIOUS
<1>4. ASSUME NEW i \in 1 .. Len(u) PROVE u[i] \in ToSet(s) \cup ToSet(t)
  <2>1. CASE i <= Len(s)
    <3>1. i \in 1 .. Len(s)
        BY <1>1, <2>1
    <3> QED
        BY <1>1, <1>2, <3>1 DEF ToSet
  <2>2. CASE i > Len(s)
    <3>1. i - Len(s) \in 1 .. Len(t) /\ Len(s) + (i - Len(s)) = i
        BY <1>1, <2>2
    <3>2. u[i] = t[i - Len(s)]
        BY <1>3, <3>1
    <3> QED
        BY <1>1, <3>1, <3>2 DEF ToSet
  <2> QED
      BY <1>1, <2>1, <2>2
<1> HIDE DEF u
<1>5. ToSet(u) = ToSet(s) \cup ToSet(t)
  <2>1. ToSet(u) \subseteq ToSet(s) \cup ToSet(t)
    <3> SUFFICES ASSUME NEW x \in ToSet(u) PROVE x \in ToSet(s) \cup ToSet(t)
        OBVIOUS
    <3>1. PICK i \in DOMAIN u : x = u[i]
        BY DEF ToSet
    <3> QED
        BY <1>1, <1>4, <3>1
  <2>2. ToSet(s) \subseteq ToSet(u)
      BY <1>1, <1>2 DEF ToSet
  <2>3. ToSet(t) \subseteq ToSet(u)
      BY <1>1, <1>3 DEF ToSet
  <2> QED
      BY <2>1, <2>2, <2>3
<1> QED
    BY <1>1, <1>5 DEF u

\* Backwards.
LEMMA Backwards ==
    ASSUME NEW C, NEW s \in Seq(C)
    PROVE  Reverse(s) \in Seq(C) /\ ToSet(Reverse(s)) = ToSet(s) /\ Len(Reverse(s)) = Len(s)
<1> DEFINE r == Reverse(s)
           n == Len(s)
<1>1. n \in Nat /\ DOMAIN s = 1 .. n /\ r = [i \in 1 .. n |-> s[(n - i) + 1]]
    BY DEF Reverse
<1>2. \A i \in 1 .. n : (n - i) + 1 \in 1 .. n /\ (n - ((n - i) + 1)) + 1 = i
    BY <1>1
<1>3. r \in [1 .. n -> C]
    BY <1>1, <1>2
<1>4. r \in Seq(C) /\ Len(r) = n
    BY <1>1, <1>3
<1> HIDE DEF r, n
<1>5. \A i \in 1 .. n : r[i] = s[(n - i) + 1] /\ r[(n - i) + 1] = s[i]
    BY <1>1, <1>2
<1>6. ToSet(r) = ToSet(s)
  <2>1. DOMAIN r = 1 .. n
      BY <1>1
  <2> QED
      BY <1>1, <1>2, <1>5, <2>1 DEF ToSet
<1> QED
    BY <1>4, <1>6 DEF r, n

\* The first of a line, and what is behind it.
LEMMA FrontOfLine ==
    ASSUME NEW C, NEW s \in Seq(C), s # <<>>
    PROVE  /\ Head(s) \in C /\ Tail(s) \in Seq(C) /\ Len(Tail(s)) + 1 = Len(s) /\ Len(Tail(s)) \in Nat
           /\ ToSet(s) = {Head(s)} \cup ToSet(Tail(s))
<1>1. Head(s) \in C /\ Tail(s) \in Seq(C) /\ Len(Tail(s)) + 1 = Len(s) /\ Len(Tail(s)) \in Nat
    OBVIOUS
<1>2. s = <<Head(s)>> \o Tail(s)
    OBVIOUS
<1> DEFINE h == Head(s)
           t == Tail(s)
<1> HIDE DEF h, t
<1>3. ToSet(<<h>> \o t) = {h} \cup ToSet(t)
    BY <1>1, InFront DEF h, t
<1> QED
    BY <1>1, <1>2, <1>3 DEF h, t

\* What a turn does to the line: next may put the parents of the commit where it
\* likes.
Joins(next, limit) ==
    \A w \in Lines : w.line # <<>> =>
        LET c == Head(w.line)
            t == Tail(w.line)
            l == next[w].line
        IN  IF c \in w.seen THEN next[w] = [line |-> t, seen |-> w.seen]
            ELSE /\ next[w] = [line |-> l, seen |-> w.seen \cup {c}]
                 /\ l \in Seq(Commits) /\ Len(l) = Len(t) + Len(More(c, limit))
                 /\ ToSet(l) = ToSet(t) \cup ToSet(More(c, limit))

\* The walk over a line as such a loop: for a commit that is no longer unseen, at most
\* two join the line.
Unseen(w) == Cardinality(Commits \ w.seen)
LineLoop(next) ==
    [states |-> Lines,
     done   |-> {w \in Lines : w.line = <<>>},
     skips  |-> {w \in Lines : Head(w.line) \in w.seen},
     next   |-> next,
     head   |-> [w \in Lines |-> <<Head(w.line)>>],
     pick   |-> [w \in Lines |-> Head(w.line)],
     mu     |-> [w \in Lines |-> Len(w.line) + 3 * Unseen(w)],
     todo   |-> [w \in Lines |-> ToSet(w.line)],
     seen   |-> [w \in Lines |-> w.seen]]

\* A commit that is seen is one less to see.
LEMMA OneLess ==
    ASSUME HistoryOK, NEW S \in SUBSET Commits, NEW c \in Commits, c \notin S
    PROVE  /\ Cardinality(Commits \ S) \in Nat
           /\ Cardinality(Commits \ (S \cup {c})) = Cardinality(Commits \ S) - 1
<1>1. IsFiniteSet(Commits)
  <2>1. Len(parents) \in Nat
      BY CommitNumbers
  <2>2. 1 \in Int /\ Len(parents) \in Int
      BY <2>1
  <2> QED
      BY <2>2, FS_Interval DEF Commits
<1> DEFINE U == Commits \ S
<1>2. IsFiniteSet(U)
    BY <1>1, FS_Difference
<1>3. Cardinality(U) \in Nat
    BY <1>2, FS_CardinalityType
<1>4. c \in U /\ Commits \ (S \cup {c}) = U \ {c}
    OBVIOUS
<1>5. Cardinality(U \ {c}) = Cardinality(U) - 1
    BY <1>2, <1>4, FS_RemoveElement
<1> QED
    BY <1>3, <1>4, <1>5

LEMMA UnseenNat == ASSUME HistoryOK, NEW S \in SUBSET Commits PROVE Cardinality(Commits \ S) \in Nat
<1>1. Len(parents) \in Nat
    BY CommitNumbers
<1>2. 1 \in Int /\ Len(parents) \in Int
    BY <1>1
<1>3. IsFiniteSet(Commits)
    BY <1>2, FS_Interval DEF Commits
<1>4. IsFiniteSet(Commits \ S)
    BY <1>3, FS_Difference
<1> QED
    BY <1>4, FS_CardinalityType

\* The parents that a walk goes on to.
LEMMA MoreOK ==
    ASSUME HistoryOK, NEW limit, NEW c \in Commits
    PROVE  /\ More(c, limit) \in Seq(Commits)
           /\ Len(More(c, limit)) \in Nat /\ Len(More(c, limit)) <= 2
           /\ ToSet(More(c, limit)) \subseteq Commits
           /\ MoreOf(limit)[c] = ToSet(More(c, limit))
<1>1. More(c, limit) \in Seq(Commits) /\ Len(More(c, limit)) \in Nat /\ Len(More(c, limit)) <= 2
    BY ParentsOK DEF More
<1> DEFINE m == More(c, limit)
<1> HIDE DEF m
<1>2. ToSet(m) \subseteq Commits
    BY <1>1 DEF ToSet, m
<1> QED
    BY <1>1, <1>2 DEF m, MoreOf

LEMMA LineIsWalk ==
    ASSUME HistoryOK, NEW limit, NEW next, Joins(next, limit)
    PROVE  IsWalk(LineLoop(next), Commits, MoreOf(limit))
<1> DEFINE k == LineLoop(next)
           more == MoreOf(limit)
<1>1. /\ k.states = Lines /\ k.next = next
      /\ k.done = {w \in Lines : w.line = <<>>}
      /\ k.skips = {w \in Lines : Head(w.line) \in w.seen}
    BY DEF LineLoop
<1>2. ASSUME NEW w \in Lines
      PROVE  /\ k.head[w] = <<Head(w.line)>> /\ k.pick[w] = Head(w.line)
             /\ k.mu[w] = Len(w.line) + 3 * Unseen(w)
             /\ k.todo[w] = ToSet(w.line) /\ k.seen[w] = w.seen
    BY DEF LineLoop
<1> HIDE DEF k
<1>3. ASSUME NEW w \in Lines
      PROVE  /\ w.line \in Seq(Commits) /\ w.seen \in SUBSET Commits
             /\ Len(w.line) \in Nat /\ Unseen(w) \in Nat
  <2>1. w.line \in Seq(Commits) /\ w.seen \in SUBSET Commits
      BY DEF Lines
  <2>2. Unseen(w) \in Nat
      BY <2>1, UnseenNat DEF Unseen
  <2> QED
      BY <2>1, <2>2
<1>4. \A w \in Lines : k.mu[w] \in Nat
    BY <1>2, <1>3
<1>5. ASSUME NEW w \in Lines, w.line # <<>>
      PROVE  LET c == Head(w.line)
                 t == Tail(w.line)
             IN  /\ c \in Commits /\ t \in Seq(Commits) /\ Len(t) + 1 = Len(w.line) /\ Len(t) \in Nat
                 /\ ToSet(w.line) = {c} \cup ToSet(t)
    BY <1>3, <1>5, FrontOfLine
<1>6. ASSUME NEW w \in Lines, w.line # <<>>, Head(w.line) \in w.seen
      PROVE  next[w] \in Lines /\ k.mu[next[w]] < k.mu[w] /\ Skip(k, w)
  <2> DEFINE t == Tail(w.line)
             v == [line |-> t, seen |-> w.seen]
  <2>1. next[w] = v
      BY <1>6 DEF Joins
  <2>2. t \in Seq(Commits) /\ w.seen \in SUBSET Commits
      BY <1>3, <1>5, <1>6
  <2>3. v \in Lines /\ v.line = t /\ v.seen = w.seen
      BY <2>2 DEF Lines
  <2>4. Unseen(v) = Unseen(w)
      BY <2>3 DEF Unseen
  <2>5. k.mu[v] < k.mu[w]
    <3>1. Len(t) + 1 = Len(w.line) /\ Len(t) \in Nat /\ Unseen(w) \in Nat
        BY <1>3, <1>5, <1>6
    <3>2. k.mu[v] = Len(t) + 3 * Unseen(w) /\ k.mu[w] = Len(w.line) + 3 * Unseen(w)
        BY <1>2, <2>3, <2>4
    <3> QED
        BY <3>1, <3>2
  <2>6. k.seen[v] = k.seen[w] /\ k.todo[v] = ToSet(t) /\ k.seen[w] = w.seen
           /\ k.todo[w] = {Head(w.line)} \cup ToSet(t)
      BY <1>2, <1>5, <1>6, <2>3
  <2> HIDE DEF v
  <2>7. Skip(k, w)
      BY <1>1, <1>6, <2>1, <2>6 DEF Skip
  <2> QED
      BY <2>1, <2>3, <2>5, <2>7
<1>7. ASSUME NEW w \in Lines, w.line # <<>>, Head(w.line) \notin w.seen
      PROVE  next[w] \in Lines /\ k.mu[next[w]] < k.mu[w] /\ Visits(k, w, Commits, more)
  <2> DEFINE c == Head(w.line)
             t == Tail(w.line)
             l == next[w].line
             v == [line |-> l, seen |-> w.seen \cup {c}]
             m == More(c, limit)
  <2>1. next[w] = v /\ l \in Seq(Commits) /\ Len(l) = Len(t) + Len(m) /\ ToSet(l) = ToSet(t) \cup ToSet(m)
      BY <1>7 DEF Joins
  <2>2. /\ c \in Commits /\ Len(t) + 1 = Len(w.line) /\ Len(t) \in Nat
        /\ ToSet(w.line) = {c} \cup ToSet(t)
      BY <1>5, <1>7
  <2>3. Len(m) \in Nat /\ Len(m) <= 2 /\ more[c] = ToSet(m)
      BY <2>2, MoreOK
  <2> HIDE DEF l, m, more
  <2>4. v \in Lines /\ v.line = l /\ v.seen = w.seen \cup {c}
      BY <1>3, <2>1, <2>2 DEF Lines
  <2>5. Unseen(v) = Unseen(w) - 1
      BY <1>3, <1>7, <2>2, <2>4, OneLess DEF Unseen
  <2>6. k.mu[v] < k.mu[w]
    <3>1. Len(w.line) \in Nat /\ Unseen(w) \in Nat
        BY <1>3
    <3>2. k.mu[v] = Len(l) + 3 * (Unseen(w) - 1) /\ k.mu[w] = Len(w.line) + 3 * Unseen(w)
        BY <1>2, <2>4, <2>5
    <3> QED
        BY <2>1, <2>2, <2>3, <3>1, <3>2
  <2>7. /\ k.seen[v] = w.seen \cup {c} /\ k.seen[w] = w.seen /\ k.pick[w] = c /\ k.head[w] = <<c>>
        /\ k.todo[v] = ToSet(t) \cup more[c] /\ k.todo[w] = {c} \cup ToSet(t)
      BY <1>2, <2>1, <2>2, <2>3, <2>4
  <2> HIDE DEF v, c
  <2>8. Visits(k, w, Commits, more)
      BY <1>1, <1>7, <2>1, <2>2, <2>7 DEF Visits, c
  <2> QED
      BY <2>1, <2>4, <2>6, <2>8
<1>8. \A w \in Lines : w \in k.done => k.todo[w] = {}
    BY <1>1, <1>2 DEF ToSet
<1> HIDE DEF more
<1>9. IsLoop(k)
    BY <1>1, <1>4, <1>6, <1>7 DEF IsLoop
<1>10. IsWalk(k, Commits, more)
    BY <1>1, <1>6, <1>7, <1>8, <1>9 DEF IsWalk
<1> QED
    BY <1>10 DEF k, more

\* The commits of s are, each once, those that can be reached from one: no set that
\* has it and the parents that are gone on to is smaller.
Reaches(s, from, limit) ==
    /\ s \in Seq(Commits) /\ Once(s) /\ from \in ToSet(s)
    /\ \A c \in ToSet(s) : ToSet(More(c, limit)) \subseteq ToSet(s)
    /\ \A R \in SUBSET Commits :
          from \in R /\ (\A c \in R : ToSet(More(c, limit)) \subseteq R) => ToSet(s) \subseteq R

LEMMA LineReaches ==
    ASSUME HistoryOK, NEW limit, NEW next, Joins(next, limit), NEW from \in Commits,
           NEW w, IsRest(w, LineLoop(next))
    PROVE  Reaches(w[[line |-> <<from>>, seen |-> {}]], from, limit)
<1> DEFINE k == LineLoop(next)
           more == MoreOf(limit)
           x == [line |-> <<from>>, seen |-> {}]
           s == w[x]
<1>1. x \in Lines /\ ToSet(<<from>>) = {from}
    BY DEF Lines, ToSet
<1>2. k.states = Lines /\ k.todo[x] = {from} /\ k.seen[x] = {}
    BY <1>1 DEF LineLoop
<1>3. Ends(k, x, s, Commits, more)
    BY <1>1, <1>2, LineIsWalk, WalkEnds
<1> HIDE DEF k, x, s
<1>4. s \in Seq(Commits) /\ Once(s) /\ from \in ToSet(s)
    BY <1>2, <1>3 DEF Ends
<1>5. ToSet(s) \subseteq Commits
    BY <1>4 DEF ToSet
<1>6. \A c \in Commits : more[c] = ToSet(More(c, limit))
    BY MoreOK
<1> HIDE DEF more
<1>7. \A c \in ToSet(s) : more[c] \subseteq ToSet(s)
    BY <1>2, <1>3 DEF Ends
<1>8. \A R : from \in R /\ (\A c \in R : more[c] \subseteq R) => ToSet(s) \subseteq R
    BY <1>2, <1>3 DEF Ends
<1>9. \A c \in ToSet(s) : ToSet(More(c, limit)) \subseteq ToSet(s)
    BY <1>5, <1>6, <1>7
<1>10. ASSUME NEW R \in SUBSET Commits, from \in R, \A c \in R : ToSet(More(c, limit)) \subseteq R
       PROVE  ToSet(s) \subseteq R
  <2>1. \A c \in R : more[c] \subseteq R
      BY <1>6, <1>10
  <2> QED
      BY <1>8, <1>10, <2>1
<1>11. Reaches(s, from, limit)
    BY <1>4, <1>9, <1>10 DEF Reaches
<1> QED
    BY <1>11 DEF s, x

\* A walk that joins the parents to its line in any way reaches what it should:
\* its recursive function is what is to come of the loop.
RestOfLine(w, next) ==
    w = [x \in Lines |->
            IF x.line = <<>> THEN <<>>
            ELSE IF Head(x.line) \in x.seen THEN w[next[x]] ELSE <<Head(x.line)>> \o w[next[x]]]

LEMMA LineRest ==
    ASSUME NEW w, NEW next
    PROVE  IsRest(w, LineLoop(next)) <=> RestOfLine(w, next)
<1> DEFINE k == LineLoop(next)
<1>1. k.states = Lines /\ k.next = next
    BY DEF LineLoop
<1>2. ASSUME NEW x \in Lines
      PROVE  Turn(x, w, k.done, k.skips, k.head, k.next) =
                 IF x.line = <<>> THEN <<>>
                 ELSE IF Head(x.line) \in x.seen THEN w[next[x]] ELSE <<Head(x.line)>> \o w[next[x]]
  <2>1. /\ x \in k.done <=> x.line = <<>>
        /\ x \in k.skips <=> Head(x.line) \in x.seen
        /\ k.head[x] = <<Head(x.line)>>
      BY DEF LineLoop
  <2> HIDE DEF k
  <2> QED
      BY <1>1, <2>1 DEF Turn
<1> HIDE DEF k
<1>3. [x \in Lines |-> Turn(x, w, k.done, k.skips, k.head, k.next)] =
      [x \in Lines |->
          IF x.line = <<>> THEN <<>>
          ELSE IF Head(x.line) \in x.seen THEN w[next[x]] ELSE <<Head(x.line)>> \o w[next[x]]]
    BY <1>2
<1> QED
    BY <1>1, <1>3 DEF IsRest, RestOfLine, k

\* Where the three walks put the parents.
AtTheEnd(limit) ==
    [x \in Lines |->
        IF Head(x.line) \in x.seen THEN [line |-> Tail(x.line), seen |-> x.seen]
        ELSE [line |-> Tail(x.line) \o More(Head(x.line), limit), seen |-> x.seen \cup {Head(x.line)}]]
InFrontOf(limit) ==
    [x \in Lines |->
        IF Head(x.line) \in x.seen THEN [line |-> Tail(x.line), seen |-> x.seen]
        ELSE [line |-> More(Head(x.line), limit) \o Tail(x.line), seen |-> x.seen \cup {Head(x.line)}]]
LastInFront(limit) ==
    [x \in Lines |->
        IF Head(x.line) \in x.seen THEN [line |-> Tail(x.line), seen |-> x.seen]
        ELSE [line |-> Reverse(More(Head(x.line), limit)) \o Tail(x.line),
              seen |-> x.seen \cup {Head(x.line)}]]

LEMMA TheyJoin ==
    ASSUME HistoryOK, NEW limit
    PROVE  /\ Joins(AtTheEnd(limit), limit) /\ Joins(InFrontOf(limit), limit)
           /\ Joins(LastInFront(limit), limit)
<1> SUFFICES ASSUME NEW x \in Lines, x.line # <<>>
             PROVE  LET c == Head(x.line)
                        t == Tail(x.line)
                        Joined(n) ==
                            IF c \in x.seen THEN n = [line |-> t, seen |-> x.seen]
                            ELSE /\ n = [line |-> n.line, seen |-> x.seen \cup {c}]
                                 /\ n.line \in Seq(Commits) /\ Len(n.line) = Len(t) + Len(More(c, limit))
                                 /\ ToSet(n.line) = ToSet(t) \cup ToSet(More(c, limit))
                    IN  /\ Joined(AtTheEnd(limit)[x]) /\ Joined(InFrontOf(limit)[x])
                        /\ Joined(LastInFront(limit)[x])
    BY DEF Joins
<1> DEFINE c == Head(x.line)
           t == Tail(x.line)
           m == More(c, limit)
<1>1. x.line \in Seq(Commits)
    BY DEF Lines
<1>2. c \in Commits /\ t \in Seq(Commits) /\ Len(t) \in Nat
    BY <1>1, FrontOfLine
<1>3. m \in Seq(Commits) /\ Len(m) \in Nat
    BY <1>2, MoreOK
<1>4. Reverse(m) \in Seq(Commits) /\ ToSet(Reverse(m)) = ToSet(m) /\ Len(Reverse(m)) = Len(m)
    BY <1>3, Backwards
<1> DEFINE r == Reverse(m)
<1>5. /\ AtTheEnd(limit)[x] = IF c \in x.seen THEN [line |-> t, seen |-> x.seen]
                              ELSE [line |-> t \o m, seen |-> x.seen \cup {c}]
      /\ InFrontOf(limit)[x] = IF c \in x.seen THEN [line |-> t, seen |-> x.seen]
                               ELSE [line |-> m \o t, seen |-> x.seen \cup {c}]
      /\ LastInFront(limit)[x] = IF c \in x.seen THEN [line |-> t, seen |-> x.seen]
                                 ELSE [line |-> r \o t, seen |-> x.seen \cup {c}]
    BY DEF AtTheEnd, InFrontOf, LastInFront
<1> HIDE DEF r, m, t, c
<1>6. /\ t \o m \in Seq(Commits) /\ ToSet(t \o m) = ToSet(t) \cup ToSet(m) /\ Len(t \o m) = Len(t) + Len(m)
      /\ m \o t \in Seq(Commits) /\ ToSet(m \o t) = ToSet(t) \cup ToSet(m) /\ Len(m \o t) = Len(t) + Len(m)
      /\ r \o t \in Seq(Commits) /\ ToSet(r \o t) = ToSet(t) \cup ToSet(m) /\ Len(r \o t) = Len(t) + Len(m)
    BY <1>2, <1>3, <1>4, InOrder DEF r
<1>7. ASSUME NEW n, NEW l, l \in Seq(Commits), ToSet(l) = ToSet(t) \cup ToSet(m), Len(l) = Len(t) + Len(m),
             n = IF c \in x.seen THEN [line |-> t, seen |-> x.seen]
                 ELSE [line |-> l, seen |-> x.seen \cup {c}]
      PROVE  IF c \in x.seen THEN n = [line |-> t, seen |-> x.seen]
             ELSE /\ n = [line |-> n.line, seen |-> x.seen \cup {c}]
                  /\ n.line \in Seq(Commits) /\ Len(n.line) = Len(t) + Len(m)
                  /\ ToSet(n.line) = ToSet(t) \cup ToSet(m)
  <2>1. CASE c \in x.seen
      BY <1>7, <2>1
  <2>2. CASE c \notin x.seen
    <3>1. n = [line |-> l, seen |-> x.seen \cup {c}]
        BY <1>7, <2>2
    <3>2. n.line = l
        BY <3>1
    <3> QED
        BY <1>7, <2>2, <3>1, <3>2
  <2> QED
      BY <2>1, <2>2
<1> DEFINE J(n) == IF c \in x.seen THEN n = [line |-> t, seen |-> x.seen]
                   ELSE /\ n = [line |-> n.line, seen |-> x.seen \cup {c}]
                        /\ n.line \in Seq(Commits) /\ Len(n.line) = Len(t) + Len(m)
                        /\ ToSet(n.line) = ToSet(t) \cup ToSet(m)
<1>8. J(AtTheEnd(limit)[x])
    BY <1>5, <1>6, <1>7
<1>9. J(InFrontOf(limit)[x])
    BY <1>5, <1>6, <1>7
<1>10. J(LastInFront(limit)[x])
    BY <1>5, <1>6, <1>7
<1> QED
    BY <1>8, <1>9, <1>10 DEF c, t, m

\* Breadth-first, preorder and postorder.
LEMMA BreadthReaches ==
    ASSUME HistoryOK, NEW limit, NEW from \in Commits
    PROVE  Reaches(BreadthFirst(from, limit), from, limit)
<1> DEFINE Body(walk) ==
        [w \in Lines |->
            IF w.line = <<>> THEN <<>>
            ELSE LET c    == Head(w.line)
                     rest == Tail(w.line)
                 IN  IF c \in w.seen THEN walk[[line |-> rest, seen |-> w.seen]]
                     ELSE <<c>> \o walk[[line |-> rest \o More(c, limit), seen |-> w.seen \cup {c}]]]
           walk == CHOOSE v : v = Body(v)
<1>1. ASSUME NEW v PROVE RestOfLine(v, AtTheEnd(limit)) <=> v = Body(v)
    BY DEF RestOfLine, AtTheEnd
<1>2. \E v : RestOfLine(v, AtTheEnd(limit))
    BY TheyJoin, LineIsWalk, LoopEnds, LineRest DEF IsWalk
<1>3. BreadthFirst(from, limit) = walk[[line |-> <<from>>, seen |-> {}]]
    BY DEF BreadthFirst, Visit
<1> HIDE DEF Body
<1>4. walk = Body(walk)
    BY <1>1, <1>2
<1> HIDE DEF walk
<1>5. Reaches(walk[[line |-> <<from>>, seen |-> {}]], from, limit)
    BY <1>1, <1>4, TheyJoin, LineRest, LineReaches
<1> QED
    BY <1>3, <1>5

LEMMA PreorderReaches ==
    ASSUME HistoryOK, NEW from \in Commits
    PROVE  Reaches(Preorder(from), from, {})
<1> DEFINE Body(walk) ==
        [w \in Lines |->
            IF w.line = <<>> THEN <<>>
            ELSE LET c    == Head(w.line)
                     rest == Tail(w.line)
                 IN  IF c \in w.seen THEN walk[[line |-> rest, seen |-> w.seen]]
                     ELSE <<c>> \o walk[[line |-> More(c, {}) \o rest, seen |-> w.seen \cup {c}]]]
           walk == CHOOSE v : v = Body(v)
<1>1. ASSUME NEW v PROVE RestOfLine(v, InFrontOf({})) <=> v = Body(v)
    BY DEF RestOfLine, InFrontOf
<1>2. \E v : RestOfLine(v, InFrontOf({}))
    BY TheyJoin, LineIsWalk, LoopEnds, LineRest DEF IsWalk
<1>3. Preorder(from) = walk[[line |-> <<from>>, seen |-> {}]]
    BY DEF Preorder, Visit
<1> HIDE DEF Body
<1>4. walk = Body(walk)
    BY <1>1, <1>2
<1> HIDE DEF walk
<1>5. Reaches(walk[[line |-> <<from>>, seen |-> {}]], from, {})
    BY <1>1, <1>4, TheyJoin, LineRest, LineReaches
<1> QED
    BY <1>3, <1>5

LEMMA PostorderReaches ==
    ASSUME HistoryOK, NEW from \in Commits
    PROVE  Reaches(Postorder(from), from, {})
<1> DEFINE Body(walk) ==
        [w \in Lines |->
            IF w.line = <<>> THEN <<>>
            ELSE LET c    == Head(w.line)
                     rest == Tail(w.line)
                 IN  IF c \in w.seen THEN walk[[line |-> rest, seen |-> w.seen]]
                     ELSE <<c>> \o walk[[line |-> Reverse(More(c, {})) \o rest, seen |-> w.seen \cup {c}]]]
           walk == CHOOSE v : v = Body(v)
<1>1. ASSUME NEW v PROVE RestOfLine(v, LastInFront({})) <=> v = Body(v)
    BY DEF RestOfLine, LastInFront
<1>2. \E v : RestOfLine(v, LastInFront({}))
    BY TheyJoin, LineIsWalk, LoopEnds, LineRest DEF IsWalk
<1>3. Postorder(from) = walk[[line |-> <<from>>, seen |-> {}]]
    BY DEF Postorder, Visit
<1> HIDE DEF Body
<1>4. walk = Body(walk)
    BY <1>1, <1>2
<1> HIDE DEF walk
<1>5. Reaches(walk[[line |-> <<from>>, seen |-> {}]], from, {})
    BY <1>1, <1>4, TheyJoin, LineRest, LineReaches
<1> QED
    BY <1>3, <1>5

\* A walk that no limit stops visits a history.
LEMMA ReachesHistory ==
    ASSUME HistoryOK, NEW from \in Commits, NEW s, Reaches(s, from, {})
    PROVE  Once(s) /\ ToSet(s) = History[from] /\ s \in Seq(Commits)
<1>1. \A c \in Commits : More(c, {}) = parents[c]
    BY DEF More
<1>2. s \in Seq(Commits) /\ Once(s) /\ from \in ToSet(s)
    BY DEF Reaches
<1>3. ToSet(s) \subseteq Commits
    BY <1>2 DEF ToSet
<1>4. Closed(ToSet(s))
    BY <1>1, <1>3 DEF Reaches, Closed
<1>5. History[from] \subseteq ToSet(s)
    BY <1>2, <1>4, HistoryIsLeast
<1>6. Closed(History[from]) /\ from \in History[from]
    BY HistoryIsLeast
<1>7. ToSet(s) \subseteq History[from]
  <2>1. History[from] \in SUBSET Commits /\ \A c \in History[from] : ToSet(More(c, {})) \subseteq History[from]
      BY <1>1, <1>6 DEF Closed
  <2> QED
      BY <1>6, <2>1 DEF Reaches
<1> QED
    BY <1>2, <1>5, <1>7

----------------------------------------------------------------------------
(* The walk by time.                                                       *)

\* Of some commits one is the newest.
LEMMA OneIsNewest ==
    ASSUME HistoryOK, NEW S \in SUBSET Commits, S # {}
    PROVE  \E d \in S : \A e \in S : when[d] >= when[e]
<1> DEFINE T == {n \in Nat : \A R \in SUBSET Commits :
                     R # {} /\ (\A c \in R : c <= n) => \E d \in R : \A e \in R : when[d] >= when[e]}
<1>0. \A c \in Commits : when[c] \in Nat /\ c \in Nat /\ c >= 1
  <2>1. \A c \in Commits : when[c] \in Nat /\ c \in Nat
      BY ParentsOK
  <2> QED
      BY <2>1 DEF Commits
<1>1. 0 \in T
  <2> SUFFICES ASSUME NEW R \in SUBSET Commits, R # {}, \A c \in R : c <= 0 PROVE FALSE
      OBVIOUS
  <2> QED
      BY <1>0
<1>2. ASSUME NEW n \in Nat, n \in T PROVE n + 1 \in T
  <2> SUFFICES ASSUME NEW R \in SUBSET Commits, R # {}, \A c \in R : c <= n + 1
               PROVE  \E d \in R : \A e \in R : when[d] >= when[e]
      OBVIOUS
  <2> DEFINE Q == R \ {n + 1}
  <2>1. Q \in SUBSET Commits /\ \A c \in Q : c <= n
      BY <1>0
  <2>2. CASE Q = {}
    <3>1. R = {n + 1} /\ when[n + 1] \in Nat
        BY <1>0, <2>2
    <3> QED
        BY <3>1
  <2>3. CASE Q # {}
    <3>1. PICK d \in Q : \A e \in Q : when[d] >= when[e]
        BY <1>2, <2>1, <2>3
    <3>2. CASE n + 1 \in R /\ when[n + 1] >= when[d]
      <4>1. \A e \in R : when[n + 1] >= when[e]
          BY <1>0, <3>1, <3>2
      <4> QED
          BY <3>2, <4>1
    <3>3. CASE ~(n + 1 \in R /\ when[n + 1] >= when[d])
      <4>1. \A e \in R : when[d] >= when[e]
          BY <1>0, <3>1, <3>3
      <4> QED
          BY <4>1
    <3> QED
        BY <3>2, <3>3
  <2> QED
      BY <2>2, <2>3
<1> HIDE DEF T
<1>3. Len(parents) \in T
    BY <1>1, <1>2, SetInduction, CommitNumbers
<1>4. \A c \in S : c <= Len(parents)
    BY DEF Commits
<1> QED
    BY <1>3, <1>4 DEF T

Taken(w) == CHOOSE d \in w.heap : \A e \in w.heap : when[d] >= when[e]
After(w) == [heap |-> (w.heap \cup ToSet(parents[Taken(w)])) \ (w.seen \cup {Taken(w)}),
             seen |-> w.seen \cup {Taken(w)}]
HeapLoop ==
    [states |-> Heaps,
     done   |-> {w \in Heaps : w.heap = {}},
     skips  |-> {},
     next   |-> [w \in Heaps |-> After(w)],
     head   |-> [w \in Heaps |-> <<Taken(w)>>],
     pick   |-> [w \in Heaps |-> Taken(w)],
     mu     |-> [w \in Heaps |-> Unseen(w)],
     todo   |-> [w \in Heaps |-> w.heap],
     seen   |-> [w \in Heaps |-> w.seen]]

\* The commit that is taken is a newest one; its parents join the heap.
LEMMA HeapTurn ==
    ASSUME HistoryOK, NEW w \in Heaps, w.heap # {}
    PROVE  /\ w.heap \in SUBSET Commits /\ w.seen \in SUBSET Commits /\ w.heap \cap w.seen = {}
           /\ Taken(w) \in w.heap /\ Taken(w) \in Commits
           /\ \A e \in w.heap : when[Taken(w)] >= when[e]
           /\ After(w) \in Heaps
           /\ After(w).heap = (w.heap \cup ToSet(parents[Taken(w)])) \ (w.seen \cup {Taken(w)})
           /\ After(w).seen = w.seen \cup {Taken(w)}
           /\ Unseen(After(w)) = Unseen(w) - 1 /\ Unseen(w) \in Nat
<1>1. w.heap \in SUBSET Commits /\ w.seen \in SUBSET Commits /\ w.heap \cap w.seen = {}
    BY DEF Heaps
<1>2. Taken(w) \in w.heap /\ \A e \in w.heap : when[Taken(w)] >= when[e]
    BY <1>1, OneIsNewest DEF Taken
<1> DEFINE c == Taken(w)
           h == (w.heap \cup ToSet(parents[c])) \ (w.seen \cup {c})
<1>3. c \in Commits /\ c \notin w.seen
    BY <1>1, <1>2
<1>4. ToSet(parents[c]) \subseteq Commits
    BY <1>3, ParentsOK
<1>5. After(w) = [heap |-> h, seen |-> w.seen \cup {c}]
    BY DEF After
<1> HIDE DEF c
<1>6. h \in SUBSET Commits /\ (w.seen \cup {c}) \in SUBSET Commits /\ h \cap (w.seen \cup {c}) = {}
    BY <1>1, <1>3, <1>4
<1> HIDE DEF h
<1>7. After(w) \in Heaps /\ After(w).heap = h /\ After(w).seen = w.seen \cup {c}
    BY <1>5, <1>6 DEF Heaps
<1>8. Unseen(After(w)) = Unseen(w) - 1 /\ Unseen(w) \in Nat
    BY <1>1, <1>3, <1>7, OneLess DEF Unseen
<1> QED
    BY <1>1, <1>2, <1>3, <1>7, <1>8 DEF c, h

LEMMA HeapIsWalk ==
    ASSUME HistoryOK
    PROVE  IsWalk(HeapLoop, Commits, MoreOf({}))
<1> DEFINE k == HeapLoop
           more == MoreOf({})
<1>1. k.states = Heaps /\ k.done = {w \in Heaps : w.heap = {}} /\ k.skips = {}
    BY DEF HeapLoop
<1>2. ASSUME NEW w \in Heaps
      PROVE  /\ k.head[w] = <<Taken(w)>> /\ k.pick[w] = Taken(w) /\ k.mu[w] = Unseen(w)
             /\ k.todo[w] = w.heap /\ k.seen[w] = w.seen /\ k.next[w] = After(w)
    BY DEF HeapLoop
<1> HIDE DEF k
<1>3. \A w \in Heaps : k.mu[w] \in Nat
  <2> TAKE w \in Heaps
  <2>1. w.seen \in SUBSET Commits
      BY DEF Heaps
  <2> QED
      BY <1>2, <2>1, UnseenNat DEF Unseen
<1>4. \A c \in Commits : more[c] = ToSet(parents[c])
    BY DEF MoreOf, More
<1> HIDE DEF more
<1>5. ASSUME NEW w \in Heaps, w.heap # {}
      PROVE  k.next[w] \in Heaps /\ k.mu[k.next[w]] < k.mu[w] /\ Visits(k, w, Commits, more)
  <2> DEFINE c == Taken(w)
             v == After(w)
  <2>1. /\ w.heap \cap w.seen = {} /\ c \in w.heap /\ c \in Commits /\ v \in Heaps
        /\ v.heap = (w.heap \cup ToSet(parents[c])) \ (w.seen \cup {c})
        /\ v.seen = w.seen \cup {c} /\ Unseen(v) = Unseen(w) - 1 /\ Unseen(w) \in Nat
      BY <1>5, HeapTurn
  <2>2. k.next[w] = v /\ k.pick[w] = c /\ k.head[w] = <<c>>
      BY <1>2
  <2> HIDE DEF c, v
  <2>3. k.todo[v] = v.heap /\ k.seen[v] = v.seen /\ k.mu[v] = Unseen(v)
      BY <1>2, <2>1
  <2>4. k.mu[v] < k.mu[w]
      BY <1>2, <2>1, <2>3
  <2>5. more[c] = ToSet(parents[c])
      BY <1>4, <2>1
  <2>6. Visits(k, w, Commits, more)
      BY <1>2, <2>1, <2>2, <2>3, <2>5 DEF Visits
  <2> QED
      BY <2>1, <2>2, <2>4, <2>6
<1>6. \A w \in Heaps : w \in k.done => k.todo[w] = {}
    BY <1>1, <1>2
<1>7. IsLoop(k)
    BY <1>1, <1>3, <1>5 DEF IsLoop
<1>8. IsWalk(k, Commits, more)
    BY <1>1, <1>5, <1>6, <1>7 DEF IsWalk
<1> QED
    BY <1>8 DEF k, more

LEMMA ByTimeWalks ==
    ASSUME HistoryOK, NEW from \in Commits
    PROVE  \E w : /\ IsRest(w, HeapLoop)
                  /\ ByTime(from) = w[[heap |-> {from}, seen |-> {}]]
<1> DEFINE Body(walk) ==
        [w \in Heaps |->
            IF w.heap = {} THEN <<>>
            ELSE LET c    == CHOOSE d \in w.heap : \A e \in w.heap : when[d] >= when[e]
                     seen == w.seen \cup {c}
                 IN  <<c>> \o walk[[heap |-> (w.heap \cup ToSet(parents[c])) \ seen, seen |-> seen]]]
           walk == CHOOSE v : v = Body(v)
           k == HeapLoop
<1>1. ASSUME NEW v PROVE IsRest(v, HeapLoop) <=> v = Body(v)
  <2>1. k.states = Heaps
      BY DEF HeapLoop
  <2>2. ASSUME NEW w \in Heaps
        PROVE  Turn(w, v, k.done, k.skips, k.head, k.next) =
                   IF w.heap = {} THEN <<>> ELSE <<Taken(w)>> \o v[After(w)]
    <3>1. /\ w \in k.done <=> w.heap = {}
          /\ w \notin k.skips /\ k.head[w] = <<Taken(w)>> /\ k.next[w] = After(w)
        BY DEF HeapLoop
    <3> HIDE DEF k
    <3> QED
        BY <3>1 DEF Turn
  <2> HIDE DEF k
  <2>3. [w \in Heaps |-> Turn(w, v, k.done, k.skips, k.head, k.next)] =
        [w \in Heaps |-> IF w.heap = {} THEN <<>> ELSE <<Taken(w)>> \o v[After(w)]]
      BY <2>2
  <2>4. Body(v) = [w \in Heaps |-> IF w.heap = {} THEN <<>> ELSE <<Taken(w)>> \o v[After(w)]]
      BY DEF Taken, After
  <2> HIDE DEF Body
  <2> QED
      BY <2>1, <2>3, <2>4 DEF IsRest, k
<1>2. \E v : IsRest(v, HeapLoop)
    BY HeapIsWalk, LoopEnds DEF IsWalk
<1>3. ByTime(from) = walk[[heap |-> {from}, seen |-> {}]]
    BY DEF ByTime
<1> HIDE DEF Body
<1>4. walk = Body(walk)
    BY <1>1, <1>2
<1> HIDE DEF walk
<1> QED
    BY <1>1, <1>3, <1>4

\* The walk by time visits a history.
LEMMA ByTimeReaches ==
    ASSUME HistoryOK, NEW from \in Commits
    PROVE  Reaches(ByTime(from), from, {})
<1> DEFINE x == [heap |-> {from}, seen |-> {}]
           k == HeapLoop
           more == MoreOf({})
<1>1. PICK w : IsRest(w, HeapLoop) /\ ByTime(from) = w[x]
    BY ByTimeWalks
<1>2. x \in Heaps /\ x.heap = {from} /\ x.seen = {}
    BY DEF Heaps
<1>3. k.states = Heaps /\ k.todo[x] = {from} /\ k.seen[x] = {}
    BY <1>2 DEF HeapLoop
<1> DEFINE s == ByTime(from)
<1>4. Ends(k, x, s, Commits, more)
    BY <1>1, <1>2, <1>3, HeapIsWalk, WalkEnds
<1>5. \A c \in Commits : more[c] = ToSet(More(c, {}))
    BY DEF MoreOf
<1> HIDE DEF k, x, s, more
<1>6. s \in Seq(Commits) /\ Once(s) /\ from \in ToSet(s)
    BY <1>3, <1>4 DEF Ends
<1>7. ToSet(s) \subseteq Commits
    BY <1>6 DEF ToSet
<1>8. \A c \in ToSet(s) : more[c] \subseteq ToSet(s)
    BY <1>3, <1>4 DEF Ends
<1>9. \A R : from \in R /\ (\A c \in R : more[c] \subseteq R) => ToSet(s) \subseteq R
    BY <1>3, <1>4 DEF Ends
<1>10. \A c \in ToSet(s) : ToSet(More(c, {})) \subseteq ToSet(s)
    BY <1>5, <1>7, <1>8
<1>11. ASSUME NEW R \in SUBSET Commits, from \in R, \A c \in R : ToSet(More(c, {})) \subseteq R
       PROVE  ToSet(s) \subseteq R
  <2>1. \A c \in R : more[c] \subseteq R
      BY <1>5, <1>11
  <2> QED
      BY <1>9, <1>11, <2>1
<1>12. Reaches(s, from, {})
    BY <1>6, <1>10, <1>11 DEF Reaches
<1> QED
    BY <1>12 DEF s

\* A commit that no other is newer than, put in front of commits that are newest first.
LEMMA NewestInFront ==
    ASSUME HistoryOK, NEW c \in Commits, NEW s \in Seq(Commits), NewestFirst(s),
           \A d \in ToSet(s) : when[d] <= when[c]
    PROVE  NewestFirst(<<c>> \o s)
<1> DEFINE t == <<c>> \o s
<1>1. /\ t \in Seq(Commits) /\ Len(t) = Len(s) + 1 /\ t[1] = c /\ Len(s) \in Nat
      /\ \A i \in 2 .. Len(t) : i - 1 \in 1 .. Len(s) /\ t[i] = s[i - 1]
      /\ DOMAIN s = 1 .. Len(s) /\ DOMAIN t = 1 .. Len(t)
    OBVIOUS
<1> HIDE DEF t
<1>2. SUFFICES ASSUME NEW i \in DOMAIN t, NEW j \in DOMAIN t, i < j
               PROVE  when[t[i]] >= when[t[j]]
    BY DEF NewestFirst, t
<1>3. j \in 2 .. Len(t) /\ j - 1 \in 1 .. Len(s) /\ t[j] = s[j - 1]
    BY <1>1, <1>2
<1>4. CASE i = 1
  <2>1. t[j] \in ToSet(s) /\ t[j] \in Commits
      BY <1>1, <1>3 DEF ToSet
  <2>2. when[t[j]] <= when[c] /\ when[t[j]] \in Nat /\ when[c] \in Nat
      BY <2>1, ParentsOK
  <2> QED
      BY <1>1, <1>4, <2>2
<1>5. CASE i # 1
  <2>1. i - 1 \in 1 .. Len(s) /\ t[i] = s[i - 1] /\ i - 1 < j - 1
      BY <1>1, <1>2, <1>5
  <2> QED
      BY <1>1, <1>3, <2>1 DEF NewestFirst
<1> QED
    BY <1>4, <1>5

\* It is newest first where no child is dated before a parent.
LEMMA ByTimeNewestFirst ==
    ASSUME HistoryOK, NEW from \in Commits,
           \A c \in History[from] : \A p \in ToSet(parents[c]) : when[p] <= when[c]
    PROVE  NewestFirst(ByTime(from))
<1> DEFINE H == History[from]
           x == [heap |-> {from}, seen |-> {}]
<1>1. from \in H /\ Closed(H)
    BY HistoryIsLeast
<1>2. PICK w : IsRest(w, HeapLoop) /\ ByTime(from) = w[x]
    BY ByTimeWalks
<1>3. \A c \in H : c \in Commits /\ ToSet(parents[c]) \subseteq H
    BY <1>1 DEF Closed
<1>4. \A c \in Commits : when[c] \in Nat
    BY ParentsOK
<1> HIDE DEF H
<1>5. ASSUME NEW y \in Heaps
      PROVE  /\ y.heap = {} => w[y] = <<>>
             /\ y.heap # {} => w[y] = <<Taken(y)>> \o w[After(y)]
             /\ w[y] \in Seq(Commits)
  <2> DEFINE k == HeapLoop
  <2>1. k.states = Heaps
      BY DEF HeapLoop
  <2>2. w[y] = Turn(y, w, k.done, k.skips, k.head, k.next)
      BY <1>2, <2>1 DEF IsRest
  <2>3. /\ y \in k.done <=> y.heap = {}
        /\ y \notin k.skips /\ k.head[y] = <<Taken(y)>> /\ k.next[y] = After(y)
      BY DEF HeapLoop
  <2>4. Ends(k, y, w[y], Commits, MoreOf({}))
      BY <1>2, <2>1, HeapIsWalk, WalkEnds
  <2> HIDE DEF k
  <2>5. w[y] \in Seq(Commits)
      BY <2>4 DEF Ends
  <2> QED
      BY <2>2, <2>3, <2>5 DEF Turn
<1> DEFINE Good(y) == /\ NewestFirst(w[y])
                      /\ \A b \in Nat : (\A c \in y.heap : when[c] <= b) =>
                            \A c \in ToSet(w[y]) : when[c] <= b
           T == {n \in Nat : \A y \in Heaps : Unseen(y) < n /\ y.heap \subseteq H => Good(y)}
<1>6. \A y \in Heaps : Unseen(y) \in Nat
  <2> TAKE y \in Heaps
  <2>1. y.seen \in SUBSET Commits
      BY DEF Heaps
  <2> QED
      BY <2>1, UnseenNat DEF Unseen
<1>7. 0 \in T
    BY <1>6
<1>8. ASSUME NEW n \in Nat, n \in T, NEW y \in Heaps, Unseen(y) < n + 1, y.heap \subseteq H
      PROVE  Good(y)
  <2>1. CASE y.heap = {}
    <3>1. w[y] = <<>>
        BY <1>5, <2>1
    <3>2. NewestFirst(<<>>) /\ ToSet(<<>>) = {}
        BY DEF NewestFirst, ToSet
    <3> QED
        BY <3>1, <3>2
  <2>2. CASE y.heap # {}
    <3> DEFINE c == Taken(y)
               z == After(y)
               s == w[z]
    <3>1. /\ c \in y.heap /\ c \in Commits /\ z \in Heaps
          /\ \A e \in y.heap : when[c] >= when[e]
          /\ z.heap = (y.heap \cup ToSet(parents[c])) \ (y.seen \cup {c})
          /\ Unseen(z) = Unseen(y) - 1 /\ Unseen(y) \in Nat /\ y.heap \subseteq Commits
        BY <2>2, HeapTurn
    <3>2. w[y] = <<c>> \o s /\ s \in Seq(Commits)
        BY <1>5, <2>2, <3>1
    <3> HIDE DEF c, z, s
    <3>3. c \in H /\ z.heap \subseteq H
        BY <1>3, <1>8, <3>1
    <3>4. Unseen(z) < n
        BY <1>8, <3>1
    <3>5. Good(z)
        BY <1>8, <3>1, <3>3, <3>4
    <3>6. \A p \in ToSet(parents[c]) : when[p] <= when[c] /\ when[p] \in Nat
        BY <1>3, <1>4, <3>3 DEF H
    <3>7. \A d \in z.heap : when[d] <= when[c]
        BY <1>4, <3>1, <3>6
    <3>8. when[c] \in Nat
        BY <1>4, <3>1
    <3>9. NewestFirst(s) /\ \A d \in ToSet(s) : when[d] <= when[c]
        BY <3>5, <3>7, <3>8 DEF s
    <3>10. NewestFirst(<<c>> \o s)
        BY <3>1, <3>2, <3>9, NewestInFront
    <3>11. ToSet(<<c>> \o s) = {c} \cup ToSet(s) /\ ToSet(s) \subseteq Commits
      <4>1. ToSet(<<c>> \o s) = {c} \cup ToSet(s)
          BY <3>1, <3>2, InFront
      <4>2. ToSet(s) \subseteq Commits
          BY <3>2 DEF ToSet
      <4> QED
          BY <4>1, <4>2
    <3>12. ASSUME NEW b \in Nat, \A d \in y.heap : when[d] <= b, NEW d \in {c} \cup ToSet(s)
           PROVE  when[d] <= b
      <4>1. when[c] <= b
          BY <3>1, <3>12
      <4>2. when[d] <= when[c] /\ when[d] \in Nat
          BY <1>4, <3>1, <3>8, <3>9, <3>11
      <4> QED
          BY <3>8, <4>1, <4>2
    <3> QED
        BY <3>2, <3>10, <3>11, <3>12
  <2> QED
      BY <2>1, <2>2
<1>9. ASSUME NEW n \in Nat, n \in T PROVE n + 1 \in T
    BY <1>8, <1>9
<1> HIDE DEF T
<1>10. Nat \subseteq T
    BY <1>7, <1>9, SetInduction
<1>11. x \in Heaps /\ x.heap = {from} /\ x.heap \subseteq H
    BY <1>1 DEF Heaps
<1> HIDE DEF x
<1>12. Unseen(x) \in Nat /\ Unseen(x) + 1 \in T /\ Unseen(x) < Unseen(x) + 1
  <2>1. Unseen(x) \in Nat
      BY <1>6, <1>11
  <2> QED
      BY <1>10, <2>1
<1>13. Good(x)
    BY <1>11, <1>12 DEF T
<1> QED
    BY <1>2, <1>13


----------------------------------------------------------------------------
(* The merge base.                                                         *)

\* A walk that stops at limits stays in the history of where it starts, and what it
\* does not visit of that is in the history of a limit it came to.
LEMMA BehindLimits ==
    ASSUME HistoryOK, NEW limit, NEW from \in Commits,
           NEW out, out = ToSet(BreadthFirst(from, limit))
    PROVE  /\ out \subseteq History[from] /\ from \in out
           /\ \A d \in History[from] : d \in out \/ \E x \in out \cap limit : d \in History[x]
<1> DEFINE s == BreadthFirst(from, limit)
           H == History[from]
<1>1. Reaches(s, from, limit)
    BY BreadthReaches
<1>2. ASSUME NEW c \in Commits
      PROVE  ToSet(More(c, limit)) = IF c \in limit THEN {} ELSE ToSet(parents[c])
  <2>1. ToSet(<<>>) = {}
      BY DEF ToSet
  <2> QED
      BY <2>1 DEF More
<1> HIDE DEF s
<1>3. from \in out /\ out \subseteq Commits
    BY <1>1 DEF Reaches, ToSet, s
<1>4. out \subseteq H
  <2>1. from \in H /\ Closed(H)
      BY HistoryIsLeast
  <2>2. H \in SUBSET Commits /\ \A c \in H : ToSet(More(c, limit)) \subseteq H
      BY <1>2, <2>1 DEF Closed
  <2> HIDE DEF H
  <2> QED
      BY <1>1, <2>1, <2>2 DEF Reaches, s
<1>5. \A c \in out : c \in limit \/ ToSet(parents[c]) \subseteq out
  <2>1. \A c \in out : ToSet(More(c, limit)) \subseteq out
      BY <1>1 DEF Reaches, s
  <2> QED
      BY <1>2, <1>3, <2>1
<1> DEFINE Q == out \cup UNION {History[x] : x \in out \cap limit}
<1>6. \A x \in out : x \in History[x] /\ Closed(History[x])
    BY <1>3, HistoryIsLeast
<1>7. Closed(Q)
  <2>1. Q \subseteq Commits
      BY <1>3, <1>6 DEF Closed
  <2>2. ASSUME NEW d \in Q PROVE ToSet(parents[d]) \subseteq Q
    <3>1. CASE \E x \in out \cap limit : d \in History[x]
      <4>1. PICK x \in out \cap limit : d \in History[x]
          BY <3>1
      <4>2. ToSet(parents[d]) \subseteq History[x]
          BY <1>6, <4>1 DEF Closed
      <4> QED
          BY <4>1, <4>2
    <3>2. CASE ~\E x \in out \cap limit : d \in History[x]
      <4>1. d \in out /\ d \notin limit
          BY <1>6, <3>2
      <4> QED
          BY <1>5, <4>1
    <3> QED
        BY <3>1, <3>2
  <2> HIDE DEF Q
  <2> QED
      BY <2>1, <2>2 DEF Closed
<1>8. H \subseteq Q
    BY <1>3, <1>7, HistoryIsLeast
<1> QED
    BY <1>3, <1>4, <1>8

\* The commits of S that are in the history of no other one.
Top(S) == {c \in S : \A d \in S \ {c} : c \notin History[d]}

\* What is known after the first i candidates of sorted.
Pruned(p, sorted, i) ==
    /\ p.left \subseteq ToSet(sorted) /\ Top(ToSet(sorted)) \subseteq p.left
    /\ p.seen \subseteq Commits
    /\ \A c \in p.seen : \E j \in 1 .. i : c \in History[sorted[j]]
    /\ \A c \in ToSet(sorted) \ p.left : \E j \in 1 .. i : c \in History[sorted[j]]
    /\ \A j \in 1 .. i : \A c \in p.left : c \in History[sorted[j]] => c = sorted[j]

LEMMA PruneStep ==
    ASSUME HistoryOK, NEW sorted \in Seq(Commits), NEW n \in 0 .. Len(sorted) - 1, NEW p,
           Pruned(p, sorted, n)
    PROVE  Pruned(Prune(p, sorted[n + 1]), sorted, n + 1)
<1> DEFINE e == sorted[n + 1]
           S == ToSet(sorted)
<1>0. /\ n + 1 \in 1 .. Len(sorted) /\ \A j \in 1 .. n : j \in 1 .. Len(sorted)
      /\ \A j \in 1 .. n + 1 : j \in 1 .. n \/ j = n + 1
      /\ \A j \in 1 .. n : j \in 1 .. n + 1
      /\ n + 1 \in 1 .. n + 1
    OBVIOUS
<1>1. /\ S \subseteq Commits /\ e \in S
      /\ \A j \in 1 .. n : sorted[j] \in Commits
    BY <1>0 DEF ToSet
<1>2. CASE e \notin p.left
  <2>1. Prune(p, e) = p
      BY <1>2 DEF Prune
  <2>2. PICK k \in 1 .. n : e \in History[sorted[k]]
      BY <1>1, <1>2 DEF Pruned
  <2>3. ASSUME NEW c \in p.left, c \in History[e] PROVE c = e
    <3>1. c \in History[sorted[k]]
        BY <1>1, <2>2, <2>3, HistoryNests
    <3>2. c = sorted[k]
        BY <3>1 DEF Pruned
    <3>3. e \in History[c] /\ c \in Commits
        BY <1>1, <2>2, <3>2
    <3> QED
        BY <2>3, <3>3, HistoryNests
  <2>4. Pruned(p, sorted, n + 1)
      BY <1>0, <2>3 DEF Pruned
  <2> QED
      BY <2>1, <2>4
<1>3. CASE e \in p.left
  <2> DEFINE out == ToSet(BreadthFirst(e, p.seen))
             q == [left |-> (p.left \ out) \cup {e}, seen |-> p.seen \cup out]
  <2>1. Prune(p, e) = q
      BY <1>3 DEF Prune
  <2>2. /\ out \subseteq History[e] /\ e \in out
        /\ \A d \in History[e] : d \in out \/ \E x \in out \cap p.seen : d \in History[x]
      BY <1>1, BehindLimits
  <2>3. q.left = (p.left \ out) \cup {e} /\ q.seen = p.seen \cup out
      OBVIOUS
  <2>4. History[e] \subseteq Commits
      BY <1>1, HistoryIsLeast DEF Closed
  <2> HIDE DEF out, q
  <2>5. ASSUME NEW c \in q.left, c \in History[e] PROVE c = e
    <3> SUFFICES ASSUME c # e PROVE FALSE
        OBVIOUS
    <3>1. c \in p.left /\ c \notin out
        BY <2>3
    <3>2. PICK x \in out \cap p.seen : c \in History[x]
        BY <2>2, <2>5, <3>1
    <3>3. PICK j \in 1 .. n : x \in History[sorted[j]]
        BY <3>2 DEF Pruned
    <3>4. c \in History[sorted[j]]
        BY <1>1, <3>2, <3>3, HistoryNests
    <3>5. c = sorted[j] /\ c \in Commits /\ x \in History[c]
        BY <1>1, <3>1, <3>3, <3>4 DEF Pruned
    <3>6. c = x
        BY <3>2, <3>5, HistoryNests
    <3> QED
        BY <3>1, <3>2, <3>6
  <2>6. q.left \subseteq S /\ q.seen \subseteq Commits /\ q.left \subseteq p.left
      BY <1>1, <1>3, <2>2, <2>3, <2>4 DEF Pruned
  <2>7. Top(S) \subseteq q.left
      BY <1>1, <2>2, <2>3 DEF Pruned, Top
  <2>8. \A c \in q.seen : \E j \in 1 .. n + 1 : c \in History[sorted[j]]
      BY <1>0, <2>2, <2>3 DEF Pruned
  <2>9. \A c \in S \ q.left : \E j \in 1 .. n + 1 : c \in History[sorted[j]]
      BY <1>0, <2>2, <2>3 DEF Pruned
  <2>10. \A j \in 1 .. n + 1 : \A c \in q.left : c \in History[sorted[j]] => c = sorted[j]
      BY <1>0, <2>5, <2>6 DEF Pruned
  <2>11. Pruned(q, sorted, n + 1)
      BY <2>6, <2>7, <2>8, <2>9, <2>10 DEF Pruned
  <2> QED
      BY <2>1, <2>11
<1> QED
    BY <1>2, <1>3

\* What is left of the candidates are the best of them, in whatever order they come.
LEMMA IndependentsAreTop ==
    ASSUME HistoryOK, NEW sorted \in Seq(Commits)
    PROVE  Independents(sorted) = Top(ToSet(sorted))
<1> DEFINE first == [left |-> ToSet(sorted), seen |-> {}]
           N == Len(sorted)
           F(n, f) == [i \in 0 .. n |-> IF i = 0 THEN first ELSE Prune(f[i - 1], sorted[i])]
           T == {n \in Nat : \E f : f = F(n, f)}
<1>0. N \in Nat
    OBVIOUS
<1> HIDE DEF first, N
<1>1. 0 \in T
  <2> DEFINE f == [i \in 0 .. 0 |-> first]
  <2>1. f = F(0, f)
      OBVIOUS
  <2> QED
      BY <2>1
<1>2. ASSUME NEW n \in Nat, n \in T PROVE n + 1 \in T
  <2>1. PICK f : f = F(n, f)
      BY <1>2
  <2> DEFINE g == [i \in 0 .. n + 1 |-> IF i \in 0 .. n THEN f[i] ELSE Prune(f[n], sorted[n + 1])]
  <2>2. ASSUME NEW i \in 0 .. n + 1
        PROVE  g[i] = IF i = 0 THEN first ELSE Prune(g[i - 1], sorted[i])
    <3>1. CASE i = 0
      <4>1. 0 \in 0 .. n /\ 0 \in 0 .. n + 1
          OBVIOUS
      <4>2. f[0] = first
          BY <2>1, <4>1
      <4> QED
          BY <3>1, <4>1, <4>2
    <3>2. CASE i # 0 /\ i \in 0 .. n
      <4>1. i - 1 \in 0 .. n /\ i - 1 \in 0 .. n + 1
          BY <3>2
      <4>2. f[i] = Prune(f[i - 1], sorted[i])
          BY <2>1, <3>2
      <4>3. g[i] = f[i] /\ g[i - 1] = f[i - 1]
          BY <3>2, <4>1
      <4> HIDE DEF g
      <4> QED
          BY <3>2, <4>2, <4>3
    <3>3. CASE i # 0 /\ i \notin 0 .. n
      <4>1. i = n + 1 /\ i - 1 = n /\ n \in 0 .. n /\ n \in 0 .. n + 1
          BY <3>3
      <4>2. g[i] = Prune(f[n], sorted[n + 1]) /\ g[n] = f[n]
          BY <3>3, <4>1
      <4> HIDE DEF g
      <4> QED
          BY <3>3, <4>1, <4>2
    <3> QED
        BY <3>1, <3>2, <3>3
  <2>3. g = [i \in 0 .. n + 1 |-> g[i]]
      OBVIOUS
  <2> HIDE DEF g
  <2>4. g = F(n + 1, g)
      BY <2>2, <2>3
  <2> HIDE DEF F
  <2> QED
      BY <2>4
<1> HIDE DEF T
<1>3. N \in T
    BY <1>0, <1>1, <1>2, SetInduction
<1> DEFINE after == CHOOSE f : f = [i \in 0 .. Len(sorted) |->
                        IF i = 0 THEN [left |-> ToSet(sorted), seen |-> {}]
                        ELSE Prune(f[i - 1], sorted[i])]
<1>4. Independents(sorted) = after[Len(sorted)].left
    BY DEF Independents
<1>5. \E f : f = [i \in 0 .. Len(sorted) |->
                        IF i = 0 THEN [left |-> ToSet(sorted), seen |-> {}]
                        ELSE Prune(f[i - 1], sorted[i])]
    BY <1>3 DEF T, N, first
<1>6. after = F(N, after)
    BY <1>5 DEF N, first
<1> HIDE DEF after
<1> DEFINE G == {n \in Nat : n <= N => Pruned(after[n], sorted, n)}
<1>7. 0 \in G
  <2>1. after[0] = first
      BY <1>0, <1>6
  <2>2. first.left = ToSet(sorted) /\ first.seen = {}
      BY DEF first
  <2> QED
      BY <2>1, <2>2 DEF Pruned, Top
<1>8. ASSUME NEW n \in Nat, n \in G PROVE n + 1 \in G
  <2> SUFFICES ASSUME n + 1 <= N PROVE Pruned(after[n + 1], sorted, n + 1)
      OBVIOUS
  <2>1. n <= N /\ n \in 0 .. N - 1 /\ n + 1 \in 0 .. N /\ n + 1 # 0 /\ (n + 1) - 1 = n
      BY <1>0
  <2>2. after[n + 1] = Prune(after[n], sorted[n + 1])
      BY <1>6, <2>1
  <2>3. Pruned(after[n], sorted, n)
      BY <1>8, <2>1
  <2> QED
      BY <2>1, <2>2, <2>3, PruneStep DEF N
<1> HIDE DEF G
<1>9. N \in G
    BY <1>0, <1>7, <1>8, SetInduction
<1>10. Pruned(after[N], sorted, N)
    BY <1>0, <1>9 DEF G
<1> DEFINE p == after[N]
<1> HIDE DEF p
<1>11. p.left \subseteq Top(ToSet(sorted))
  <2> SUFFICES ASSUME NEW c \in p.left, NEW d \in ToSet(sorted) \ {c} PROVE c \notin History[d]
      BY <1>10 DEF Pruned, Top, p
  <2>1. PICK j \in 1 .. N : d = sorted[j]
      BY DEF ToSet, N
  <2> QED
      BY <1>10, <2>1 DEF Pruned, p
<1>12. Top(ToSet(sorted)) \subseteq p.left
    BY <1>10 DEF Pruned, p
<1> QED
    BY <1>4, <1>11, <1>12 DEF p, N


\* A sequence of the commits of a set has them all.
LEMMA SortedHasAll ==
    ASSUME HistoryOK, NEW S \in SUBSET Commits, NEW s \in SortedByDate(S)
    PROVE  s \in Seq(Commits) /\ ToSet(s) = S
<1> DEFINE n == Cardinality(S)
           D == 1 .. n
<1>1. IsFiniteSet(S)
  <2>1. 1 \in Int /\ Len(parents) \in Int
      BY CommitNumbers
  <2>2. IsFiniteSet(Commits)
      BY <2>1, FS_Interval DEF Commits
  <2> QED
      BY <2>2, FS_Subset
<1>2. n \in Nat
    BY <1>1, FS_CardinalityType
<1>3. s \in [D -> S] /\ \A i, j \in D : i # j => s[i] # s[j]
    BY DEF SortedByDate, SetToSeqs
<1>4. IsFiniteSet(D) /\ Cardinality(D) = n
  <2>1. 1 \in Int /\ n \in Int /\ (1 > n <=> n = 0) /\ n - 1 + 1 = n
      BY <1>2
  <2>2. IsFiniteSet(1 .. n) /\ Cardinality(1 .. n) = IF 1 > n THEN 0 ELSE n - 1 + 1
      BY <2>1, FS_Interval
  <2> QED
      BY <2>1, <2>2
<1> HIDE DEF n
<1>5. s \in Seq(Commits) /\ DOMAIN s = D
  <2>1. s \in [1 .. n -> Commits]
      BY <1>3
  <2> QED
      BY <1>2, <2>1
<1>6. ToSet(s) \subseteq S
    BY <1>3, <1>5 DEF ToSet
<1>7. ASSUME NEW c \in S, c \notin ToSet(s) PROVE FALSE
  <2> DEFINE R == S \ {c}
  <2>1. IsFiniteSet(R) /\ Cardinality(R) = n - 1
      BY <1>1, <1>7, FS_RemoveElement DEF n
  <2>2. s \in [D -> R]
      BY <1>3, <1>5, <1>7 DEF ToSet
  <2>3. Cardinality(R) < Cardinality(D)
      BY <1>2, <1>4, <2>1
  <2> HIDE DEF R, D
  <2>4. \E i, j \in D : i # j /\ s[i] = s[j]
      BY <1>4, <2>1, <2>2, <2>3, FS_PigeonHole
  <2> QED
      BY <1>3, <2>4
<1> QED
    BY <1>5, <1>6, <1>7

\* Of two commits in either order, MergeBase answers the best common ancestors.
LEMMA MergeBaseOfIsBest ==
    ASSUME HistoryOK, NEW newer \in Commits, NEW older \in Commits,
           NEW bases \in MergeBaseOf(newer, older)
    PROVE  bases = Best(newer, older)
<1> DEFINE index  == ToSet(BreadthFirst(newer, {}))
           out    == ToSet(BreadthFirst(older, index))
           shared == out \cap index
           all    == Shared(newer, older)
<1>1. index = History[newer]
    BY BreadthReaches, ReachesHistory
<1>2. /\ out \subseteq History[older]
      /\ \A d \in History[older] : d \in out \/ \E x \in out \cap index : d \in History[x]
    BY BehindLimits
<1>3. /\ all = index \cap History[older]
      /\ older \in History[older] /\ Closed(History[older])
      /\ Closed(History[newer])
    BY <1>1, HistoryIsLeast DEF Shared
<1>4. bases \in (IF older \in index THEN {{older}} ELSE {Independents(s) : s \in SortedByDate(shared)})
    BY DEF MergeBaseOf
<1>5. Best(newer, older) = {c \in all : \A d \in all \ {c} : c \notin History[d]}
    BY DEF Best
<1> HIDE DEF index, out, all
<1>6. CASE older \in index
  <2>1. bases = {older}
      BY <1>4, <1>6
  <2>2. ASSUME NEW d \in all \ {older} PROVE older \notin History[d]
      BY <1>3, <2>2, HistoryNests
  <2>3. older \in Best(newer, older)
      BY <1>3, <1>5, <1>6, <2>2
  <2>4. ASSUME NEW c \in Best(newer, older) PROVE c = older
      BY <1>3, <1>5, <1>6
  <2> QED
      BY <2>1, <2>3, <2>4
<1>7. CASE older \notin index
  <2>1. PICK s \in SortedByDate(shared) : bases = Independents(s)
      BY <1>4, <1>7
  <2>2. shared \subseteq all /\ shared \in SUBSET Commits
      BY <1>1, <1>2, <1>3 DEF Closed
  <2>3. bases = Top(shared)
      BY <2>1, <2>2, SortedHasAll, IndependentsAreTop
  <2>4. ASSUME NEW d \in all PROVE \E x \in shared : d \in History[x]
    <3>1. d \in History[d]
        BY <1>1, <1>3, HistoryIsLeast DEF Closed
    <3> QED
        BY <1>2, <1>3, <3>1
  <2>5. \A d \in all : d \in Commits
      BY <1>1, <1>3 DEF Closed
  <2> HIDE DEF shared
  <2>6. ASSUME NEW c \in Best(newer, older) PROVE c \in Top(shared)
    <3>1. c \in all /\ \A d \in all \ {c} : c \notin History[d]
        BY <1>5
    <3>2. PICK x \in shared : c \in History[x]
        BY <2>4, <3>1
    <3>3. x = c
        BY <2>2, <3>1, <3>2
    <3> QED
        BY <2>2, <3>1, <3>3 DEF Top
  <2>7. ASSUME NEW c \in Top(shared) PROVE c \in Best(newer, older)
    <3>1. c \in shared /\ \A d \in shared \ {c} : c \notin History[d]
        BY DEF Top
    <3>2. ASSUME NEW d \in all, c \in History[d] PROVE c = d
      <4>1. PICK x \in shared : d \in History[x]
          BY <2>4
      <4>2. x \in Commits /\ d \in Commits
          BY <2>2, <2>5
      <4>3. c \in History[x]
          BY <3>2, <4>1, <4>2, HistoryNests
      <4>4. x = c
          BY <3>1, <4>3
      <4> QED
          BY <3>2, <4>1, <4>2, <4>4, HistoryNests
    <3> QED
        BY <1>5, <2>2, <3>1, <3>2
  <2> QED
      BY <2>3, <2>6, <2>7
<1> QED
    BY <1>6, <1>7

LEMMA MergeBasesAreBest == HistoryOK => MergeBaseIsBest
<1> SUFFICES ASSUME HistoryOK, NEW c \in Commits,
                    NEW bases \in MergeBase(Newest, c) \cup MergeBase(c, Newest)
             PROVE  bases = Best(Newest, c)
    BY DEF MergeBaseIsBest
<1>1. Newest \in Commits
    BY CommitNumbers DEF Newest, Commits
<1>2. Best(Newest, c) = Best(c, Newest)
    BY DEF Best, Shared
<1>3. \E s \in {<<Newest, c>>, <<c, Newest>>} : bases \in MergeBaseOf(s[1], s[2])
    BY DEF MergeBase
<1>4. bases \in MergeBaseOf(Newest, c) \/ bases \in MergeBaseOf(c, Newest)
    BY <1>3
<1> QED
    BY <1>1, <1>2, <1>4, MergeBaseOfIsBest

LEMMA WalksVisitTheHistory == HistoryOK => WalksVisitHistory
<1> SUFFICES ASSUME HistoryOK, Newest > 0
             PROVE  /\ \A walk \in {BreadthFirst(Newest, {}), Preorder(Newest), Postorder(Newest),
                                    ByTime(Newest)} : Once(walk) /\ ToSet(walk) = History[Newest]
                    /\ (\A c \in History[Newest] : \A p \in ToSet(parents[c]) : when[p] <= when[c])
                          => NewestFirst(ByTime(Newest))
    BY DEF WalksVisitHistory
<1>1. Newest \in Commits
    BY CommitNumbers DEF Newest, Commits
<1>2. \A walk \in {BreadthFirst(Newest, {}), Preorder(Newest), Postorder(Newest), ByTime(Newest)} :
          Reaches(walk, Newest, {})
    BY <1>1, BreadthReaches, PreorderReaches, PostorderReaches, ByTimeReaches
<1>3. \A walk \in {BreadthFirst(Newest, {}), Preorder(Newest), Postorder(Newest), ByTime(Newest)} :
          Once(walk) /\ ToSet(walk) = History[Newest]
    BY <1>1, <1>2, ReachesHistory
<1> QED
    BY <1>1, <1>3, ByTimeNewestFirst


----------------------------------------------------------------------------
(* The pages.                                                              *)

\* Where nothing was merged and the dates follow the parent links, the preorder walk
\* is newest first.
LEMMA LineNewestFirst ==
    ASSUME HistoryOK, NEW from \in Commits,
           \A c \in History[from] : \A p \in ToSet(parents[c]) : when[p] < when[c],
           \A c \in History[from] : Len(parents[c]) < 2
    PROVE  NewestFirst(Preorder(from))
<1> DEFINE H == History[from]
           Body(walk) ==
        [w \in Lines |->
            IF w.line = <<>> THEN <<>>
            ELSE LET c    == Head(w.line)
                     rest == Tail(w.line)
                 IN  IF c \in w.seen THEN walk[[line |-> rest, seen |-> w.seen]]
                     ELSE <<c>> \o walk[[line |-> More(c, {}) \o rest, seen |-> w.seen \cup {c}]]]
           walk == CHOOSE v : v = Body(v)
<1>1. ASSUME NEW v PROVE RestOfLine(v, InFrontOf({})) <=> v = Body(v)
    BY DEF RestOfLine, InFrontOf
<1>2. \E v : RestOfLine(v, InFrontOf({}))
    BY TheyJoin, LineIsWalk, LoopEnds, LineRest DEF IsWalk
<1>3. Preorder(from) = walk[[line |-> <<from>>, seen |-> {}]]
    BY DEF Preorder, Visit
<1> HIDE DEF Body
<1>4. walk = Body(walk)
    BY <1>1, <1>2
<1> HIDE DEF walk
<1>5. ASSUME NEW y \in Lines PROVE walk[y] \in Seq(Commits)
  <2> DEFINE k == LineLoop(InFrontOf({}))
  <2>1. k.states = Lines
      BY DEF LineLoop
  <2>2. IsRest(walk, k)
      BY <1>1, <1>4, LineRest
  <2>3. Ends(k, y, walk[y], Commits, MoreOf({}))
      BY <2>1, <2>2, TheyJoin, LineIsWalk, WalkEnds
  <2> QED
      BY <2>3 DEF Ends
<1>6. ASSUME NEW S \in SUBSET Commits PROVE walk[[line |-> <<>>, seen |-> S]] = <<>>
  <2>1. [line |-> <<>>, seen |-> S] \in Lines
      BY DEF Lines
  <2> QED
      BY <1>4, <2>1 DEF Body
<1>7. ASSUME NEW S \in SUBSET Commits, NEW c \in Commits
      PROVE  /\ [line |-> <<c>>, seen |-> S] \in Lines
             /\ walk[[line |-> <<c>>, seen |-> S]] =
                    IF c \in S THEN <<>> ELSE <<c>> \o walk[[line |-> parents[c], seen |-> S \cup {c}]]
  <2> DEFINE y == [line |-> <<c>>, seen |-> S]
  <2>1. y \in Lines /\ y.line = <<c>> /\ y.seen = S /\ y.line # <<>>
      BY DEF Lines
  <2>2. Head(<<c>>) = c /\ Tail(<<c>>) = <<>>
      OBVIOUS
  <2>3. More(c, {}) \o <<>> = parents[c]
      BY ParentsOK DEF More
  <2> HIDE DEF y
  <2>a. walk[y] = IF y.line = <<>> THEN <<>>
                  ELSE IF Head(y.line) \in y.seen THEN walk[[line |-> Tail(y.line), seen |-> y.seen]]
                  ELSE <<Head(y.line)>> \o walk[[line |-> More(Head(y.line), {}) \o Tail(y.line),
                                                 seen |-> y.seen \cup {Head(y.line)}]]
      BY <1>4, <2>1 DEF Body
  <2>b. walk[y] = IF Head(y.line) \in y.seen THEN walk[[line |-> Tail(y.line), seen |-> y.seen]]
                  ELSE <<Head(y.line)>> \o walk[[line |-> More(Head(y.line), {}) \o Tail(y.line),
                                                 seen |-> y.seen \cup {Head(y.line)}]]
      BY <2>a, <2>1
  <2>c. Head(y.line) = c /\ Tail(y.line) = <<>> /\ y.seen = S
      BY <2>1, <2>2
  <2>4. walk[y] = IF c \in S THEN walk[[line |-> <<>>, seen |-> S]]
                  ELSE <<c>> \o walk[[line |-> parents[c], seen |-> S \cup {c}]]
      BY <2>b, <2>c, <2>3
  <2>5. walk[y] = IF c \in S THEN <<>> ELSE <<c>> \o walk[[line |-> parents[c], seen |-> S \cup {c}]]
      BY <1>6, <2>4
  <2> QED
      BY <2>1, <2>5 DEF y
<1>8. from \in H /\ Closed(H) /\ H \subseteq Commits
    BY HistoryIsLeast DEF Closed
<1>9. \A c \in Commits : when[c] \in Nat
    BY ParentsOK
<1> DEFINE Good(c, S) ==
               LET s == walk[[line |-> <<c>>, seen |-> S]]
               IN  NewestFirst(s) /\ \A d \in ToSet(s) : when[d] <= when[c]
           T == {n \in Nat : \A c \in H : \A S \in SUBSET Commits : c <= n => Good(c, S)}
<1> HIDE DEF H
<1>10. 0 \in T
    BY <1>8 DEF Commits
<1>11. NewestFirst(<<>>) /\ ToSet(<<>>) = {}
    BY DEF NewestFirst, ToSet
<1>12. ASSUME NEW n \in Nat, n \in T, NEW c \in H, NEW S \in SUBSET Commits, c <= n + 1
       PROVE  Good(c, S)
  <2>1. CASE c \in S
      BY <1>7, <1>8, <1>11, <2>1
  <2>2. CASE c \notin S
    <3> DEFINE s == walk[[line |-> parents[c], seen |-> S \cup {c}]]
    <3>1. walk[[line |-> <<c>>, seen |-> S]] = <<c>> \o s /\ c \in Commits
        BY <1>7, <1>8, <2>2
    <3>2. S \cup {c} \in SUBSET Commits
        BY <3>1
    <3>3. s \in Seq(Commits) /\ NewestFirst(s) /\ \A d \in ToSet(s) : when[d] <= when[c]
      <4>1. CASE parents[c] = <<>>
        <5>1. s = <<>>
            BY <1>6, <3>2, <4>1
        <5> HIDE DEF s
        <5> QED
            BY <1>11, <5>1
      <4>2. CASE parents[c] # <<>>
        <5>1. /\ parents[c] \in Seq(Commits) /\ Len(parents[c]) \in Nat
              /\ \A p \in ToSet(parents[c]) : p \in Commits /\ p < c
            BY <3>1, ParentsOK
        <5>2. Len(parents[c]) = 1
          <6>1. Len(parents[c]) # 0
              BY <4>2, <5>1
          <6>2. Len(parents[c]) < 2
              BY DEF H
          <6>3. \A m \in Nat : m # 0 /\ m < 2 => m = 1
              OBVIOUS
          <6> QED
              BY <5>1, <6>1, <6>2, <6>3, Zenon
        <5> DEFINE p == parents[c][1]
        <5>3. parents[c] = <<p>> /\ p \in ToSet(parents[c])
          <6>1. parents[c] = <<parents[c][1]>>
              BY <5>1, <5>2
          <6>2. 1 \in DOMAIN parents[c]
              BY <5>1, <5>2
          <6> QED
              BY <6>1, <6>2 DEF ToSet
        <5> HIDE DEF p
        <5>4. p \in Commits /\ p < c /\ p \in H /\ when[p] < when[c]
            BY <1>8, <5>1, <5>3 DEF Closed, H
        <5>5. p <= n /\ c \in Nat /\ p \in Nat
            BY <1>12, <3>1, <5>4 DEF Commits
        <5>6. Good(p, S \cup {c})
            BY <1>12, <3>2, <5>4, <5>5
        <5>7. [line |-> <<p>>, seen |-> S \cup {c}] \in Lines
            BY <1>7, <3>2, <5>4
        <5>8. s = walk[[line |-> <<p>>, seen |-> S \cup {c}]]
            BY <5>3
        <5> HIDE DEF s
        <5>9. s \in Seq(Commits) /\ NewestFirst(s) /\ \A d \in ToSet(s) : when[d] <= when[p]
            BY <1>5, <5>6, <5>7, <5>8
        <5>10. \A d \in ToSet(s) : d \in Commits
            BY <5>9 DEF ToSet
        <5>11. \A d \in ToSet(s) : when[d] <= when[c]
            BY <1>9, <3>1, <5>4, <5>9, <5>10
        <5> QED
            BY <5>9, <5>11
      <4> QED
          BY <4>1, <4>2
    <3> HIDE DEF s
    <3>4. NewestFirst(<<c>> \o s)
        BY <3>1, <3>3, NewestInFront
    <3>5. ToSet(<<c>> \o s) = {c} \cup ToSet(s)
        BY <3>1, <3>3, InFront
    <3>6. \A d \in ToSet(<<c>> \o s) : when[d] <= when[c]
        BY <1>9, <3>1, <3>3, <3>5
    <3> QED
        BY <3>1, <3>4, <3>6
  <2> QED
      BY <2>1, <2>2
<1> HIDE DEF Good
<1>13. ASSUME NEW n \in Nat, n \in T PROVE n + 1 \in T
    BY <1>12, <1>13
<1> HIDE DEF T
<1>14. from \in T /\ from <= from
    BY <1>10, <1>13, SetInduction DEF Commits
<1>15. Good(from, {})
    BY <1>8, <1>14 DEF T
<1> QED
    BY <1>3, <1>15 DEF Good


\* One more commit at the end.
LEMMA AtEnd ==
    ASSUME NEW C, NEW c \in C, NEW s \in Seq(C)
    PROVE  /\ Append(s, c) \in Seq(C) /\ Len(Append(s, c)) = Len(s) + 1
           /\ ToSet(Append(s, c)) = ToSet(s) \cup {c} /\ Last(Append(s, c)) = c
           /\ \A i \in 1 .. Len(s) : Append(s, c)[i] = s[i]
<1> DEFINE t == Append(s, c)
<1>1. /\ t \in Seq(C) /\ Len(t) = Len(s) + 1 /\ t[Len(s) + 1] = c /\ Len(s) \in Nat
      /\ \A i \in 1 .. Len(s) : t[i] = s[i]
      /\ DOMAIN s = 1 .. Len(s) /\ DOMAIN t = 1 .. Len(t)
    OBVIOUS
<1> HIDE DEF t
<1>2. \A i \in 1 .. Len(t) : i \in 1 .. Len(s) \/ i = Len(s) + 1
    BY <1>1
<1>3. Len(s) + 1 \in 1 .. Len(t) /\ \A i \in 1 .. Len(s) : i \in 1 .. Len(t)
    BY <1>1
<1>4. ToSet(t) \subseteq ToSet(s) \cup {c}
    BY <1>1, <1>2 DEF ToSet
<1>5. ToSet(s) \cup {c} \subseteq ToSet(t)
  <2>1. c \in ToSet(t)
      BY <1>1, <1>3 DEF ToSet
  <2>2. ASSUME NEW i \in DOMAIN s PROVE s[i] \in ToSet(t)
    <3>1. i \in DOMAIN t /\ t[i] = s[i]
        BY <1>1, <1>3
    <3> QED
        BY <3>1 DEF ToSet
  <2> QED
      BY <2>1, <2>2 DEF ToSet
<1>6. Last(t) = c
    BY <1>1 DEF Last
<1> QED
    BY <1>1, <1>4, <1>5, <1>6 DEF t

\* Each commit older than the one before it.
Falls(s) == \A i, j \in DOMAIN s : i < j => when[s[i]] > when[s[j]]

\* The page after the first i commits of the walk.
PageTo(page, walk, after, amount, i) ==
    /\ page \in Seq(Commits) /\ Len(page) <= amount /\ Falls(page)
    /\ \A c \in ToSet(page) : when[c] < after /\ \E j \in 1 .. i : c = walk[j]
    /\ \A j \in 1 .. i : when[walk[j]] < after =>
           \/ walk[j] \in ToSet(page)
           \/ Len(page) = amount /\ when[walk[j]] < when[Last(page)]

LEMMA ShownStep ==
    ASSUME HistoryOK, NEW walk \in Seq(Commits), Falls(walk), NEW after \in Nat,
           NEW amount \in Nat \ {0}, NEW n \in 0 .. Len(walk) - 1, NEW page,
           PageTo(page, walk, after, amount, n)
    PROVE  PageTo(Shown(page, walk[n + 1], after, amount), walk, after, amount, n + 1)
<1> DEFINE c == walk[n + 1]
<1>0. /\ n + 1 \in 1 .. Len(walk) /\ \A j \in 1 .. n : j \in 1 .. Len(walk) /\ j < n + 1
      /\ \A j \in 1 .. n + 1 : j \in 1 .. n \/ j = n + 1
      /\ \A j \in 1 .. n : j \in 1 .. n + 1
      /\ n + 1 \in 1 .. n + 1
      /\ DOMAIN walk = 1 .. Len(walk)
    OBVIOUS
<1>1. c \in Commits /\ \A j \in 1 .. n : walk[j] \in Commits /\ when[walk[j]] > when[c]
    BY <1>0 DEF Falls
<1>2. \A d \in Commits : when[d] \in Nat
    BY ParentsOK
<1>3. /\ page \in Seq(Commits) /\ Len(page) \in Nat /\ DOMAIN page = 1 .. Len(page)
      /\ ToSet(page) \subseteq Commits
  <2>1. page \in Seq(Commits)
      BY DEF PageTo
  <2> QED
      BY <2>1 DEF ToSet
<1>4. \A d \in ToSet(page) : when[d] > when[c]
    BY <1>1 DEF PageTo
<1> HIDE DEF c
<1>5. CASE when[c] < after /\ Len(page) < amount
  <2> DEFINE q == Append(page, c)
  <2>1. Shown(page, c, after, amount) = q
      BY <1>5 DEF Shown
  <2>2. /\ q \in Seq(Commits) /\ Len(q) = Len(page) + 1 /\ ToSet(q) = ToSet(page) \cup {c}
        /\ Last(q) = c /\ \A i \in 1 .. Len(page) : q[i] = page[i]
      BY <1>1, <1>3, AtEnd
  <2>3. DOMAIN q = 1 .. Len(page) + 1 /\ q[Len(page) + 1] = c
      BY <1>3
  <2> HIDE DEF q
  <2>4. Falls(q)
    <3> SUFFICES ASSUME NEW i \in DOMAIN q, NEW j \in DOMAIN q, i < j
                 PROVE  when[q[i]] > when[q[j]]
        BY DEF Falls
    <3>1. i \in 1 .. Len(page) /\ q[i] = page[i] /\ page[i] \in ToSet(page)
      <4>1. i \in 1 .. Len(page)
          BY <1>3, <2>3
      <4> QED
          BY <1>3, <2>2, <4>1 DEF ToSet
    <3>2. CASE j = Len(page) + 1
        BY <1>4, <2>3, <3>1, <3>2
    <3>3. CASE j # Len(page) + 1
      <4>1. j \in 1 .. Len(page) /\ q[j] = page[j]
          BY <1>3, <2>2, <2>3, <3>3
      <4> QED
          BY <1>3, <3>1, <4>1 DEF PageTo, Falls
    <3> QED
        BY <3>2, <3>3
  <2>5. \A d \in ToSet(q) : when[d] < after /\ \E j \in 1 .. n + 1 : d = walk[j]
      BY <1>0, <1>5, <2>2 DEF PageTo, c
  <2>6. \A j \in 1 .. n + 1 : when[walk[j]] < after => walk[j] \in ToSet(q)
    <3>1. Len(page) # amount
      <4>1. \A m, k \in Nat : m < k => m # k
          OBVIOUS
      <4>2. amount \in Nat
          OBVIOUS
      <4> QED
          BY <1>3, <1>5, <4>1, <4>2, Zenon
    <3>2. \A j \in 1 .. n : when[walk[j]] < after => walk[j] \in ToSet(page)
        BY <3>1 DEF PageTo
    <3> QED
        BY <1>0, <2>2, <3>2 DEF c
  <2>7. Len(q) <= amount
      BY <1>3, <1>5, <2>2
  <2>8. PageTo(q, walk, after, amount, n + 1)
      BY <2>2, <2>4, <2>5, <2>6, <2>7 DEF PageTo
  <2> QED
      BY <2>1, <2>8 DEF c
<1>6. CASE ~(when[c] < after /\ Len(page) < amount)
  <2>1. Shown(page, c, after, amount) = page
      BY <1>6 DEF Shown
  <2>2. when[c] < after => Len(page) = amount /\ when[c] < when[Last(page)]
    <3> SUFFICES ASSUME when[c] < after PROVE Len(page) = amount /\ when[c] < when[Last(page)]
        OBVIOUS
    <3>1. Len(page) = amount
        BY <1>3, <1>6 DEF PageTo
    <3>2. Last(page) \in ToSet(page)
      <4>1. Len(page) \in 1 .. Len(page)
          BY <1>3, <3>1
      <4> QED
          BY <1>3, <4>1 DEF ToSet, Last
    <3> QED
        BY <1>1, <1>2, <1>3, <1>4, <3>1, <3>2
  <2>3. \A d \in ToSet(page) : when[d] < after /\ \E j \in 1 .. n + 1 : d = walk[j]
      BY <1>0 DEF PageTo
  <2>4. \A j \in 1 .. n + 1 : when[walk[j]] < after =>
           \/ walk[j] \in ToSet(page)
           \/ Len(page) = amount /\ when[walk[j]] < when[Last(page)]
      BY <1>0, <2>2 DEF PageTo, c
  <2>5. PageTo(page, walk, after, amount, n + 1)
      BY <2>3, <2>4 DEF PageTo
  <2> QED
      BY <2>1, <2>5 DEF c
<1> QED
    BY <1>5, <1>6

\* A page of a walk that falls.
LEMMA PageOK ==
    ASSUME HistoryOK, NEW tip, Preorder(tip) \in Seq(Commits), Falls(Preorder(tip)),
           NEW after \in Nat, NEW amount \in Nat \ {0}
    PROVE  PageTo(Page(tip, after, amount), Preorder(tip), after, amount, Len(Preorder(tip)))
<1> DEFINE walk == Preorder(tip)
           N == Len(walk)
           F(n, f) == [i \in 0 .. n |-> IF i = 0 THEN <<>> ELSE Shown(f[i - 1], walk[i], after, amount)]
           T == {n \in Nat : \E f : f = F(n, f)}
<1>0. walk \in Seq(Commits) /\ Falls(walk) /\ N \in Nat
    OBVIOUS
<1> HIDE DEF walk, N
<1>1. 0 \in T
  <2> DEFINE f == [i \in 0 .. 0 |-> <<>>]
  <2>1. f = F(0, f)
      OBVIOUS
  <2> QED
      BY <2>1
<1>2. ASSUME NEW n \in Nat, n \in T PROVE n + 1 \in T
  <2>1. PICK f : f = F(n, f)
      BY <1>2
  <2> DEFINE g == [i \in 0 .. n + 1 |-> IF i \in 0 .. n THEN f[i] ELSE Shown(f[n], walk[n + 1], after, amount)]
  <2>2. ASSUME NEW i \in 0 .. n + 1
        PROVE  g[i] = IF i = 0 THEN <<>> ELSE Shown(g[i - 1], walk[i], after, amount)
    <3>1. CASE i = 0
      <4>1. 0 \in 0 .. n /\ 0 \in 0 .. n + 1
          OBVIOUS
      <4>2. f[0] = <<>>
          BY <2>1, <4>1
      <4> QED
          BY <3>1, <4>1, <4>2
    <3>2. CASE i # 0 /\ i \in 0 .. n
      <4>1. i - 1 \in 0 .. n /\ i - 1 \in 0 .. n + 1
          BY <3>2
      <4>2. f[i] = Shown(f[i - 1], walk[i], after, amount)
          BY <2>1, <3>2
      <4>3. g[i] = f[i] /\ g[i - 1] = f[i - 1]
          BY <3>2, <4>1
      <4> HIDE DEF g
      <4> QED
          BY <3>2, <4>2, <4>3
    <3>3. CASE i # 0 /\ i \notin 0 .. n
      <4>1. i = n + 1 /\ i - 1 = n /\ n \in 0 .. n /\ n \in 0 .. n + 1
          BY <3>3
      <4>2. g[i] = Shown(f[n], walk[n + 1], after, amount) /\ g[n] = f[n]
          BY <3>3, <4>1
      <4> HIDE DEF g
      <4> QED
          BY <3>3, <4>1, <4>2
    <3> QED
        BY <3>1, <3>2, <3>3
  <2>3. g = [i \in 0 .. n + 1 |-> g[i]]
      OBVIOUS
  <2> HIDE DEF g
  <2>4. g = F(n + 1, g)
      BY <2>2, <2>3
  <2> HIDE DEF F
  <2> QED
      BY <2>4
<1> HIDE DEF T
<1>3. N \in T
    BY <1>0, <1>1, <1>2, SetInduction
<1> DEFINE page == CHOOSE f : f = [i \in 0 .. Len(walk) |->
                        IF i = 0 THEN <<>> ELSE Shown(f[i - 1], walk[i], after, amount)]
<1>4. Page(tip, after, amount) = page[Len(walk)]
    BY DEF Page, walk
<1>5. \E f : f = [i \in 0 .. Len(walk) |->
                        IF i = 0 THEN <<>> ELSE Shown(f[i - 1], walk[i], after, amount)]
    BY <1>3 DEF T, N
<1>6. page = F(N, page)
    BY <1>5 DEF N
<1> HIDE DEF page
<1> DEFINE G == {n \in Nat : n <= N => PageTo(page[n], walk, after, amount, n)}
<1>7. 0 \in G
  <2>1. page[0] = <<>>
      BY <1>0, <1>6
  <2>2. <<>> \in Seq(Commits) /\ Len(<<>>) <= amount /\ ToSet(<<>>) = {} /\ Falls(<<>>)
      BY DEF ToSet, Falls
  <2> QED
    <3>1. 1 .. 0 = {}
        OBVIOUS
    <3>2. PageTo(<<>>, walk, after, amount, 0)
        BY <2>2, <3>1 DEF PageTo
    <3> QED
        BY <2>1, <3>2
<1>8. ASSUME NEW n \in Nat, n \in G PROVE n + 1 \in G
  <2> SUFFICES ASSUME n + 1 <= N PROVE PageTo(page[n + 1], walk, after, amount, n + 1)
      OBVIOUS
  <2>1. n <= N /\ n \in 0 .. N - 1 /\ n + 1 \in 0 .. N /\ n + 1 # 0 /\ (n + 1) - 1 = n
      BY <1>0
  <2>2. page[n + 1] = Shown(page[n], walk[n + 1], after, amount)
      BY <1>6, <2>1
  <2>3. PageTo(page[n], walk, after, amount, n)
      BY <1>8, <2>1
  <2> QED
      BY <1>0, <2>1, <2>2, <2>3, ShownStep DEF N
<1> HIDE DEF G
<1>9. N \in G
    BY <1>0, <1>7, <1>8, SetInduction
<1> QED
    BY <1>0, <1>4, <1>9 DEF G, N, walk


\* Commits that fall come once, and commits that fall go on with older ones that do.
LEMMA FallsOnce ==
    ASSUME HistoryOK, NEW s \in Seq(Commits), Falls(s)
    PROVE  Once(s)
<1> SUFFICES ASSUME NEW i \in DOMAIN s, NEW j \in DOMAIN s, s[i] = s[j] PROVE i = j
    BY DEF Once
<1>1. i \in Nat /\ j \in Nat /\ s[i] \in Commits
    OBVIOUS
<1>2. when[s[i]] \in Nat
    BY <1>1, ParentsOK
<1>3. ~(when[s[i]] > when[s[j]]) /\ ~(when[s[j]] > when[s[i]])
    BY <1>2
<1>4. ~(i < j) /\ ~(j < i)
    BY <1>3 DEF Falls
<1> QED
    BY <1>1, <1>4

LEMMA FallsOn ==
    ASSUME NEW s \in Seq(Commits), NEW t \in Seq(Commits), Falls(s), Falls(t),
           \A c \in ToSet(s) : \A d \in ToSet(t) : when[c] > when[d]
    PROVE  Falls(s \o t)
<1> DEFINE u == s \o t
<1>1. /\ u \in Seq(Commits) /\ Len(u) = Len(s) + Len(t) /\ Len(s) \in Nat /\ Len(t) \in Nat
      /\ DOMAIN u = 1 .. Len(u) /\ DOMAIN s = 1 .. Len(s) /\ DOMAIN t = 1 .. Len(t)
    OBVIOUS
<1>2. \A i \in 1 .. Len(u) : IF i <= Len(s) THEN i \in 1 .. Len(s) /\ u[i] = s[i]
                             ELSE i - Len(s) \in 1 .. Len(t) /\ u[i] = t[i - Len(s)]
    OBVIOUS
<1> HIDE DEF u
<1>3. SUFFICES ASSUME NEW i \in DOMAIN u, NEW j \in DOMAIN u, i < j PROVE when[u[i]] > when[u[j]]
    BY DEF Falls, u
<1>4. i \in 1 .. Len(u) /\ j \in 1 .. Len(u) /\ i \in Nat /\ j \in Nat
    BY <1>1
<1>5. CASE j <= Len(s)
  <2>1. i <= Len(s)
      BY <1>1, <1>3, <1>4, <1>5
  <2>2. i \in DOMAIN s /\ j \in DOMAIN s /\ u[i] = s[i] /\ u[j] = s[j]
      BY <1>1, <1>2, <1>4, <1>5, <2>1
  <2> QED
      BY <1>3, <2>2 DEF Falls
<1>6. CASE j > Len(s) /\ i <= Len(s)
  <2>0. ~(j <= Len(s))
      BY <1>1, <1>4, <1>6
  <2>1. i \in DOMAIN s /\ j - Len(s) \in DOMAIN t /\ u[i] = s[i] /\ u[j] = t[j - Len(s)]
      BY <1>1, <1>2, <1>4, <1>6, <2>0
  <2>2. u[i] \in ToSet(s) /\ u[j] \in ToSet(t)
      BY <2>1 DEF ToSet
  <2> QED
      BY <2>2
<1>7. CASE i > Len(s)
  <2>0. ~(i <= Len(s)) /\ ~(j <= Len(s))
      BY <1>1, <1>3, <1>4, <1>7
  <2>1. i - Len(s) \in DOMAIN t /\ j - Len(s) \in DOMAIN t /\ u[i] = t[i - Len(s)] /\ u[j] = t[j - Len(s)]
      BY <1>1, <1>2, <1>4, <2>0
  <2>2. i - Len(s) < j - Len(s)
      BY <1>1, <1>3, <1>4
  <2> QED
      BY <2>1, <2>2 DEF Falls
<1> QED
    BY <1>1, <1>4, <1>5, <1>6, <1>7

\* One page: of the commits older than after it has the newest.
LEMMA PageShows ==
    ASSUME HistoryOK, NEW tip \in Commits, Dated(tip), \A c \in History[tip] : Len(parents[c]) < 2,
           NEW after \in Nat, NEW amount \in Nat \ {0}
    PROVE  LET page == Page(tip, after, amount)
           IN  /\ page \in Seq(Commits) /\ Falls(page)
               /\ \A c \in ToSet(page) : c \in History[tip] /\ when[c] < after
               /\ \A c \in History[tip] : when[c] < after =>
                     c \in ToSet(page) \/ (page # <<>> /\ when[c] < when[Last(page)])
               /\ page # <<>> => /\ Last(page) \in ToSet(page) /\ when[Last(page)] \in Nat
                                 /\ when[Last(page)] < after
                                 /\ \A c \in ToSet(page) : when[c] >= when[Last(page)]
<1> DEFINE walk == Preorder(tip)
           H == History[tip]
           page == Page(tip, after, amount)
<1>1. walk \in Seq(Commits) /\ Once(walk) /\ ToSet(walk) = H
    BY PreorderReaches, ReachesHistory
<1>2. NewestFirst(walk)
    BY LineNewestFirst DEF Dated
<1>3. \A d \in Commits : when[d] \in Nat
    BY ParentsOK
<1>4. H \subseteq Commits
    BY HistoryIsLeast DEF Closed
<1>5. \A d, e \in H : when[d] = when[e] => d = e
    BY DEF Dated
<1> HIDE DEF walk, H
<1>6. Falls(walk)
  <2> SUFFICES ASSUME NEW i \in DOMAIN walk, NEW j \in DOMAIN walk, i < j
               PROVE  when[walk[i]] > when[walk[j]]
      BY DEF Falls
  <2>1. walk[i] \in H /\ walk[j] \in H
      BY <1>1 DEF ToSet
  <2>2. i # j
      BY <1>1
  <2>3. walk[i] # walk[j]
      BY <1>1, <2>2 DEF Once
  <2>4. when[walk[i]] # when[walk[j]] /\ when[walk[i]] \in Nat /\ when[walk[j]] \in Nat
      BY <1>3, <1>4, <1>5, <2>1, <2>3
  <2>5. when[walk[i]] >= when[walk[j]]
      BY <1>2 DEF NewestFirst
  <2> QED
      BY <2>4, <2>5
<1>7. PageTo(page, walk, after, amount, Len(walk))
    BY <1>1, <1>6, PageOK DEF walk
<1> HIDE DEF page
<1>8. page \in Seq(Commits) /\ Falls(page) /\ DOMAIN page = 1 .. Len(page) /\ Len(page) \in Nat
    BY <1>7 DEF PageTo
<1>9. DOMAIN walk = 1 .. Len(walk)
    BY <1>1
<1>10. \A c \in ToSet(page) : c \in H /\ when[c] < after
  <2>1. \A j \in 1 .. Len(walk) : walk[j] \in H
      BY <1>1, <1>9 DEF ToSet
  <2> QED
      BY <1>7, <2>1 DEF PageTo
<1>11. ASSUME NEW c \in H, when[c] < after
       PROVE  c \in ToSet(page) \/ (page # <<>> /\ when[c] < when[Last(page)])
  <2>1. PICK j \in 1 .. Len(walk) : c = walk[j]
      BY <1>1, <1>9 DEF ToSet
  <2>2. c \in ToSet(page) \/ (Len(page) = amount /\ when[c] < when[Last(page)])
      BY <1>7, <1>11, <2>1 DEF PageTo
  <2>3. Len(page) = amount => page # <<>>
    <3>1. Len(<<>>) = 0 /\ amount # 0
        OBVIOUS
    <3> QED
        BY <3>1
  <2> QED
      BY <2>2, <2>3
<1>12. ASSUME page # <<>>
       PROVE  /\ Last(page) \in ToSet(page) /\ when[Last(page)] \in Nat /\ when[Last(page)] < after
              /\ \A c \in ToSet(page) : when[c] >= when[Last(page)]
  <2>1. Len(page) \in DOMAIN page
      BY <1>8, <1>12
  <2>2. Last(page) = page[Len(page)] /\ Last(page) \in ToSet(page)
      BY <2>1 DEF Last, ToSet
  <2>3. \A c \in ToSet(page) : when[c] \in Nat
      BY <1>3, <1>4, <1>10
  <2>4. ASSUME NEW i \in DOMAIN page PROVE when[page[i]] >= when[Last(page)]
    <3>1. page[i] \in ToSet(page)
        BY DEF ToSet
    <3>2. CASE i = Len(page)
        BY <2>2, <2>3, <3>2
    <3>3. CASE i # Len(page)
      <4>1. i < Len(page)
          BY <1>8, <3>3
      <4>2. when[page[i]] > when[page[Len(page)]]
          BY <1>8, <2>1, <4>1 DEF Falls
      <4> QED
          BY <2>2, <2>3, <3>1, <4>2
    <3> QED
        BY <3>2, <3>3
  <2>5. \A c \in ToSet(page) : when[c] >= when[Last(page)]
      BY <2>4 DEF ToSet
  <2> QED
      BY <1>10, <2>2, <2>3, <2>5
<1> QED
    BY <1>8, <1>10, <1>11, <1>12 DEF page, H

\* Page after page: all the commits older than a date.
PageLoop(tip, amount) ==
    [states |-> Nat,
     done   |-> {a \in Nat : Page(tip, a, amount) = <<>>},
     skips  |-> {},
     next   |-> [a \in Nat |-> when[Last(Page(tip, a, amount))]],
     head   |-> [a \in Nat |-> Page(tip, a, amount)],
     mu     |-> [a \in Nat |-> a]]

LEMMA PagesList ==
    ASSUME HistoryOK, NEW tip \in Commits, Dated(tip), \A c \in History[tip] : Len(parents[c]) < 2,
           NEW amount \in Nat \ {0}
    PROVE  Once(AllPages(tip, amount)) /\ ToSet(AllPages(tip, amount)) = History[tip]
<1> DEFINE k == PageLoop(tip, amount)
           P(a) == Page(tip, a, amount)
           H == History[tip]
           F(v) == [after \in Nat |->
                        LET page == Page(tip, after, amount)
                        IN  IF page = <<>> THEN <<>> ELSE page \o v[when[Last(page)]]]
           pages == CHOOSE v : v = F(v)
<1>1. /\ k.states = Nat /\ k.done = {a \in Nat : P(a) = <<>>} /\ k.skips = {}
      /\ \A a \in Nat : k.next[a] = when[Last(P(a))] /\ k.head[a] = P(a) /\ k.mu[a] = a
    BY DEF PageLoop
<1>2. AllPages(tip, amount) = pages[Never]
    BY DEF AllPages
<1>3. ASSUME NEW a \in Nat
      PROVE  /\ P(a) \in Seq(Commits) /\ Falls(P(a))
             /\ \A c \in ToSet(P(a)) : c \in H /\ when[c] < a
             /\ \A c \in H : when[c] < a =>
                   c \in ToSet(P(a)) \/ (P(a) # <<>> /\ when[c] < when[Last(P(a))])
             /\ P(a) # <<>> => /\ Last(P(a)) \in ToSet(P(a)) /\ when[Last(P(a))] \in Nat
                               /\ when[Last(P(a))] < a
                               /\ \A c \in ToSet(P(a)) : when[c] >= when[Last(P(a))]
    BY PageShows
<1>4. ASSUME NEW v PROVE IsRest(v, k) <=> v = F(v)
  <2> HIDE DEF k
  <2>1. ASSUME NEW a \in Nat
        PROVE  Turn(a, v, k.done, k.skips, k.head, k.next) =
                   IF P(a) = <<>> THEN <<>> ELSE P(a) \o v[when[Last(P(a))]]
      BY <1>1 DEF Turn
  <2>2. [a \in Nat |-> Turn(a, v, k.done, k.skips, k.head, k.next)] =
        [a \in Nat |-> IF P(a) = <<>> THEN <<>> ELSE P(a) \o v[when[Last(P(a))]]]
      BY <2>1
  <2>3. F(v) = [a \in Nat |-> IF P(a) = <<>> THEN <<>> ELSE P(a) \o v[when[Last(P(a))]]]
      OBVIOUS
  <2> HIDE DEF F, P
  <2> QED
      BY <1>1, <2>2, <2>3 DEF IsRest
<1> HIDE DEF k, P, F
<1>5. IsLoop(k)
  <2>1. \A a \in k.states : k.mu[a] \in Nat
      BY <1>1
  <2>2. ASSUME NEW a \in k.states \ k.done
        PROVE  k.next[a] \in k.states /\ k.mu[k.next[a]] < k.mu[a]
    <3>1. a \in Nat /\ P(a) # <<>>
        BY <1>1
    <3>2. when[Last(P(a))] \in Nat /\ when[Last(P(a))] < a
        BY <1>3, <3>1
    <3>3. k.next[a] = when[Last(P(a))] /\ k.mu[a] = a
        BY <1>1, <3>1
    <3> QED
        BY <1>1, <3>2, <3>3
  <2> QED
      BY <2>1, <2>2 DEF IsLoop
<1>6. \E v : IsRest(v, k)
    BY <1>5, LoopEnds
<1>7. pages = F(pages)
    BY <1>4, <1>6
<1> HIDE DEF pages
<1>8. \A a \in Nat : pages[a] = IF P(a) = <<>> THEN <<>> ELSE P(a) \o pages[when[Last(P(a))]]
    BY <1>7 DEF F, P
<1>9. H \subseteq Commits /\ \A c \in Commits : when[c] \in Nat
    BY HistoryIsLeast, ParentsOK DEF Closed
<1> DEFINE Good(a) == /\ pages[a] \in Seq(Commits) /\ Falls(pages[a])
                      /\ ToSet(pages[a]) = {c \in H : when[c] < a}
           T == {n \in Nat : \A a \in Nat : a < n => Good(a)}
<1> HIDE DEF H
<1>10. 0 \in T
    OBVIOUS
<1>11. ASSUME NEW n \in Nat, n \in T, NEW a \in Nat, a < n + 1 PROVE Good(a)
  <2>1. CASE P(a) = <<>>
    <3>1. pages[a] = <<>>
        BY <1>8, <2>1
    <3>2. <<>> \in Seq(Commits) /\ ToSet(<<>>) = {} /\ Falls(<<>>)
        BY DEF ToSet, Falls
    <3>3. \A c \in H : ~(when[c] < a)
        BY <1>3, <2>1, <3>2
    <3> QED
        BY <3>1, <3>2, <3>3
  <2>2. CASE P(a) # <<>>
    <3> DEFINE b == when[Last(P(a))]
               s == P(a)
               t == pages[b]
    <3>1. pages[a] = s \o t
        BY <1>8, <2>2
    <3>2. b \in Nat /\ b < a /\ s \in Seq(Commits) /\ Falls(s) /\ \A c \in ToSet(s) : when[c] >= b
        BY <1>3, <2>2
    <3>3. /\ \A c \in ToSet(s) : c \in H /\ when[c] < a
          /\ \A c \in H : when[c] < a => c \in ToSet(s) \/ when[c] < b
        BY <1>3
    <3> HIDE DEF b, s
    <3>4. Good(b)
        BY <1>11, <3>2
    <3>5. t \in Seq(Commits) /\ Falls(t) /\ ToSet(t) = {c \in H : when[c] < b}
        BY <3>4
    <3> HIDE DEF t, Good
    <3>6. \A c \in ToSet(s) : \A d \in ToSet(t) : when[c] > when[d]
        BY <1>9, <3>2, <3>3, <3>5
    <3>7. Falls(s \o t)
        BY <3>2, <3>5, <3>6, FallsOn
    <3>8. s \o t \in Seq(Commits) /\ ToSet(s \o t) = ToSet(s) \cup ToSet(t)
        BY <3>2, <3>5, InOrder
    <3>9. ToSet(s) \cup ToSet(t) = {c \in H : when[c] < a}
        BY <1>9, <3>2, <3>3, <3>5
    <3> QED
        BY <3>1, <3>7, <3>8, <3>9 DEF Good
  <2> QED
      BY <2>1, <2>2
<1> HIDE DEF Good
<1>12. ASSUME NEW n \in Nat, n \in T PROVE n + 1 \in T
    BY <1>11, <1>12
<1> HIDE DEF T
<1>13. Nat \subseteq T
    BY <1>10, <1>12, SetInduction
<1>14. Never \in Nat /\ \A c \in Commits : when[c] < Never
  <2>1. DOMAIN when = Commits
    <3>1. when \in Seq(Times) /\ Len(when) = Len(parents)
        BY DEF HistoryOK
    <3> QED
        BY <3>1 DEF Commits
  <2>2. ToSet(when) = {when[c] : c \in Commits}
      BY <2>1 DEF ToSet
  <2>3. PICK d \in Commits : \A e \in Commits : when[d] >= when[e]
      BY OneIsNewest
  <2>4. when[d] \in ToSet(when) /\ \A u \in ToSet(when) : u <= when[d]
      BY <1>9, <2>2, <2>3
  <2> DEFINE m == CHOOSE t \in ToSet(when) : \A u \in ToSet(when) : u <= t
  <2>5. m \in ToSet(when) /\ \A u \in ToSet(when) : u <= m
      BY <2>4
  <2>6. Never = 1 + m
      BY DEF Never
  <2> HIDE DEF m
  <2>7. m \in Nat /\ \A c \in Commits : when[c] <= m
      BY <1>9, <2>2, <2>5
  <2> QED
      BY <1>9, <2>6, <2>7
<1>15. Good(Never)
  <2>1. Never + 1 \in T /\ Never < Never + 1
      BY <1>13, <1>14
  <2> QED
      BY <1>14, <2>1 DEF T
<1>16. pages[Never] \in Seq(Commits) /\ Falls(pages[Never]) /\ ToSet(pages[Never]) = H
    BY <1>9, <1>14, <1>15 DEF Good
<1>17. Once(pages[Never])
    BY <1>16, FallsOnce
<1> QED
    BY <1>2, <1>16, <1>17 DEF H

LEMMA PagesListTheLine == HistoryOK => PagesListLine
<1> SUFFICES ASSUME HistoryOK, Newest > 0, Dated(Newest),
                    \A c \in History[Newest] : Len(parents[c]) < 2, NEW n \in Amounts
             PROVE  Once(AllPages(Newest, n)) /\ ToSet(AllPages(Newest, n)) = History[Newest]
    BY DEF PagesListLine
<1>1. Newest \in Commits
    BY CommitNumbers DEF Newest, Commits
<1>2. n \in Nat \ {0}
    BY HistoryAssumption
<1> QED
    BY <1>1, <1>2, PagesList

----------------------------------------------------------------------------
(* The theorems.                                                           *)

LEMMA InsertKeepsHistory ==
    ASSUME HistoryOK, NEW ps \in Seq(Commits), Len(ps) <= 2, NEW t \in Times, InsertCommit(ps, t)
    PROVE  HistoryOK'
<1> DEFINE n == Len(parents)
<1>1. /\ parents \in Seq(Seq(Nat)) /\ when \in Seq(Times) /\ Len(when) = n /\ n \in Nat
      /\ parents' = Append(parents, ps) /\ when' = Append(when, t)
    BY DEF HistoryOK, InsertCommit
<1>2. ps \in Seq(Nat) /\ ToSet(ps) \subseteq 1 .. n
  <2>1. Commits = 1 .. n /\ 1 .. n \subseteq Nat
      BY <1>1 DEF Commits
  <2> QED
      BY <2>1 DEF ToSet
<1>3. /\ parents' \in Seq(Seq(Nat)) /\ when' \in Seq(Times) /\ Len(parents') = n + 1
      /\ Len(when') = n + 1
      /\ parents'[n + 1] = ps /\ \A c \in 1 .. n : parents'[c] = parents[c]
    BY <1>1, <1>2
<1>4. \A c \in 1 .. n : ToSet(parents[c]) \subseteq 1 .. c - 1 /\ Len(parents[c]) <= 2
    BY DEF HistoryOK, Commits
<1> HIDE DEF n
<1>5. ASSUME NEW c \in 1 .. n + 1
      PROVE  ToSet(parents'[c]) \subseteq 1 .. c - 1 /\ Len(parents'[c]) <= 2
  <2>1. CASE c \in 1 .. n
      BY <1>3, <1>4, <2>1
  <2>2. CASE c \notin 1 .. n
    <3>1. c = n + 1 /\ c - 1 = n
        BY <1>1, <2>2
    <3> QED
        BY <1>2, <1>3, <3>1
  <2> QED
      BY <2>1, <2>2
<1>6. Commits' = 1 .. n + 1
    BY <1>3 DEF Commits
<1> QED
    BY <1>3, <1>5, <1>6 DEF HistoryOK

\* Every commit is inserted after its parents, which are commits.
THEOREM HistoryIsOK == HistorySpec => []HistoryOK
<1>1. HistoryInit => HistoryOK
    BY DEF HistoryInit, HistoryOK, Commits
<1>2. HistoryOK /\ [HistoryNext]_historyVars => HistoryOK'
  <2> SUFFICES ASSUME HistoryOK, [HistoryNext]_historyVars PROVE HistoryOK'
      OBVIOUS
  <2>1. CASE UNCHANGED historyVars
      BY <2>1 DEF historyVars, HistoryOK, Commits
  <2>2. ASSUME NEW t \in Times, Commit(t) PROVE HistoryOK'
    <3>1. PICK ps \in {<<>>} \cup {<<c>> : c \in Commits} : InsertCommit(ps, t)
        BY <2>2 DEF Commit
    <3>2. ps \in Seq(Commits) /\ Len(ps) <= 2
      <4>1. <<>> \in Seq(Commits) /\ Len(<<>>) <= 2
          OBVIOUS
      <4>2. \A c \in Commits : <<c>> \in Seq(Commits) /\ Len(<<c>>) <= 2
          OBVIOUS
      <4> QED
          BY <4>1, <4>2
    <3> QED
        BY <3>1, <3>2, InsertKeepsHistory
  <2>3. ASSUME NEW t \in Times, NEW a \in Commits, NEW b \in Commits, Merge(a, b, t) PROVE HistoryOK'
    <3>1. InsertCommit(<<a, b>>, t)
        BY <2>3 DEF Merge
    <3>2. <<a, b>> \in Seq(Commits) /\ Len(<<a, b>>) <= 2
        OBVIOUS
    <3> QED
        BY <3>1, <3>2, InsertKeepsHistory
  <2> QED
      BY <2>1, <2>2, <2>3 DEF HistoryNext
<1> QED
    BY <1>1, <1>2, PTL DEF HistorySpec

\* versionmgr/merge_base.go: whatever dates the commits have, and in whatever order
\* the sort leaves commits of one date, all that MergeBase may answer for two commits
\* are their best common ancestors, all of them.
THEOREM MergeBaseAnswersBest == HistorySpec => []MergeBaseIsBest
BY HistoryIsOK, MergeBasesAreBest, PTL

\* versionmgr/commit_walker*.go: all four walks visit the commits of a history, each
\* once, and the walk by time is newest first where the dates allow it.
THEOREM WalksVisit == HistorySpec => []WalksVisitHistory
BY HistoryIsOK, WalksVisitTheHistory, PTL

\* controller/repository_ctl.go: the pages of a history without merges, whose dates
\* tell its commits apart and follow the parent links, list it, each commit once.
THEOREM PagesListHistory == HistorySpec => []PagesListLine
BY HistoryIsOK, PagesListTheLine, PTL
=============================================================================
