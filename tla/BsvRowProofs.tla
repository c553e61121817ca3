---------------------------- MODULE BsvRowProofs -----------------------------
(***************************************************************************)
(* The lemmas that the proofs of several components share.                 *)
(*                                                                         *)
(* About definitions by steps: induction over the natural numbers, by their*)
(* least element, and recursive functions; and from them about the heap.   *)
(*                                                                         *)
(* About rows and chunks, for every buffer size and every table of rows:   *)
(* what the bytes of a row are, where a chunk starts and ends, and that    *)
(* joining two blocks whose rows continue each other gives a block; that   *)
(* dumping the next row, and flushing, keep what WriterRun and PacksSoFar  *)
(* say of the writer; what load_next() returns from a file of chunks: the  *)
(* row whose first byte is next, whether that is in the chunk held or      *)
(* starts the chunk after it, or the end; the raw rows made of what was    *)
(* loaded: which row they show, and that dumping them writes it; and the   *)
(* rows found in a file.                                                   *)
(***************************************************************************)
EXTENDS BsvRawRow, BsvWrite, BsvHeap, SequenceTheorems, FiniteSetTheorems, WellFoundedInduction, TLAPS

\* A nonempty set of naturals has a least element: what inductions start from.
LEMMA LeastElement ==
    ASSUME NEW T, T \subseteq Nat, T # {}
    PROVE  \E m \in T : \A k \in T : m <= k
<1>1. PICK m \in T : \A k \in T : ~(<<k, m>> \in OpToRel(<, Nat))
  BY NatLessThanWellFounded, WFMin
<1>2. m \in Nat /\ \A k \in T : k \in Nat
  OBVIOUS
<1>3. \A k \in T : ~(k < m)
  BY <1>1, <1>2, Zenon DEF OpToRel
<1>. QED
  BY <1>2, <1>3

\* What holds at 0 and, when it holds at the number before, at every number.
LEMMA UpFromZero ==
    ASSUME NEW n \in Nat, NEW P, 0 \in P, \A k \in 1..n : k - 1 \in P => k \in P
    PROVE  \A k \in 0..n : k \in P
<1>. SUFFICES ASSUME \E k \in 0..n : k \notin P PROVE FALSE
  OBVIOUS
<1>. DEFINE T == {k \in 0..n : k \notin P}
<1>1. T \subseteq Nat /\ T # {}
  OBVIOUS
<1>2. PICK m \in T : \A k \in T : m <= k
  BY <1>1, LeastElement
<1>3. m \in 0..n /\ m \notin P /\ m # 0
  BY <1>2
<1>4. m \in 1..n /\ m - 1 \in 0..n /\ ~(m <= m - 1)
  BY <1>3
<1>5. m - 1 \in P
  BY <1>2, <1>4
<1>. QED
  BY <1>3, <1>4, <1>5

\* f starts with a and goes from each value to the next as F says.
Follows(n, a, F, f) == f[0] = a /\ \A k \in 1..n : f[k] = F[k][f[k - 1]]

\* A function whose values are given step by step exists.
LEMMA StepByStep ==
    ASSUME NEW n \in Nat, NEW S, NEW a \in S, NEW F \in [1..n -> [S -> S]]
    PROVE  \E f \in [0..n -> S] : Follows(n, a, F, f)
<1>. DEFINE Upto(m, f) == f[0] = a /\ \A k \in 1..m : f[k] = F[k][f[k - 1]]
            P == {m \in 0..n : \E f \in [0..m -> S] : Upto(m, f)}
<1>1. 0 \in P
  <2>. DEFINE f == [k \in 0..0 |-> a]
  <2>1. 0 \in 0..0 /\ 1..0 = {} /\ 0 \in 0..n
    OBVIOUS
  <2>2. f \in [0..0 -> S] /\ f[0] = a
    BY <2>1
  <2>. HIDE DEF f
  <2>3. Upto(0, f)
    BY <2>1, <2>2
  <2>. QED
    BY <2>1, <2>2, <2>3
<1>2. ASSUME NEW m \in 1..n, m - 1 \in P PROVE m \in P
  <2>1. PICK f \in [0..m - 1 -> S] : Upto(m - 1, f)
    BY <1>2
  <2>. DEFINE b == F[m][f[m - 1]]
              g == [k \in 0..m |-> IF k = m THEN b ELSE f[k]]
  <2>2. m - 1 \in 0..m - 1 /\ 0 \in 0..m - 1
    OBVIOUS
  <2>3. b \in S
    BY <2>2
  <2>. HIDE DEF b
  <2>4. g \in [0..m -> S] /\ g[0] = a
    BY <2>1, <2>2, <2>3
  <2>5. ASSUME NEW k \in 1..m PROVE g[k] = F[k][g[k - 1]]
    <3>1. CASE k = m
      <4>1. g[k] = b /\ g[k - 1] = f[m - 1]
        BY <3>1
      <4>. QED
        BY <3>1, <4>1 DEF b
    <3>2. CASE k # m
      <4>1. k \in 1..m - 1 /\ g[k] = f[k] /\ g[k - 1] = f[k - 1]
        BY <3>2
      <4>. QED
        BY <2>1, <4>1
    <3>. QED
      BY <3>1, <3>2
  <2>. HIDE DEF g
  <2>6. Upto(m, g) /\ m \in 0..n
    BY <2>4, <2>5
  <2>. QED
    BY <2>4, <2>6
<1>. HIDE DEF P
<1>3. \A k \in 0..n : k \in P
  BY <1>1, <1>2, UpFromZero
<1>4. n \in P
  BY <1>3
<1>. QED
  BY <1>4 DEF P, Follows

-----------------------------------------------------------------------------
\* f[i] is where one gets to from i, going from each place that is not a stop
\* to the one that go says.
Walks(n, go, stop, f) ==
    f = [i \in 1..n |-> {i} \union (IF i \in stop THEN {} ELSE f[go[i]])]

\* Such a function exists: f[i] is what every set has that i is in and that
\* going on does not leave.
LEMMA WalkExists ==
    ASSUME NEW n \in Nat, NEW stop, NEW go, \A i \in 1..n : i \notin stop => go[i] \in 1..n
    PROVE  \E f : Walks(n, go, stop, f)
<1>. DEFINE Closed(i, A) == i \in A /\ \A k \in A : k \notin stop => go[k] \in A
            f == [i \in 1..n |-> {k \in 1..n : \A A \in SUBSET (1..n) : Closed(i, A) => k \in A}]
<1>1. ASSUME NEW i \in 1..n
      PROVE  f[i] = {i} \union (IF i \in stop THEN {} ELSE f[go[i]])
  <2>1. f[i] = {k \in 1..n : \A A \in SUBSET (1..n) : Closed(i, A) => k \in A}
    OBVIOUS
  <2>2. CASE i \in stop
    <3>1. Closed(i, {i}) /\ {i} \in SUBSET (1..n)
      BY <2>2
    <3>2. f[i] = {i}
      BY <2>1, <3>1
    <3>. QED
      BY <2>2, <3>2
  <2>3. CASE i \notin stop
    <3>. DEFINE p == go[i]
    <3>1. p \in 1..n
      BY <2>3
    <3>2. f[p] = {k \in 1..n : \A A \in SUBSET (1..n) : Closed(p, A) => k \in A}
      BY <3>1
    <3>. HIDE DEF f
    <3>3. ASSUME NEW k \in f[i], k # i PROVE k \in f[p]
      <4>. SUFFICES ASSUME NEW A \in SUBSET (1..n), Closed(p, A) PROVE k \in A
        BY <2>1, <3>2
      <4>1. Closed(i, A \union {i}) /\ A \union {i} \in SUBSET (1..n)
        OBVIOUS
      <4>2. k \in A \union {i}
        BY <2>1, <4>1
      <4>. QED
        BY <3>3, <4>2
    <3>4. i \in f[i]
      BY <2>1
    <3>5. ASSUME NEW k \in f[p] PROVE k \in f[i]
      <4>1. ASSUME NEW A \in SUBSET (1..n), Closed(i, A) PROVE Closed(p, A)
        BY <2>3, <4>1
      <4>. HIDE DEF Closed
      <4>. QED
        BY <2>1, <3>2, <4>1
    <3>. QED
      BY <2>3, <3>3, <3>4, <3>5
  <2>. QED
    BY <2>2, <2>3
<1>2. f = [i \in 1..n |-> f[i]]
  OBVIOUS
<1>. HIDE DEF f
<1>3. [i \in 1..n |-> f[i]] = [i \in 1..n |-> {i} \union (IF i \in stop THEN {} ELSE f[go[i]])]
  BY <1>1
<1>. QED
  BY <1>2, <1>3 DEF Walks

\* U are the places of a walk from i: going on stays in it and comes to a
\* stop, and every place but i is one that was gone to.
IsWalk(n, go, stop, i, U) ==
    /\ U \subseteq 1..n /\ i \in U
    /\ \A k \in U : k \notin stop => go[k] \in U
    /\ \A j \in U : j # i => \E k \in U : k \notin stop /\ go[k] = j
    /\ \E k \in U : k \in stop

\* When something falls with every step, the walks come to an end.
LEMMA WalkEnds ==
    ASSUME NEW n \in Nat, NEW stop, NEW go, NEW f, Walks(n, go, stop, f), NEW left \in [1..n -> Nat],
           \A i \in 1..n : i \notin stop => go[i] \in 1..n /\ left[go[i]] < left[i]
    PROVE  \A i \in 1..n : IsWalk(n, go, stop, i, f[i])
<1>. SUFFICES ASSUME \E i \in 1..n : ~IsWalk(n, go, stop, i, f[i]) PROVE FALSE
  OBVIOUS
<1>. DEFINE T == {left[i] : i \in {j \in 1..n : ~IsWalk(n, go, stop, j, f[j])}}
<1>1. T \subseteq Nat /\ T # {}
  OBVIOUS
<1>2. PICK m \in T : \A k \in T : m <= k
  BY <1>1, LeastElement
<1>3. PICK i \in 1..n : m = left[i] /\ ~IsWalk(n, go, stop, i, f[i])
  BY <1>2
<1>4. f[i] = {i} \union (IF i \in stop THEN {} ELSE f[go[i]])
  BY DEF Walks
<1>5. CASE i \in stop
  <2>1. f[i] = {i}
    BY <1>4, <1>5
  <2>2. IsWalk(n, go, stop, i, f[i])
    BY <1>5, <2>1 DEF IsWalk
  <2>. QED
    BY <1>3, <2>2
<1>6. CASE i \notin stop
  <2>. DEFINE p == go[i]
  <2>1. p \in 1..n /\ left[p] < left[i]
    BY <1>6
  <2>2. IsWalk(n, go, stop, p, f[p])
    <3>. SUFFICES ASSUME ~IsWalk(n, go, stop, p, f[p]) PROVE FALSE
      OBVIOUS
    <3>1. left[p] \in T
      BY <2>1
    <3>2. left[p] \in Nat /\ left[i] \in Nat
      BY <2>1
    <3>. HIDE DEF p, T
    <3>3. left[i] <= left[p]
      BY <1>2, <1>3, <3>1
    <3>. QED
      BY <2>1, <3>2, <3>3
  <2>3. f[i] = {i} \union f[p]
    BY <1>4, <1>6
  <2>4. IsWalk(n, go, stop, i, f[i])
    <3>1. f[i] \subseteq 1..n /\ i \in f[i] /\ \E k \in f[i] : k \in stop
      BY <2>2, <2>3 DEF IsWalk
    <3>2. \A k \in f[i] : k \notin stop => go[k] \in f[i]
      BY <2>2, <2>3 DEF IsWalk
    <3>3. ASSUME NEW j \in f[i], j # i PROVE \E k \in f[i] : k \notin stop /\ go[k] = j
      <4>1. CASE j = p
        BY <1>6, <3>1, <4>1
      <4>2. CASE j # p
        <5>1. j \in f[p]
          BY <2>3, <3>3
        <5>. QED
          BY <2>2, <2>3, <4>2, <5>1 DEF IsWalk
      <4>. QED
        BY <4>1, <4>2
    <3>. QED
      BY <3>1, <3>2, <3>3 DEF IsWalk
  <2>. QED
    BY <1>3, <2>4
<1>. QED
  BY <1>5, <1>6

-----------------------------------------------------------------------------
\* The parent of a node comes before it, and the node is one of its two children.
LEMMA ParentOf ==
    ASSUME NEW i \in Nat, i >= 2
    PROVE  /\ Parent(i) \in Nat /\ Parent(i) >= 1 /\ Parent(i) < i
           /\ i = 2 * Parent(i) \/ i = 2 * Parent(i) + 1
BY DEF Parent

\* The parent of each child of a node is that node.
LEMMA ChildrenOf ==
    ASSUME NEW i \in Nat
    PROVE  Parent(2 * i) = i /\ Parent(2 * i + 1) = i
BY DEF Parent

\* The root of a heap belongs nearest to it.
LEMMA RootIsLeast ==
    ASSUME NEW S, NEW rank \in [S -> Int], NEW h, IsHeap(h, S, rank)
    PROVE  \A k \in 1..Len(h) : rank[h[1]] <= rank[h[k]]
<1>. SUFFICES ASSUME \E k \in 1..Len(h) : ~(rank[h[1]] <= rank[h[k]]) PROVE FALSE
  OBVIOUS
<1>. DEFINE T == {k \in 1..Len(h) : ~(rank[h[1]] <= rank[h[k]])}
<1>1. h \in Seq(S) /\ Len(h) \in Nat /\ HeapOrder(h, rank)
  BY DEF IsHeap
<1>2. \A k \in 1..Len(h) : rank[h[k]] \in Int
  BY <1>1
<1>3. T \subseteq Nat /\ T # {}
  OBVIOUS
<1>4. PICK m \in T : \A k \in T : m <= k
  BY <1>3, LeastElement
<1>5. m \in 1..Len(h) /\ ~(rank[h[1]] <= rank[h[m]])
  OBVIOUS
<1>6. m \in 2..Len(h)
  BY <1>1, <1>2, <1>5
<1>. DEFINE p == Parent(m)
<1>7. p \in 1..Len(h) /\ p < m /\ p \in Nat /\ m \in Nat
  BY <1>1, <1>6, ParentOf
<1>8. rank[h[p]] <= rank[h[m]]
  BY <1>1, <1>6 DEF HeapOrder
<1>9. p \notin T
  <2>. HIDE DEF p, T
  <2>. QED
    BY <1>4, <1>7
<1>10. rank[h[1]] <= rank[h[p]]
  BY <1>7, <1>9
<1>11. rank[h[1]] \in Int /\ rank[h[p]] \in Int /\ rank[h[m]] \in Int
  BY <1>2, <1>5, <1>6, <1>7, <1>1
<1>. HIDE DEF p
<1>. QED
  BY <1>5, <1>8, <1>10, <1>11

\* Values that are all different are as many as their places, and n places
\* that hold n values hold each once.
LEMMA HeldOnce ==
    ASSUME NEW S, NEW h \in Seq(S)
    PROVE  /\ IsFiniteSet(Held(h)) /\ Cardinality(Held(h)) <= Len(h)
           /\ Cardinality(Held(h)) = Len(h) <=> Once(h)
<1>. DEFINE n == Len(h)
            D == 1..n
            T == Held(h)
            f == [k \in D |-> h[k]]
<1>1. n \in Nat
  OBVIOUS
<1>2. f \in [D -> T] /\ \A t \in T : \E k \in D : f[k] = t
  BY DEF Held
<1>3. f \in Surjection(D, T)
  BY <1>2 DEF Surjection
<1>4. IsFiniteSet(D) /\ Cardinality(D) = n
  <2>. HIDE DEF n
  <2>1. IsFiniteSet(1..n) /\ Cardinality(1..n) = IF 1 > n THEN 0 ELSE n - 1 + 1
    BY <1>1, FS_Interval
  <2>. QED
    BY <1>1, <2>1
<1>5. f \in Injection(D, T) <=> Once(h)
  BY <1>2 DEF Injection, IsInjective, Once
<1>. HIDE DEF f, D, T
<1>6. IsFiniteSet(T) /\ Cardinality(T) <= Cardinality(D)
      /\ (Cardinality(T) = Cardinality(D) <=> f \in Injection(D, T))
  BY <1>3, <1>4, FS_Surjection
<1>. QED
  BY <1>4, <1>5, <1>6 DEF T

\* Of n + 1 places that hold what n held once, and one value more, each holds
\* it once.
LEMMA OneMore ==
    ASSUME NEW S, NEW h \in Seq(S), Once(h), NEW x, x \notin Held(h),
           NEW g \in Seq(S), Len(g) = Len(h) + 1, Held(g) = Held(h) \union {x}
    PROVE  Once(g)
<1>1. IsFiniteSet(Held(h)) /\ Cardinality(Held(h)) = Len(h)
  BY HeldOnce
<1>2. Cardinality(Held(h) \union {x}) = Cardinality(Held(h)) + 1
  BY <1>1, FS_AddElement
<1>3. Cardinality(Held(g)) = Len(g)
  BY <1>1, <1>2
<1>. QED
  BY <1>3, HeldOnce

\* A sequence is extended by a value that it does not hold.
LEMMA HeldLast ==
    ASSUME NEW S, NEW s \in Seq(S), NEW x \in S
    PROVE  LET t == Append(s, x)
           IN  /\ t \in Seq(S) /\ Len(t) = Len(s) + 1 /\ Len(s) \in Nat
               /\ \A k \in 1..Len(s) : t[k] = s[k]
               /\ t[Len(s) + 1] = x
               /\ Held(t) = Held(s) \union {x}
               /\ Once(s) /\ x \notin Held(s) => Once(t)
<1>. DEFINE t == Append(s, x)
            n == Len(s)
<1>1. n \in Nat /\ t \in Seq(S) /\ Len(t) = n + 1 /\ t[n + 1] = x /\ \A k \in 1..n : t[k] = s[k]
  OBVIOUS
<1>. HIDE DEF t, n
<1>2. \A k \in 1..n + 1 : k \in 1..n \/ k = n + 1
  BY <1>1
<1>3. \A k \in 1..n : k \in 1..n + 1 /\ k # n + 1
  BY <1>1
<1>4. n + 1 \in 1..n + 1
  BY <1>1
<1>5. Held(t) = {t[k] : k \in 1..n + 1} /\ Held(s) = {s[k] : k \in 1..n}
  BY <1>1 DEF Held, n
<1>6. Held(t) = Held(s) \union {x}
  BY <1>1, <1>2, <1>3, <1>4, <1>5
<1>7. ASSUME Once(s), x \notin Held(s) PROVE Once(t)
  <2>. SUFFICES ASSUME NEW i \in 1..n + 1, NEW j \in 1..n + 1, i # j PROVE t[i] # t[j]
    BY <1>1 DEF Once
  <2>1. \A k, m \in 1..n : k # m => s[k] # s[m]
    BY <1>7 DEF Once, n
  <2>2. \A k \in 1..n : s[k] # x
    BY <1>5, <1>7
  <2>. QED
    BY <1>1, <1>2, <2>1, <2>2
<1>. QED
  BY <1>1, <1>6, <1>7 DEF t, n

-----------------------------------------------------------------------------
\* Where x stays on its way up, and the parents it goes to.
Stops(h, x, rank) == {i \in 1..Len(h) + 1 : i = 1 \/ rank[x] >= rank[h[Parent(i)]]}

Parents(n) == [i \in 1..n |-> Parent(i)]

\* HeapInsert() moves what is on a walk up from the new node.
InsertsAlong(h, x, rank, U) ==
    LET n == Len(h) + 1
        stop == Stops(h, x, rank)
    IN  /\ IsWalk(n, Parents(n), stop, n, U)
        /\ HeapInsert(h, x, rank) = [i \in 1..n |-> IF i \notin U THEN h[i]
                                                    ELSE IF i \in stop THEN x ELSE h[Parent(i)]]

\* And there is such a walk.
LEMMA InsertWalk ==
    ASSUME NEW S, NEW h \in Seq(S), NEW x, NEW rank
    PROVE  \E U : InsertsAlong(h, x, rank, U)
<1>. DEFINE n == Len(h) + 1
            stop == Stops(h, x, rank)
            go == Parents(n)
            Stays(i) == i = 1 \/ rank[x] >= rank[h[Parent(i)]]
            up == CHOOSE up : up = [i \in 1..Len(h) + 1 |->
                      {i} \union (IF Stays(i) THEN {} ELSE up[Parent(i)])]
<1>1. n \in Nat /\ n \in 1..n /\ 1..n = 1..Len(h) + 1
  OBVIOUS
<1>2. \A i \in 1..n : i \in stop <=> Stays(i)
  BY DEF Stops
<1>3. \A i \in 1..n : go[i] = Parent(i)
  BY DEF Parents
<1>4. \A i \in 1..n : i \notin stop => go[i] \in 1..n /\ go[i] < i
  <2>. SUFFICES ASSUME NEW i \in 1..n, i \notin stop PROVE go[i] \in 1..n /\ go[i] < i
    OBVIOUS
  <2>1. i \in Nat /\ i >= 2
    BY <1>2
  <2>2. Parent(i) \in Nat /\ Parent(i) >= 1 /\ Parent(i) < i
    BY <2>1, ParentOf
  <2>3. go[i] = Parent(i)
    BY <1>3
  <2>. HIDE DEF go
  <2>. QED
    BY <1>1, <2>1, <2>2, <2>3
<1>5. HeapInsert(h, x, rank) = [i \in 1..Len(h) + 1 |-> IF i \notin up[Len(h) + 1] THEN h[i]
                                                      ELSE IF Stays(i) THEN x ELSE h[Parent(i)]]
  BY Zenon DEF HeapInsert
<1>. HIDE DEF stop, go, up
<1>6. PICK f : Walks(n, go, stop, f)
  <2>. HIDE DEF n
  <2>. QED
    BY <1>1, <1>4, WalkExists
<1>7. f = [i \in 1..Len(h) + 1 |-> {i} \union (IF Stays(i) THEN {} ELSE f[Parent(i)])]
  <2>. HIDE DEF Stays
  <2>1. f = [i \in 1..n |-> {i} \union (IF i \in stop THEN {} ELSE f[go[i]])]
    BY <1>6 DEF Walks
  <2>. QED
    BY <1>2, <1>3, <2>1
<1>8. up = [i \in 1..Len(h) + 1 |-> {i} \union (IF Stays(i) THEN {} ELSE up[Parent(i)])]
  BY <1>7, Zenon DEF up
<1>9. Walks(n, go, stop, up)
  <2>. HIDE DEF Stays
  <2>1. [i \in 1..n |-> {i} \union (IF Stays(i) THEN {} ELSE up[Parent(i)])]
        = [i \in 1..n |-> {i} \union (IF i \in stop THEN {} ELSE up[go[i]])]
    BY <1>2, <1>3
  <2>. QED
    BY <1>8, <2>1 DEF Walks
<1>. DEFINE left == [i \in 1..n |-> i]
<1>10. left \in [1..n -> Nat] /\ \A i \in 1..n : left[i] = i
  OBVIOUS
<1>. HIDE DEF n, left
<1>11. \A i \in 1..n : i \notin stop => go[i] \in 1..n /\ left[go[i]] < left[i]
  BY <1>4, <1>10
<1>12. IsWalk(n, go, stop, n, up[n])
  BY <1>1, <1>9, <1>10, <1>11, WalkEnds
<1>13. HeapInsert(h, x, rank) = [i \in 1..n |-> IF i \notin up[n] THEN h[i]
                                              ELSE IF i \in stop THEN x ELSE h[Parent(i)]]
  <2>. HIDE DEF Stays
  <2>. QED
    BY <1>2, <1>5 DEF n
<1>. QED
  BY <1>12, <1>13 DEF InsertsAlong, n, go, stop

\* Inserting into a heap gives the heap that holds one value more.
LEMMA Inserted ==
    ASSUME NEW S, NEW rank \in [S -> Int], NEW h, IsHeap(h, S, rank), NEW x \in S, x \notin Held(h)
    PROVE  LET g == HeapInsert(h, x, rank)
           IN  IsHeap(g, S, rank) /\ Len(g) = Len(h) + 1 /\ Held(g) = Held(h) \union {x}
<1>. DEFINE g == HeapInsert(h, x, rank)
            n == Len(h) + 1
            stop == Stops(h, x, rank)
<1>1. h \in Seq(S) /\ Len(h) \in Nat /\ Once(h) /\ HeapOrder(h, rank)
  BY DEF IsHeap
<1>0. PICK U : InsertsAlong(h, x, rank, U)
  BY <1>1, InsertWalk
<1>2. /\ IsWalk(n, Parents(n), stop, n, U)
      /\ g = [i \in 1..n |-> IF i \notin U THEN h[i]
                             ELSE IF i \in stop THEN x ELSE h[Parent(i)]]
  BY <1>0 DEF InsertsAlong
<1>3. \A i \in 1..n : i \notin stop => i >= 2 /\ rank[x] < rank[h[Parent(i)]] /\ Parent(i) \in 1..Len(h)
  <2>. SUFFICES ASSUME NEW i \in 1..n, i \notin stop
                PROVE  i >= 2 /\ rank[x] < rank[h[Parent(i)]] /\ Parent(i) \in 1..Len(h)
    OBVIOUS
  <2>1. i # 1 /\ ~(rank[x] >= rank[h[Parent(i)]])
    BY DEF Stops
  <2>2. i \in Nat /\ i >= 2
    BY <2>1
  <2>. DEFINE p == Parent(i)
  <2>3. p \in Nat /\ p >= 1 /\ p < i
    BY <2>2, ParentOf
  <2>. HIDE DEF p
  <2>4. p \in 1..Len(h)
    BY <1>1, <2>3
  <2>5. rank[h[p]] \in Int
    BY <1>1, <2>4
  <2>. QED
    BY <2>1, <2>2, <2>4, <2>5 DEF p
<1>4. \A i \in 1..n : i \in stop => i = 1 \/ rank[x] >= rank[h[Parent(i)]]
  BY DEF Stops
<1>. HIDE DEF stop, g
<1>5. /\ U \subseteq 1..n /\ n \in U /\ n \in 1..n
      /\ \A k \in U : k \notin stop => Parent(k) \in U
      /\ \A j \in U : j # n => \E k \in U : k \notin stop /\ Parent(k) = j
      /\ \E k \in U : k \in stop
  BY <1>1, <1>2 DEF IsWalk, Parents
<1>6. \A i \in 1..n : i \notin U => i \in 1..Len(h) /\ g[i] = h[i]
  BY <1>1, <1>2, <1>5
<1>7. \A i \in U : g[i] = IF i \in stop THEN x ELSE h[Parent(i)]
  BY <1>2, <1>5
<1>8. g \in Seq(S) /\ Len(g) = n
  <2>1. ASSUME NEW i \in 1..n PROVE g[i] \in S
    <3>1. CASE i \notin U
      BY <1>1, <1>6, <3>1
    <3>2. CASE i \in U /\ i \in stop
      BY <1>7, <3>2
    <3>3. CASE i \in U /\ i \notin stop
      <4>1. Parent(i) \in 1..Len(h) /\ g[i] = h[Parent(i)]
        BY <1>3, <1>7, <3>3
      <4>. QED
        BY <1>1, <4>1
    <3>. QED
      BY <3>1, <3>2, <3>3
  <2>2. g \in [1..n -> S] /\ n \in Nat
    BY <1>1, <1>2, <2>1
  <2>. QED
    BY <2>2
<1>9. Held(g) = Held(h) \union {x}
  <2>1. ASSUME NEW i \in 1..n PROVE g[i] \in Held(h) \union {x}
    BY <1>3, <1>5, <1>6, <1>7 DEF Held
  <2>2. \E i \in 1..n : g[i] = x
    BY <1>5, <1>7
  <2>3. ASSUME NEW j \in 1..Len(h) PROVE \E i \in 1..n : g[i] = h[j]
    <3>1. CASE j \in U
      <4>1. j # n
        BY <1>1
      <4>2. PICK k \in U : k \notin stop /\ Parent(k) = j
        BY <1>5, <3>1, <4>1
      <4>3. g[k] = h[j] /\ k \in 1..n
        BY <1>5, <1>7, <4>2
      <4>. QED
        BY <4>3
    <3>2. CASE j \notin U
      BY <1>1, <1>6, <3>2
    <3>. QED
      BY <3>1, <3>2
  <2>4. Held(g) = {g[i] : i \in 1..n} /\ Held(h) = {h[j] : j \in 1..Len(h)}
    BY <1>8, Zenon DEF Held
  <2>5. Held(g) \subseteq Held(h) \union {x}
    BY <2>1, <2>4, Zenon
  <2>6. x \in Held(g) /\ Held(h) \subseteq Held(g)
    BY <2>2, <2>3, <2>4, Zenon
  <2>. QED
    BY <2>5, <2>6, Zenon
<1>10. Once(g)
  BY <1>1, <1>8, <1>9, OneMore
<1>11. HeapOrder(g, rank)
  <2>. SUFFICES ASSUME NEW i \in 2..n PROVE rank[g[Parent(i)]] <= rank[g[i]]
    BY <1>8 DEF HeapOrder
  <2>. DEFINE p == Parent(i)
  <2>1. p \in 1..Len(h) /\ p \in 1..n /\ p \in Nat /\ p # n /\ i \in 1..n
    BY <1>1, ParentOf
  <2>2. i \in 1..Len(h) => rank[h[p]] <= rank[h[i]]
    BY <1>1 DEF HeapOrder
  <2>3. p >= 2 => rank[h[Parent(p)]] <= rank[h[p]]
    BY <1>1, <2>1 DEF HeapOrder
  <2>4. \A k \in 1..Len(h) : rank[h[k]] \in Int
    BY <1>1
  <2>5. rank[x] \in Int
    OBVIOUS
  <2>6. p \in U => rank[x] < rank[h[p]]
    BY <1>3, <1>5, <2>1
  <2>. HIDE DEF n, p
  <2>7. p \in U => rank[g[p]] <= rank[h[p]]
    <3>1. CASE p \in U /\ p \in stop
      BY <1>7, <2>1, <2>4, <2>5, <2>6, <3>1
    <3>2. CASE p \in U /\ p \notin stop
      BY <1>3, <1>7, <2>1, <2>3, <3>2
    <3>. QED
      BY <3>1, <3>2
  <2>8. p \notin U => g[p] = h[p]
    BY <1>6, <2>1
  <2>9. rank[g[p]] \in Int /\ rank[g[p]] <= rank[h[p]]
    <3>1. g[p] \in S
      BY <1>8, <2>1
    <3>. QED
      BY <2>1, <2>4, <2>7, <2>8, <3>1
  <2>10. CASE i \notin U
    <3>1. i \in 1..Len(h) /\ g[i] = h[i]
      BY <1>6, <2>1, <2>10
    <3>. QED
      BY <2>1, <2>2, <2>4, <2>9, <3>1 DEF p
  <2>11. CASE i \in U /\ i \notin stop
    <3>1. g[i] = h[p]
      BY <1>7, <2>11 DEF p
    <3>. QED
      BY <2>9, <3>1 DEF p
  <2>12. CASE i \in U /\ i \in stop
    <3>1. g[i] = x /\ rank[x] >= rank[h[p]]
      BY <1>4, <1>7, <2>1, <2>12 DEF p
    <3>. QED
      BY <2>1, <2>4, <2>5, <2>9, <3>1 DEF p
  <2>. QED
    BY <2>10, <2>11, <2>12
<1>. QED
  BY <1>8, <1>9, <1>10, <1>11 DEF IsHeap, g

-----------------------------------------------------------------------------
\* The child that Smallest() gives ranks before x and not after the other one;
\* when it gives i, neither child ranks before x.
Least(h, i, x, rank, s) ==
    /\ s \in {i, 2 * i, 2 * i + 1} /\ s \in 1..Len(h)
    /\ \A c \in {2 * i, 2 * i + 1} :
         c <= Len(h) => rank[IF s = i THEN x ELSE h[s]] <= rank[h[c]]
    /\ s # i => rank[h[s]] < rank[x]

\* That is what Smallest() finds with its two comparisons.
LEMMA SmallestIsLeast ==
    ASSUME NEW S, NEW rank \in [S -> Int], NEW h \in Seq(S), NEW i \in 1..Len(h), NEW x \in S
    PROVE  Least(h, i, x, rank, Smallest(h, i, x, rank))
<1>. DEFINE l == 2 * i
            r == 2 * i + 1
            n == Len(h)
            a == rank[x]
            left == SmallestLeft(h, i, x, rank)
            s == Smallest(h, i, x, rank)
<1>1. n \in Nat /\ i \in Nat /\ i >= 1 /\ a \in Int /\ l \in Nat /\ r \in Nat /\ l # i /\ r # i /\ l # r
      /\ l >= 1 /\ r >= 1
  OBVIOUS
<1>2. \A k \in 1..n : rank[h[k]] \in Int
  OBVIOUS
<1>3. left = IF l <= n /\ rank[h[l]] < a THEN l ELSE i
  BY DEF SmallestLeft
<1>4. s = IF r <= n /\ rank[h[r]] < rank[IF left = i THEN x ELSE h[left]] THEN r ELSE left
  BY DEF Smallest
<1>5. (l <= n => rank[h[l]] \in Int) /\ (r <= n => rank[h[r]] \in Int)
  BY <1>1, <1>2
<1>6. i <= n
  OBVIOUS
<1>. HIDE DEF l, r, n, left, s, a
<1>7. CASE l <= n /\ rank[h[l]] < a
  <2>1. left = l /\ s = IF r <= n /\ rank[h[r]] < rank[h[l]] THEN r ELSE l
    BY <1>1, <1>3, <1>4, <1>7
  <2>2. CASE r <= n /\ rank[h[r]] < rank[h[l]]
    <3>1. s = r /\ rank[h[r]] < a
      BY <1>1, <1>5, <1>7, <2>1, <2>2
    <3>. QED
      BY <1>1, <1>5, <1>7, <2>2, <3>1 DEF Least, l, r, n, a, s
  <2>3. CASE ~(r <= n /\ rank[h[r]] < rank[h[l]])
    <3>1. s = l
      BY <2>1, <2>3
    <3>. QED
      BY <1>1, <1>5, <1>7, <2>3, <3>1 DEF Least, l, r, n, a, s
  <2>. QED
    BY <2>2, <2>3
<1>8. CASE ~(l <= n /\ rank[h[l]] < a)
  <2>1. left = i /\ s = IF r <= n /\ rank[h[r]] < a THEN r ELSE i
    BY <1>1, <1>3, <1>4, <1>8 DEF a
  <2>2. CASE r <= n /\ rank[h[r]] < a
    <3>1. s = r
      BY <2>1, <2>2
    <3>. QED
      BY <1>1, <1>5, <1>8, <2>2, <3>1 DEF Least, l, r, n, a, s
  <2>3. CASE ~(r <= n /\ rank[h[r]] < a)
    <3>1. s = i
      BY <2>1, <2>3
    <3>. QED
      BY <1>1, <1>5, <1>6, <1>8, <2>3, <3>1 DEF Least, l, r, n, a, s
  <2>. QED
    BY <2>2, <2>3
<1>. QED
  BY <1>7, <1>8

\* The nodes that the root goes to on its way down, and where it stays.
Children(h, rank) == [i \in 1..Len(h) |-> Smallest(h, i, h[1], rank)]

Bottoms(h, rank) == {i \in 1..Len(h) : Smallest(h, i, h[1], rank) = i}

\* HeapHeapify() moves what is on a walk down from the root.
SiftsAlong(h, rank, U) ==
    LET n == Len(h)
        go == Children(h, rank)
        stop == Bottoms(h, rank)
    IN  /\ IsWalk(n, go, stop, 1, U)
        /\ HeapHeapify(h, rank) = [i \in 1..n |-> IF i \notin U THEN h[i]
                                                  ELSE IF i \in stop THEN h[1] ELSE h[go[i]]]

\* And there is such a walk.
LEMMA SiftWalk ==
    ASSUME NEW S, NEW rank \in [S -> Int], NEW h \in Seq(S), h # << >>
    PROVE  \E U : SiftsAlong(h, rank, U)
<1>. DEFINE n == Len(h)
            go == Children(h, rank)
            stop == Bottoms(h, rank)
            Nxt(i) == Smallest(h, i, h[1], rank)
            down == CHOOSE down : down = [i \in 1..Len(h) |->
                        {i} \union (IF Nxt(i) = i THEN {} ELSE down[Nxt(i)])]
<1>1. n \in Nat /\ 1 \in 1..n /\ h[1] \in S
  OBVIOUS
<1>2. \A i \in 1..n : i \in stop <=> Nxt(i) = i
  BY DEF Bottoms
<1>3. \A i \in 1..n : go[i] = Nxt(i)
  BY DEF Children
<1>4. \A i \in 1..n : i \notin stop => go[i] \in 1..n /\ go[i] > i
  <2>. SUFFICES ASSUME NEW i \in 1..n, i \notin stop PROVE go[i] \in 1..n /\ go[i] > i
    OBVIOUS
  <2>. DEFINE s == Nxt(i)
  <2>1. Least(h, i, h[1], rank, s)
    BY <1>1, SmallestIsLeast
  <2>2. s # i /\ go[i] = s
    BY <1>2, <1>3
  <2>. HIDE DEF s, go
  <2>3. s \in {i, 2 * i, 2 * i + 1} /\ s \in 1..n
    BY <2>1 DEF Least
  <2>. QED
    BY <2>2, <2>3
<1>5. HeapHeapify(h, rank) = [i \in 1..Len(h) |-> IF i \notin down[1] THEN h[i]
                                                  ELSE IF Nxt(i) = i THEN h[1] ELSE h[Nxt(i)]]
  BY Zenon DEF HeapHeapify
<1>. HIDE DEF stop, go, down
<1>6. PICK f : Walks(n, go, stop, f)
  <2>. HIDE DEF n
  <2>. QED
    BY <1>1, <1>4, WalkExists
<1>7. f = [i \in 1..Len(h) |-> {i} \union (IF Nxt(i) = i THEN {} ELSE f[Nxt(i)])]
  <2>. HIDE DEF Nxt
  <2>1. f = [i \in 1..n |-> {i} \union (IF i \in stop THEN {} ELSE f[go[i]])]
    BY <1>6 DEF Walks
  <2>. QED
    BY <1>2, <1>3, <2>1
<1>8. down = [i \in 1..Len(h) |-> {i} \union (IF Nxt(i) = i THEN {} ELSE down[Nxt(i)])]
  BY <1>7, Zenon DEF down
<1>9. Walks(n, go, stop, down)
  <2>. HIDE DEF Nxt
  <2>1. [i \in 1..n |-> {i} \union (IF Nxt(i) = i THEN {} ELSE down[Nxt(i)])]
        = [i \in 1..n |-> {i} \union (IF i \in stop THEN {} ELSE down[go[i]])]
    BY <1>2, <1>3
  <2>. QED
    BY <1>8, <2>1 DEF Walks
<1>. DEFINE left == [i \in 1..n |-> n - i]
<1>10. left \in [1..n -> Nat] /\ \A i \in 1..n : left[i] = n - i
  OBVIOUS
<1>. HIDE DEF n, left
<1>11. \A i \in 1..n : i \notin stop => go[i] \in 1..n /\ left[go[i]] < left[i]
  BY <1>1, <1>4, <1>10
<1>12. IsWalk(n, go, stop, 1, down[1])
  BY <1>1, <1>9, <1>10, <1>11, WalkEnds
<1>13. HeapHeapify(h, rank) = [i \in 1..n |-> IF i \notin down[1] THEN h[i]
                                              ELSE IF i \in stop THEN h[1] ELSE h[go[i]]]
  <2>. HIDE DEF Nxt
  <2>. QED
    BY <1>2, <1>3, <1>5 DEF n
<1>. QED
  BY <1>12, <1>13 DEF SiftsAlong, n, go, stop

\* A heap but for its root.
OrderBelowRoot(h, rank) ==
    \A i \in 2..Len(h) : Parent(i) # 1 => rank[h[Parent(i)]] <= rank[h[i]]

\* Sifting the root down makes a heap of the same values.
LEMMA Sifted ==
    ASSUME NEW S, NEW rank \in [S -> Int], NEW h \in Seq(S), h # << >>, Once(h), OrderBelowRoot(h, rank)
    PROVE  LET g == HeapHeapify(h, rank)
           IN  IsHeap(g, S, rank) /\ Len(g) = Len(h) /\ Held(g) = Held(h)
<1>. DEFINE g == HeapHeapify(h, rank)
            n == Len(h)
            go == Children(h, rank)
            stop == Bottoms(h, rank)
            x == h[1]
<1>0. PICK U : SiftsAlong(h, rank, U)
  BY SiftWalk
<1>1. n \in Nat /\ 1 \in 1..n /\ x \in S
  OBVIOUS
<1>2. /\ IsWalk(n, go, stop, 1, U)
      /\ g = [i \in 1..n |-> IF i \notin U THEN h[i] ELSE IF i \in stop THEN x ELSE h[go[i]]]
  BY <1>0 DEF SiftsAlong
<1>3. \A i \in 1..n : Least(h, i, x, rank, go[i]) /\ (i \in stop <=> go[i] = i)
  <2>. SUFFICES ASSUME NEW i \in 1..n PROVE Least(h, i, x, rank, go[i]) /\ (i \in stop <=> go[i] = i)
    OBVIOUS
  <2>1. go[i] = Smallest(h, i, x, rank) /\ (i \in stop <=> Smallest(h, i, x, rank) = i)
    BY DEF Children, Bottoms
  <2>2. Least(h, i, x, rank, Smallest(h, i, x, rank))
    BY <1>1, SmallestIsLeast
  <2>. HIDE DEF go, stop, x
  <2>. QED
    BY <2>1, <2>2
<1>. HIDE DEF g, go, stop
<1>4. \A i \in 1..n : i \notin stop => go[i] \in 2..n /\ Parent(go[i]) = i
  <2>. SUFFICES ASSUME NEW i \in 1..n, i \notin stop PROVE go[i] \in 2..n /\ Parent(go[i]) = i
    OBVIOUS
  <2>. DEFINE s == go[i]
  <2>1. s \in {i, 2 * i, 2 * i + 1} /\ s \in 1..n /\ s # i
    BY <1>3 DEF Least
  <2>2. Parent(2 * i) = i /\ Parent(2 * i + 1) = i
    BY ChildrenOf
  <2>. HIDE DEF s
  <2>. QED
    BY <2>1, <2>2 DEF s
<1>5. /\ U \subseteq 1..n /\ 1 \in U
      /\ \A k \in U : k \notin stop => go[k] \in U
      /\ \A j \in U : j # 1 => \E k \in U : k \notin stop /\ go[k] = j
      /\ \E k \in U : k \in stop
  BY <1>2 DEF IsWalk
<1>6. \A i \in 1..n : i \notin U => g[i] = h[i]
  BY <1>2
<1>7. \A i \in U : g[i] = IF i \in stop THEN x ELSE h[go[i]]
  BY <1>2, <1>5
<1>8. \A k \in 1..n : h[k] \in S /\ rank[h[k]] \in Int
  OBVIOUS
<1>9. g \in Seq(S) /\ Len(g) = n
  <2>1. ASSUME NEW i \in 1..n PROVE g[i] \in S
    <3>1. CASE i \notin U
      BY <1>6, <1>8, <3>1
    <3>2. CASE i \in U /\ i \in stop
      BY <1>1, <1>7, <3>2
    <3>3. CASE i \in U /\ i \notin stop
      <4>1. go[i] \in 1..n /\ g[i] = h[go[i]]
        BY <1>1, <1>4, <1>7, <3>3
      <4>. QED
        BY <1>8, <4>1
    <3>. QED
      BY <3>1, <3>2, <3>3
  <2>. HIDE DEF x, n
  <2>2. g \in [1..n -> S]
    BY <1>2, <2>1
  <2>. QED
    BY <1>1, <2>2
<1>10. Held(g) = Held(h)
  <2>1. ASSUME NEW i \in 1..n PROVE \E j \in 1..n : g[i] = h[j]
    <3>1. CASE i \notin U
      BY <1>6, <3>1
    <3>2. CASE i \in U /\ i \in stop
      BY <1>1, <1>7, <3>2
    <3>3. CASE i \in U /\ i \notin stop
      <4>1. go[i] \in 1..n /\ g[i] = h[go[i]]
        BY <1>1, <1>4, <1>7, <3>3
      <4>. QED
        BY <4>1
    <3>. QED
      BY <3>1, <3>2, <3>3
  <2>2. ASSUME NEW j \in 1..n PROVE \E i \in 1..n : g[i] = h[j]
    <3>1. CASE j \notin U
      BY <1>6, <3>1
    <3>2. CASE j = 1
      BY <1>5, <1>7, <3>2
    <3>3. CASE j \in U /\ j # 1
      <4>1. PICK k \in U : k \notin stop /\ go[k] = j
        BY <1>5, <3>3
      <4>2. g[k] = h[j] /\ k \in 1..n
        BY <1>5, <1>7, <4>1
      <4>. QED
        BY <4>2
    <3>. QED
      BY <3>1, <3>2, <3>3
  <2>3. Held(g) = {g[k] : k \in 1..n} /\ Held(h) = {h[k] : k \in 1..n}
    BY <1>9 DEF Held
  <2>. HIDE DEF n
  <2>. QED
    BY <2>1, <2>2, <2>3
<1>11. Once(g)
  <2>1. Cardinality(Held(h)) = Len(h)
    BY HeldOnce
  <2>2. Cardinality(Held(g)) = Len(g)
    BY <1>9, <1>10, <2>1
  <2>. QED
    BY <1>9, <2>2, HeldOnce
<1>12. HeapOrder(g, rank)
  <2>. SUFFICES ASSUME NEW i \in 2..n PROVE rank[g[Parent(i)]] <= rank[g[i]]
    BY <1>9 DEF HeapOrder
  <2>. DEFINE p == Parent(i)
  <2>0. i \in Nat /\ i >= 2 /\ i \in 1..n /\ i # 1
    OBVIOUS
  <2>1. p \in 1..n /\ p \in Nat /\ i \in {2 * p, 2 * p + 1} /\ p # i
    BY <1>1, <2>0, ParentOf
  <2>2. p # 1 => rank[h[p]] <= rank[h[i]]
    BY DEF OrderBelowRoot
  <2>3. Least(h, p, x, rank, go[p]) /\ Least(h, i, x, rank, go[i])
    BY <1>3, <2>0, <2>1
  <2>4. rank[x] \in Int /\ rank[h[i]] \in Int /\ rank[h[p]] \in Int
    BY <1>1, <1>8, <2>0, <2>1
  <2>. HIDE DEF p, n, x
  <2>5. i <= n
    BY <2>0, <1>1
  <2>6. rank[IF go[p] = p THEN x ELSE h[go[p]]] <= rank[h[i]]
    BY <2>1, <2>3, <2>5 DEF Least, n
  <2>7. p \in U => g[p] = IF go[p] = p THEN x ELSE h[go[p]]
    BY <1>3, <1>7, <2>1
  <2>8. CASE i \notin U /\ p \notin U
    <3>1. p # 1 /\ g[i] = h[i] /\ g[p] = h[p]
      BY <1>5, <1>6, <2>0, <2>1, <2>8
    <3>. QED
      BY <2>2, <3>1 DEF p
  <2>9. CASE i \notin U /\ p \in U
    <3>1. g[i] = h[i]
      BY <1>6, <2>0, <2>9
    <3>. QED
      BY <2>6, <2>7, <2>9, <3>1 DEF p
  <2>10. CASE i \in U
    <3>1. PICK k \in U : k \notin stop /\ go[k] = i
      BY <1>5, <2>0, <2>10
    <3>2. k = p /\ k \in 1..n
      BY <1>4, <1>5, <3>1 DEF p
    <3>3. g[p] = h[i]
      BY <1>7, <3>1, <3>2
    <3>4. CASE i \in stop
      <4>1. g[i] = x /\ rank[h[i]] < rank[x]
        <5>1. rank[h[go[p]]] < rank[x]
          BY <1>3, <2>1, <2>3, <3>1, <3>2 DEF Least
        <5>. QED
          BY <1>7, <2>10, <3>1, <3>2, <3>4, <5>1
      <4>. QED
        BY <2>4, <3>3, <4>1 DEF p
    <3>5. CASE i \notin stop
      <4>. DEFINE c == go[i]
      <4>1. c \in 2..n /\ Parent(c) = i
        BY <1>4, <2>0, <3>5
      <4>2. g[i] = h[c]
        BY <1>7, <2>10, <3>5
      <4>. HIDE DEF c
      <4>3. rank[h[i]] <= rank[h[c]]
        BY <2>0, <4>1 DEF OrderBelowRoot, n
      <4>. QED
        BY <3>3, <4>2, <4>3 DEF p
    <3>. QED
      BY <3>4, <3>5
  <2>. QED
    BY <2>8, <2>9, <2>10
<1>. QED
  BY <1>9, <1>10, <1>11, <1>12 DEF IsHeap, g

\* Deleting from a heap takes its root away.
LEMMA Deleted ==
    ASSUME NEW S, NEW rank \in [S -> Int], NEW h, IsHeap(h, S, rank), h # << >>
    PROVE  LET g == HeapDelete(h, rank)
           IN  IsHeap(g, S, rank) /\ Len(g) = Len(h) - 1 /\ Held(g) = Held(h) \ {h[1]}
<1>. DEFINE n == Len(h)
            t == [i \in 1..n - 1 |-> IF i = 1 THEN h[n] ELSE h[i]]
<1>1. h \in Seq(S) /\ n \in Nat /\ n >= 1 /\ Once(h) /\ HeapOrder(h, rank)
  BY DEF IsHeap
<1>2. CASE n <= 1
  <2>0. n = 1 /\ Len(h) <= 1
    <3>1. n \in Nat /\ n >= 1
      BY <1>1
    <3>2. n <= 1 /\ n = Len(h)
      BY <1>2
    <3>. HIDE DEF n
    <3>. QED
      BY <3>1, <3>2
  <2>1. HeapDelete(h, rank) = << >>
    BY <2>0, Zenon DEF HeapDelete
  <2>2. Held(h) = {h[1]} /\ Held(<< >>) = {}
    BY <2>0 DEF Held
  <2>3. IsHeap(<< >>, S, rank)
    BY DEF IsHeap, Once, HeapOrder
  <2>. QED
    BY <2>0, <2>1, <2>2, <2>3
<1>3. CASE ~(n <= 1)
  <2>1. HeapDelete(h, rank) = HeapHeapify(t, rank)
    BY <1>1, <1>3 DEF HeapDelete
  <2>. HIDE DEF n
  <2>2. n - 1 \in Nat /\ n - 1 >= 1 /\ n \in 1..n /\ 1 \in 1..n - 1 /\ \A i \in 1..n - 1 : i \in 1..n
    BY <1>1, <1>3
  <2>3. \A i \in 1..n : h[i] \in S
    BY <1>1 DEF n
  <2>4. t \in [1..n - 1 -> S]
    BY <2>2, <2>3
  <2>5. t \in Seq(S) /\ Len(t) = n - 1
    BY <2>2, <2>4
  <2>6. t[1] = h[n] /\ \A i \in 2..n - 1 : t[i] = h[i]
    BY <2>2
  <2>. HIDE DEF t
  <2>7. \A i \in 1..n - 1 : i = 1 \/ i \in 2..n - 1
    BY <1>1
  <2>8. \A i \in 2..n - 1 : i \in 1..n /\ i # n /\ i # 1
    BY <1>1
  <2>9. n # 1 /\ 1 \in 1..n
    BY <1>3, <2>2
  <2>10. Once(t)
    <3>. SUFFICES ASSUME NEW i \in 1..n - 1, NEW j \in 1..n - 1, i # j PROVE t[i] # t[j]
      BY <2>5 DEF Once
    <3>1. \A k, m \in 1..n : k # m => h[k] # h[m]
      BY <1>1 DEF Once, n
    <3>. QED
      BY <2>2, <2>6, <2>7, <2>8, <3>1
  <2>11. OrderBelowRoot(t, rank)
    <3>. SUFFICES ASSUME NEW i \in 2..n - 1, Parent(i) # 1 PROVE rank[t[Parent(i)]] <= rank[t[i]]
      BY <2>5 DEF OrderBelowRoot
    <3>. DEFINE p == Parent(i)
    <3>0. i \in Nat /\ i >= 2 /\ i <= n - 1
      BY <1>1
    <3>3. p \in Nat /\ p >= 1 /\ p < i /\ p # 1
      BY <3>0, ParentOf
    <3>. HIDE DEF p
    <3>4. p \in 2..n - 1 /\ i \in 2..n
      BY <1>1, <3>0, <3>3
    <3>1. Parent(i) \in 2..n - 1 /\ i \in 2..n
      BY <3>4 DEF p
    <3>2. rank[h[Parent(i)]] <= rank[h[i]]
      BY <1>1, <3>1 DEF HeapOrder, n
    <3>. QED
      BY <2>6, <3>1, <3>2
  <2>12. Held(t) = Held(h) \ {h[1]}
    <3>1. Held(t) = {t[k] : k \in 1..n - 1} /\ Held(h) = {h[k] : k \in 1..n}
      BY <2>5 DEF Held, n
    <3>2. \A k \in 1..n : k # 1 => h[k] # h[1]
      BY <1>1, <2>9 DEF Once, n
    <3>3. ASSUME NEW k \in 1..n - 1 PROVE t[k] \in Held(h) \ {h[1]}
      <4>1. CASE k = 1
        BY <2>2, <2>6, <2>9, <3>1, <3>2, <4>1
      <4>2. CASE k \in 2..n - 1
        BY <2>6, <2>8, <3>1, <3>2, <4>2
      <4>. QED
        BY <2>7, <4>1, <4>2
    <3>4. ASSUME NEW k \in 1..n, k # 1 PROVE h[k] \in Held(t)
      <4>1. CASE k = n
        BY <2>2, <2>6, <3>1, <4>1
      <4>2. CASE k # n
        <5>1. k \in 2..n - 1 /\ k \in 1..n - 1
          BY <1>1, <3>4, <4>2
        <5>. QED
          BY <2>6, <3>1, <5>1
      <4>. QED
        BY <4>1, <4>2
    <3>. QED
      BY <3>1, <3>3, <3>4
  <2>13. t # << >>
    BY <2>2, <2>5
  <2>14. IsHeap(HeapHeapify(t, rank), S, rank) /\ Len(HeapHeapify(t, rank)) = Len(t)
         /\ Held(HeapHeapify(t, rank)) = Held(t)
    BY <2>5, <2>10, <2>11, <2>13, Sifted
  <2>. QED
    BY <2>1, <2>5, <2>12, <2>14 DEF n
<1>. QED
  BY <1>2, <1>3

-----------------------------------------------------------------------------
\* The two sizes of a row: even an empty row has a header and a zero byte.
LEMMA RowSizeType ==
    ASSUME NEW r \in Row
    PROVE  /\ r.max \in Nat /\ r.data \in Nat
           /\ HeaderSize(r) \in Nat /\ HeaderSize(r) = 2 + 2 * (r.max + 1)
           /\ HeaderSize(r) >= 4
           /\ RowSize(r) \in Nat /\ RowSize(r) = HeaderSize(r) + r.data
           /\ r.data >= 1
BY FormatAssumption, SMT DEF HeaderSize, RowSize

\* A row has at least the five bytes of max, one size and one trailing zero.
LEMMA RowSizePositive ==
    ASSUME NEW rows \in Seq(Row), NEW i \in 1..Len(rows)
    PROVE  rows[i] \in Row /\ RowSize(rows[i]) \in Nat \ {0} /\ RowSize(rows[i]) >= 5
<1>1. rows[i] \in Row
  OBVIOUS
<1>2. /\ HeaderSize(rows[i]) \in Nat /\ HeaderSize(rows[i]) >= 4 /\ rows[i].data \in Nat
      /\ rows[i].data >= 1 /\ RowSize(rows[i]) = HeaderSize(rows[i]) + rows[i].data
  BY <1>1, RowSizeType, Zenon
<1>. QED
  BY <1>1, <1>2, SMT

\* The bytes of a row are a sequence of cells as long as the row.
LEMMA RowBytesType ==
    ASSUME NEW i \in Nat, NEW r \in Row
    PROVE  /\ RowBytes(i, r) \in Seq(Cell)
           /\ Len(RowBytes(i, r)) = RowSize(r)
           /\ \A k \in 1..RowSize(r) : RowBytes(i, r)[k] = [row |-> i, byte |-> k]
<1>1. RowSize(r) \in Nat
  BY RowSizeType
<1>2. \A k \in 1..RowSize(r) : [row |-> i, byte |-> k] \in Cell
  BY <1>1 DEF Cell
<1>. QED
  BY <1>1, <1>2, SMT DEF RowBytes

\* A block starts with the first byte of its first row and ends with the
\* last byte of its last row.
LEMMA BlockEnds ==
    ASSUME NEW rows \in Seq(Row), NEW s \in Seq(Cell), Block(rows, s)
    PROVE  /\ Len(s) \in Nat \ {0}
           /\ FirstRow(s) \in 1..Len(rows) /\ LastRow(s) \in 1..Len(rows)
           /\ s[1] = [row |-> FirstRow(s), byte |-> 1]
           /\ s[Len(s)] = [row |-> LastRow(s), byte |-> RowSize(rows[LastRow(s)])]
<1>1. Len(s) \in Nat \ {0}
  BY DEF Block
<1>2. s[1] \in Cell /\ s[Len(s)] \in Cell
  BY <1>1
<1>3. /\ s[1].row \in 1..Len(rows) /\ s[1].byte \in Nat
      /\ s[1].byte >= 1 /\ 1 - s[1].byte >= 0
  <2>. 1 \in 1..Len(s)
    BY <1>1
  <2>. QED
    BY <1>1, <1>2 DEF Block, WholeRows, Cell
<1>4. /\ s[Len(s)].row \in 1..Len(rows)
      /\ s[Len(s)].byte \in 1..RowSize(rows[s[Len(s)].row])
      /\ Len(s) - s[Len(s)].byte + RowSize(rows[s[Len(s)].row]) <= Len(s)
  <2>. Len(s) \in 1..Len(s)
    BY <1>1
  <2>. QED
    BY <1>1, <1>2 DEF Block, WholeRows, Cell
<1>5. RowSize(rows[s[Len(s)].row]) \in Nat
  BY <1>4, RowSizeType, SMTT(40)
<1>6. s[1].byte = 1 /\ s[Len(s)].byte = RowSize(rows[s[Len(s)].row])
  BY <1>1, <1>3, <1>4, <1>5
<1>. QED
  BY <1>1, <1>2, <1>3, <1>4, <1>6 DEF FirstRow, LastRow, Cell

\* All of row i is in s, after its first p cells.
RowAt(rows, s, p, i) ==
    /\ i \in 1..Len(rows) /\ p + RowSize(rows[i]) <= Len(s)
    /\ \A k \in 1..RowSize(rows[i]) : s[p + k] = [row |-> i, byte |-> k]

\* A row that starts at a cell of a block is in the block to its last byte.
LEMMA RowInBlock ==
    ASSUME NEW rows \in Seq(Row), NEW s \in Seq(Cell), Block(rows, s),
           NEW p \in 0..Len(s) - 1, NEW i \in Nat,
           s[p + 1] = [row |-> i, byte |-> 1]
    PROVE  RowAt(rows, s, p, i)
<1>. DEFINE q == p + 1
<1>1. q \in 1..Len(s) /\ s[q].row = i /\ s[q].byte = 1 /\ q - 1 = p
  OBVIOUS
<1>. HIDE DEF q
<1>2. /\ s[q].row \in 1..Len(rows)
      /\ (q - s[q].byte) + RowSize(rows[s[q].row]) <= Len(s)
      /\ \A k \in 1..RowSize(rows[s[q].row]) :
            s[(q - s[q].byte) + k] = [row |-> s[q].row, byte |-> k]
  BY <1>1, Zenon DEF Block, WholeRows
<1>. QED
  BY <1>1, <1>2 DEF RowAt

\* After o cells, the last of which is the last of row i, s ends or has row i + 1.
RowEndsAt(s, o, i) ==
    /\ o \in 0..Len(s)
    /\ IF o = Len(s) THEN LastRow(s) = i ELSE s[o + 1] = [row |-> i + 1, byte |-> 1]

\* After a row of a block comes the next row, or the block ends with it.
LEMMA AfterRowInBlock ==
    ASSUME NEW rows \in Seq(Row), NEW s \in Seq(Cell), Block(rows, s),
           NEW p \in Nat, NEW i \in Nat, RowAt(rows, s, p, i)
    PROVE  RowEndsAt(s, p + RowSize(rows[i]), i)
<1>. DEFINE size == RowSize(rows[i])
            o == p + size
<1>1. /\ i \in 1..Len(rows) /\ o <= Len(s)
      /\ \A k \in 1..size : s[p + k] = [row |-> i, byte |-> k]
  BY DEF RowAt
<1>2. size \in Nat \ {0}
  BY <1>1, RowSizePositive
<1>3. s[o] = [row |-> i, byte |-> size]
  BY <1>1, <1>2
<1>4. o \in Nat /\ Len(s) \in Nat /\ o >= 1
  <2>. HIDE DEF size
  <2>. QED
    BY <1>2
<1>. HIDE DEF o
<1>5. CASE o = Len(s)
  BY <1>1, <1>3, <1>4, <1>5 DEF LastRow, RowEndsAt, o
<1>6. CASE o # Len(s)
  <2>1. o \in 1..Len(s) - 1
    BY <1>1, <1>4, <1>6
  <2>2. s[o].byte = RowSize(rows[s[o].row])
    BY <1>3
  <2>3. s[o + 1] = [row |-> s[o].row + 1, byte |-> 1]
    BY <2>1, <2>2 DEF Block, Consecutive
  <2>. QED
    BY <1>1, <1>3, <1>4, <1>6, <2>3 DEF RowEndsAt, o
<1>. QED
  BY <1>5, <1>6

\* The bytes of a row are a block.
LEMMA RowIsBlock ==
    ASSUME NEW rows \in Seq(Row), NEW i \in 1..Len(rows)
    PROVE  LET s == RowBytes(i, rows[i])
           IN  s \in Seq(Cell) /\ Block(rows, s) /\ FirstRow(s) = i /\ LastRow(s) = i
<1>. DEFINE s == RowBytes(i, rows[i])
            size == RowSize(rows[i])
<1>1. rows[i] \in Row /\ size \in Nat \ {0}
  BY RowSizePositive
<1>2. s \in Seq(Cell) /\ Len(s) = size /\ \A k \in 1..size : s[k] = [row |-> i, byte |-> k]
  BY <1>1, RowBytesType
<1>. HIDE DEF s
<1>3. WholeRows(rows, s)
  BY <1>1, <1>2, SMTT(40) DEF WholeRows
<1>4. Consecutive(rows, s)
  BY <1>1, <1>2 DEF Consecutive
<1>5. s # << >> /\ FirstRow(s) = i /\ LastRow(s) = i
  BY <1>1, <1>2 DEF FirstRow, LastRow
<1>. QED
  BY <1>1, <1>2, <1>3, <1>4, <1>5 DEF Block, s

\* Joining two blocks, the second of which continues the rows of the first.
LEMMA JoinBlocks ==
    ASSUME NEW rows \in Seq(Row), NEW s \in Seq(Cell), NEW u \in Seq(Cell),
           Block(rows, s), Block(rows, u), FirstRow(u) = LastRow(s) + 1
    PROVE  LET t == s \o u
           IN  /\ t \in Seq(Cell) /\ Len(t) = Len(s) + Len(u) /\ Block(rows, t)
               /\ FirstRow(t) = FirstRow(s) /\ LastRow(t) = LastRow(u)
<1>. DEFINE t == s \o u
            n == Len(s)
            m == Len(u)
<1>1. /\ n \in Nat \ {0} /\ LastRow(s) \in 1..Len(rows)
      /\ s[n] = [row |-> LastRow(s), byte |-> RowSize(rows[LastRow(s)])]
  BY BlockEnds
<1>2. m \in Nat \ {0} /\ u[1] = [row |-> LastRow(s) + 1, byte |-> 1]
  BY BlockEnds
<1>3. /\ t \in Seq(Cell) /\ Len(t) = n + m
      /\ \A p \in 1..n : t[p] = s[p]
      /\ \A k \in 1..m : t[n + k] = u[k]
  <2>1. t \in Seq(Cell) /\ Len(t) = n + m
    BY ConcatProperties, Zenon
  <2>2. \A p \in 1..n : t[p] = s[p]
    BY <1>1, <1>2
  <2>3. ASSUME NEW k \in 1..m PROVE t[n + k] = u[k]
    <3>1. n + k \in 1..n + m /\ ~(n + k <= n) /\ (n + k) - n = k
      BY <1>1, <1>2
    <3>. QED
      BY <1>1, <1>2, <3>1
  <2>. QED
    BY <2>1, <2>2, <2>3
<1>. HIDE DEF t
<1>4. \A p \in 1..Len(t) : p \in 1..n \/ \E k \in 1..m : p = n + k
  <2>. SUFFICES ASSUME NEW p \in 1..n + m, ~(p \in 1..n) PROVE \E k \in 1..m : p = n + k
    BY <1>3
  <2>. HIDE DEF n, m
  <2>1. p - n \in 1..m /\ p = n + (p - n)
    BY <1>1, <1>2
  <2>. QED
    BY <2>1
<1>5. WholeRows(rows, t)
  <2>. SUFFICES ASSUME NEW p \in 1..Len(t)
                PROVE  LET j == t[p].row
                           start == p - t[p].byte
                       IN  /\ j \in 1..Len(rows)
                           /\ t[p].byte \in 1..RowSize(rows[j])
                           /\ start >= 0 /\ start + RowSize(rows[j]) <= Len(t)
                           /\ \A k \in 1..RowSize(rows[j]) :
                                 t[start + k] = [row |-> j, byte |-> k]
    BY DEF WholeRows
  <2>1. CASE p \in 1..n
    <3>. DEFINE j == s[p].row
                start == p - s[p].byte
                z == RowSize(rows[j])
    <3>1. t[p] = s[p]
      BY <1>3, <2>1
    <3>2. /\ j \in 1..Len(rows) /\ s[p].byte \in 1..z /\ start >= 0 /\ start + z <= n
          /\ \A k \in 1..z : s[start + k] = [row |-> j, byte |-> k]
      BY <2>1, Zenon DEF Block, WholeRows
    <3>3. z \in Nat /\ start \in Nat
      <4>1. z \in Nat
        BY <3>2, RowSizePositive
      <4>. QED
        BY <1>1, <2>1, <3>2, <4>1
    <3>. HIDE DEF j, start, z, n, m
    <3>4. \A k \in 1..z : start + k \in 1..n
      BY <1>1, <3>2, <3>3, SMTT(40)
    <3>5. \A k \in 1..z : t[start + k] = [row |-> j, byte |-> k]
      BY <1>3, <3>2, <3>4
    <3>6. start + z <= Len(t)
      BY <1>1, <1>2, <1>3, <3>2, <3>3, SMTT(30)
    <3>. QED
      BY <3>1, <3>2, <3>5, <3>6, Zenon DEF j, start, z
  <2>2. ASSUME NEW q \in 1..m, p = n + q
        PROVE  LET j == t[p].row
                   start == p - t[p].byte
               IN  /\ j \in 1..Len(rows)
                   /\ t[p].byte \in 1..RowSize(rows[j])
                   /\ start >= 0 /\ start + RowSize(rows[j]) <= Len(t)
                   /\ \A k \in 1..RowSize(rows[j]) : t[start + k] = [row |-> j, byte |-> k]
    <3>. DEFINE j == u[q].row
                y == u[q].byte
                from == q - y
                start == p - y
                z == RowSize(rows[j])
    <3>1. t[p] = u[q]
      BY <1>3, <2>2
    <3>2. /\ j \in 1..Len(rows) /\ y \in 1..z /\ from >= 0 /\ from + z <= m
          /\ \A k \in 1..z : u[from + k] = [row |-> j, byte |-> k]
      BY Zenon DEF Block, WholeRows
    <3>3. z \in Nat
      BY <3>2, RowSizePositive
    <3>. HIDE DEF j, z, n, m, y
    <3>4. from \in Nat /\ start = n + from
      <4>1. n \in Nat /\ q \in Nat /\ p = n + q
        BY <1>1, <1>2, <2>2 DEF m
      <4>2. y \in Nat /\ q - y >= 0
        BY <3>2, <3>3
      <4>. QED
        BY <4>1, <4>2
    <3>. HIDE DEF from, start
    <3>5. \A k \in 1..z : from + k \in 1..m /\ start + k = n + (from + k)
      BY <1>1, <1>2, <3>2, <3>3, <3>4, SMTT(40)
    <3>6. \A k \in 1..z : t[start + k] = [row |-> j, byte |-> k]
      BY <1>3, <3>2, <3>5
    <3>7. start >= 0 /\ start + z <= Len(t)
      BY <1>1, <1>2, <1>3, <3>2, <3>3, <3>4
    <3>. QED
      BY <3>1, <3>2, <3>6, <3>7, Zenon DEF j, start, z, y
  <2>. QED
    BY <1>4, <2>1, <2>2
<1>6. Consecutive(rows, t)
  <2>. SUFFICES ASSUME NEW p \in 1..Len(t) - 1, t[p].byte = RowSize(rows[t[p].row])
                PROVE  t[p + 1] = [row |-> t[p].row + 1, byte |-> 1]
    BY DEF Consecutive
  <2>1. CASE p \in 1..n /\ p # n
    <3>1. p \in 1..n - 1 /\ p + 1 \in 1..n
      BY <1>1, <2>1
    <3>2. t[p] = s[p] /\ t[p + 1] = s[p + 1]
      BY <1>3, <2>1, <3>1
    <3>. QED
      BY <3>1, <3>2 DEF Block, Consecutive
  <2>2. CASE p = n
    <3>1. t[n] = s[n] /\ t[n + 1] = u[1]
      <4>1. n \in 1..n /\ 1 \in 1..m
        BY <1>1, <1>2
      <4>. HIDE DEF n, m
      <4>. QED
        BY <1>3, <4>1
    <3>. QED
      BY <1>1, <1>2, <2>2, <3>1
  <2>3. ASSUME NEW q \in 1..m, p = n + q PROVE t[p + 1] = [row |-> t[p].row + 1, byte |-> 1]
    <3>. HIDE DEF n, m
    <3>1. q \in 1..m - 1 /\ q + 1 \in 1..m /\ p + 1 = n + (q + 1)
      <4>1. n \in Nat /\ m \in Nat /\ q \in Nat /\ q >= 1 /\ p = n + q /\ Len(t) = n + m
        BY <1>1, <1>2, <1>3, <2>3
      <4>2. p <= Len(t) - 1
        BY <4>1
      <4>. QED
        BY <4>1, <4>2
    <3>2. t[p] = u[q] /\ t[p + 1] = u[q + 1]
      BY <1>3, <2>3, <3>1, Zenon
    <3>. QED
      BY <3>1, <3>2 DEF Block, Consecutive, m
  <2>4. p \in 1..Len(t)
    BY <1>1, <1>2, <1>3
  <2>. QED
    BY <1>4, <2>1, <2>2, <2>3, <2>4
<1>7. t # << >> /\ FirstRow(t) = FirstRow(s) /\ LastRow(t) = LastRow(u)
  <2>1. 1 \in 1..n /\ m \in 1..m /\ Len(t) = n + m /\ n + m # 0
    BY <1>1, <1>2, <1>3
  <2>2. t[1] = s[1] /\ t[Len(t)] = u[m]
    BY <1>3, <2>1
  <2>. QED
    BY <1>3, <2>1, <2>2 DEF FirstRow, LastRow
<1>. QED
  BY <1>3, <1>5, <1>6, <1>7 DEF Block, t

\* What never falls from one index to the next rises from any to any later one.
LEMMA RisesThroughout ==
    ASSUME NEW f, NEW a \in Nat, NEW b \in Nat,
           \A k \in a..b : f[k] \in Int,
           \A k \in a..b : k + 1 \in a..b => f[k] <= f[k + 1]
    PROVE  \A i, j \in a..b : i <= j => f[i] <= f[j]
<1>. SUFFICES ASSUME NEW i \in a..b, \E j \in a..b : i <= j /\ ~(f[i] <= f[j]) PROVE FALSE
  OBVIOUS
<1>. DEFINE T == {j \in a..b : i <= j /\ ~(f[i] <= f[j])}
<1>1. T \subseteq Nat /\ T # {}
  OBVIOUS
<1>2. PICK m \in T : \A k \in T : m <= k
  BY <1>1, LeastElement
<1>3. m # i /\ m - 1 \in a..b /\ i <= m - 1
  BY <1>2
<1>4. f[i] <= f[m - 1]
  <2>1. m - 1 \notin T
    BY <1>2, <1>3
  <2>. QED
    BY <1>3, <2>1
<1>5. f[m - 1] <= f[m]
  <2>. DEFINE k == m - 1
  <2>1. k \in a..b /\ k + 1 = m /\ m \in a..b
    BY <1>3
  <2>. HIDE DEF k
  <2>2. f[k] <= f[k + 1]
    BY <2>1
  <2>. QED
    BY <2>1, <2>2 DEF k
<1>. QED
  BY <1>2, <1>3, <1>4, <1>5

\* Row numbers rise through a block.
LEMMA RowsRise ==
    ASSUME NEW rows \in Seq(Row), NEW s \in Seq(Cell), Block(rows, s)
    PROVE  \A p, q \in 1..Len(s) : p <= q => s[p].row <= s[q].row
<1>. DEFINE f == [p \in 1..Len(s) |-> s[p].row]
<1>0. Len(s) \in Nat /\ \A p \in 1..Len(s) : s[p].row \in Nat /\ s[p].byte \in Nat
  <2>1. \A p \in 1..Len(s) : s[p] \in Cell
    OBVIOUS
  <2>2. \A c \in Cell : c.row \in Nat /\ c.byte \in Nat
    BY DEF Cell
  <2>. QED
    BY <2>1, <2>2
<1>1. \A p \in 1..Len(s) : f[p] \in Int
  BY <1>0
<1>2. ASSUME NEW p \in 1..Len(s), p + 1 \in 1..Len(s) PROVE s[p].row <= s[p + 1].row
  <2>. DEFINE i == s[p].row
              start == p - s[p].byte
              k == s[p].byte + 1
  <2>1. /\ i \in 1..Len(rows) /\ s[p].byte \in 1..RowSize(rows[i])
        /\ \A n \in 1..RowSize(rows[i]) : s[start + n] = [row |-> i, byte |-> n]
    BY DEF Block, WholeRows
  <2>2. RowSize(rows[i]) \in Nat
    BY <2>1, RowSizePositive
  <2>3. CASE s[p].byte = RowSize(rows[i])
    <3>1. p \in 1..Len(s) - 1
      BY <1>0, <1>2
    <3>2. s[p + 1] = [row |-> s[p].row + 1, byte |-> 1]
      BY <2>3, <3>1 DEF Block, Consecutive
    <3>. QED
      BY <1>0, <3>2
  <2>4. CASE s[p].byte # RowSize(rows[i])
    <3>1. k \in 1..RowSize(rows[i]) /\ start + k = p + 1
      BY <1>0, <2>1, <2>2, <2>4
    <3>2. s[start + k] = [row |-> i, byte |-> k]
      BY <2>1, <3>1
    <3>. QED
      BY <2>1, <3>1, <3>2
  <2>. QED
    BY <2>3, <2>4
<1>3. \A p \in 1..Len(s) : p + 1 \in 1..Len(s) => f[p] <= f[p + 1]
  BY <1>2
<1>. HIDE DEF f
<1>4. \A p, q \in 1..Len(s) : p <= q => f[p] <= f[q]
  BY <1>0, <1>1, <1>3, RisesThroughout
<1>. QED
  BY <1>4 DEF f

-----------------------------------------------------------------------------
\* A file starts with all but its last chunk, and continues in its order.
Extends(file, f) ==
    Len(file) <= Len(f) /\ \A c \in 1..Len(file) : f[c] = file[c]

\* Appending to the file a chunk that continues it; it stays packed if the
\* chunk before had no room for the first row of the new one.
LEMMA AppendChunk ==
    ASSUME NEW rows, NEW file \in Seq(Seq(Cell)), NEW b \in Seq(Cell), NEW lo \in Nat,
           FileRun(rows, file, lo), Chunk(rows, b), FirstRow(b) = FileEnd(file, lo) + 1
    PROVE  LET f == Append(file, b)
           IN  /\ f \in Seq(Seq(Cell)) /\ f # << >> /\ f[Len(f)] = b
               /\ Extends(file, f)
               /\ FileRun(rows, f, lo) /\ FileEnd(f, lo) = LastRow(b)
               /\ Packed(rows, file) /\ NoRoomFor(rows, file, FirstRow(b)) => Packed(rows, f)
<1>. DEFINE f == Append(file, b)
            n == Len(file)
<1>1. /\ f \in Seq(Seq(Cell)) /\ f # << >> /\ Len(f) = n + 1 /\ n \in Nat
      /\ f[n + 1] = b /\ \A c \in 1..n : f[c] = file[c]
  BY AppendProperties
<1>. HIDE DEF f
<1>2. /\ \A c \in 1..n : Chunk(rows, file[c])
      /\ file # << >> => FirstRow(file[1]) = lo
      /\ \A c \in 1..n - 1 : FirstRow(file[c + 1]) = LastRow(file[c]) + 1
  BY DEF FileRun
<1>3. ASSUME NEW c \in 1..Len(f) PROVE Chunk(rows, f[c])
  <2>1. c \in 1..n \/ c = n + 1
    BY <1>1
  <2>. QED
    BY <1>1, <1>2, <2>1
<1>4. FirstRow(f[1]) = lo
  <2>1. CASE file = << >>
    BY <1>1, <2>1 DEF FileEnd
  <2>2. CASE file # << >>
    <3>1. 1 \in 1..n
      BY <1>1, <2>2
    <3>. QED
      BY <1>1, <1>2, <2>2, <3>1
  <2>. QED
    BY <2>1, <2>2
<1>5. \A c \in 1..Len(f) - 1 : c \in 1..n /\ (c \in 1..n - 1 \/ c = n) /\ file # << >>
  BY <1>1
<1>6. \A c \in 1..n - 1 : f[c] = file[c] /\ f[c + 1] = file[c + 1]
  <2>1. \A c \in 1..n - 1 : c \in 1..n /\ c + 1 \in 1..n
    BY <1>1
  <2>. QED
    BY <1>1, <2>1
<1>7. n \in 1..n => f[n] = file[n] /\ f[n + 1] = b
  BY <1>1
<1>8. ASSUME NEW c \in 1..Len(f) - 1 PROVE FirstRow(f[c + 1]) = LastRow(f[c]) + 1
  BY <1>2, <1>5, <1>6, <1>7 DEF FileEnd
<1>9. ASSUME Packed(rows, file), NoRoomFor(rows, file, FirstRow(b)), NEW c \in 1..Len(f) - 1
      PROVE  Len(f[c]) + RowSize(rows[FirstRow(f[c + 1])]) > BUFFER_SIZE
  BY <1>5, <1>6, <1>7, <1>9 DEF Packed, NoRoomFor
<1>10. FileRun(rows, f, lo)
  BY <1>3, <1>4, <1>8 DEF FileRun
<1>11. Packed(rows, file) /\ NoRoomFor(rows, file, FirstRow(b)) => Packed(rows, f)
  BY <1>9 DEF Packed
<1>12. f[Len(f)] = b /\ Extends(file, f) /\ FileEnd(f, lo) = LastRow(b)
  BY <1>1 DEF Extends, FileEnd
<1>. QED
  BY <1>1, <1>10, <1>11, <1>12 DEF f

\* A flush moves the buffered rows to the file, and loses none.
LEMMA FlushState ==
    ASSUME NEW rows, NEW w \in WriteBuf, NEW lo \in Nat, NEW n \in Nat,
           WriterRun(rows, w, lo, n)
    PROVE  LET v == WriteFlush(w)
           IN  /\ v \in WriteBuf /\ v.buffer = << >> /\ Extends(w.file, v.file)
               /\ w.buffer # << >> => v.file # << >> /\ v.file[Len(v.file)] = w.buffer
               /\ WriterRun(rows, v, lo, n)
               /\ PacksSoFar(rows, w) => PacksSoFar(rows, v)
<1>1. w.buffer \in Seq(Cell) /\ w.file \in Seq(Seq(Cell)) /\ Len(w.file) \in Nat
  BY DEF WriteBuf
<1>2. CASE w.buffer = << >>
  BY <1>1, <1>2 DEF WriteFlush, Extends
<1>3. CASE w.buffer # << >>
  <2>. DEFINE f == Append(w.file, w.buffer)
              v == [buffer |-> << >>, file |-> f]
  <2>1. WriteFlush(w) = v
    BY <1>3 DEF WriteFlush
  <2>2. /\ FileRun(rows, w.file, lo) /\ Chunk(rows, w.buffer)
        /\ FirstRow(w.buffer) = FileEnd(w.file, lo) + 1 /\ LastRow(w.buffer) = n
    BY <1>3 DEF WriterRun
  <2>3. /\ f \in Seq(Seq(Cell)) /\ f # << >> /\ f[Len(f)] = w.buffer
        /\ Extends(w.file, f)
        /\ FileRun(rows, f, lo) /\ FileEnd(f, lo) = LastRow(w.buffer)
        /\ Packed(rows, w.file) /\ NoRoomFor(rows, w.file, FirstRow(w.buffer)) => Packed(rows, f)
    BY <1>1, <2>2, AppendChunk, Zenon
  <2>. HIDE DEF f
  <2>4. v \in WriteBuf /\ v.buffer = << >> /\ v.file = f
    BY <2>3 DEF WriteBuf
  <2>. HIDE DEF v
  <2>5. WriterRun(rows, v, lo, n)
    BY <2>2, <2>3, <2>4 DEF WriterRun
  <2>6. PacksSoFar(rows, w) => PacksSoFar(rows, v)
    BY <1>3, <2>3, <2>4 DEF PacksSoFar
  <2>. QED
    BY <1>3, <2>1, <2>3, <2>4, <2>5, <2>6
<1>. QED
  BY <1>2, <1>3

-----------------------------------------------------------------------------
\* After write_start() the next row fits, and if that left the buffer empty
\* then it did so because the row did not fit the chunk before.
LEMMA StartState ==
    ASSUME NEW rows \in Seq(Row), NEW w \in WriteBuf, NEW lo \in Nat, NEW n \in Nat,
           n + 1 \in 1..Len(rows), WriterRun(rows, w, lo, n), RowSize(rows[n + 1]) <= BUFFER_SIZE
    PROVE  LET size == RowSize(rows[n + 1])
               v == WriteStart(w, size)
           IN  /\ v \in WriteBuf /\ Extends(w.file, v.file) /\ Len(v.buffer) + size <= BUFFER_SIZE
               /\ WriterRun(rows, v, lo, n)
               /\ PacksSoFar(rows, w) => PacksSoFar(rows, v)
               /\ ReadyFor(rows, w, n + 1) => ReadyFor(rows, v, n + 1)
<1>. DEFINE size == RowSize(rows[n + 1])
            v == WriteStart(w, size)
<1>1. /\ w.buffer \in Seq(Cell) /\ w.file \in Seq(Seq(Cell)) /\ Len(w.file) \in Nat
      /\ Len(w.buffer) \in Nat /\ BUFFER_SIZE \in Nat
  BY FormatAssumption DEF WriteBuf
<1>2. size \in Nat \ {0} /\ size <= BUFFER_SIZE
  BY RowSizePositive
<1>. HIDE DEF size
<1>3. CASE size > BUFFER_SIZE - Len(w.buffer)
  <2>1. v = WriteFlush(w)
    BY <1>3 DEF WriteStart
  <2>2. w.buffer # << >>
    <3>1. Len(w.buffer) # 0
      BY <1>1, <1>2, <1>3
    <3>. QED
      BY <3>1
  <2>. HIDE DEF v
  <2>3. /\ v \in WriteBuf /\ v.buffer = << >> /\ WriterRun(rows, v, lo, n)
        /\ Extends(w.file, v.file) /\ v.file[Len(v.file)] = w.buffer
        /\ PacksSoFar(rows, w) => PacksSoFar(rows, v)
    BY <2>1, <2>2, FlushState
  <2>4. Len(v.buffer) + size <= BUFFER_SIZE
    BY <1>1, <1>2, <2>3
  <2>5. Len(v.file[Len(v.file)]) + size > BUFFER_SIZE
    BY <1>1, <1>2, <1>3, <2>3
  <2>6. ReadyFor(rows, v, n + 1)
    BY <2>5 DEF ReadyFor, NoRoomFor, size
  <2>. QED
    BY <2>3, <2>4, <2>6 DEF v, size
<1>4. CASE ~(size > BUFFER_SIZE - Len(w.buffer))
  <2>1. v = w
    BY <1>4 DEF WriteStart
  <2>2. Len(v.buffer) + size <= BUFFER_SIZE
    BY <1>1, <1>2, <1>4, <2>1
  <2>3. Extends(w.file, v.file)
    BY <1>1, <2>1 DEF Extends
  <2>. QED
    BY <1>1, <2>1, <2>2, <2>3 DEF size
<1>. QED
  BY <1>3, <1>4

\* Dumping the next row adds it to what the writer has dumped.
LEMMA DumpState ==
    ASSUME NEW rows \in Seq(Row), NEW w \in WriteBuf, NEW lo \in Nat, NEW n \in Nat,
           n + 1 \in 1..Len(rows), WriterRun(rows, w, lo, n), RowSize(rows[n + 1]) <= BUFFER_SIZE
    PROVE  LET v == Dump(w, n + 1, rows[n + 1])
           IN  /\ v \in WriteBuf /\ v.buffer # << >> /\ Len(v.buffer) <= BUFFER_SIZE
               /\ Extends(w.file, v.file)
               /\ WriterRun(rows, v, lo, n + 1)
               /\ PacksSoFar(rows, w) /\ ReadyFor(rows, w, n + 1) => PacksSoFar(rows, v)
<1>. DEFINE i == n + 1
            size == RowSize(rows[i])
            b == RowBytes(i, rows[i])
            s == WriteStart(w, size)
            t == s.buffer \o b
            v == [s EXCEPT !.buffer = t]
<1>1. /\ s \in WriteBuf /\ WriterRun(rows, s, lo, n) /\ Len(s.buffer) + size <= BUFFER_SIZE
      /\ Extends(w.file, s.file)
      /\ PacksSoFar(rows, w) => PacksSoFar(rows, s)
      /\ ReadyFor(rows, w, i) => ReadyFor(rows, s, i)
  BY StartState
<1>. HIDE DEF s
<1>2. Dump(w, i, rows[i]) = v
  BY DEF Dump, WriteBytes, s
<1>3. /\ s.buffer \in Seq(Cell) /\ s.file \in Seq(Seq(Cell)) /\ i \in 1..Len(rows)
      /\ FileRun(rows, s.file, lo)
  BY <1>1 DEF WriteBuf, WriterRun
<1>4. size \in Nat \ {0} /\ size <= BUFFER_SIZE /\ Len(s.buffer) \in Nat /\ BUFFER_SIZE \in Nat
  BY <1>3, RowSizePositive, FormatAssumption
<1>5. /\ b \in Seq(Cell) /\ Block(rows, b) /\ FirstRow(b) = i /\ LastRow(b) = i /\ Len(b) = size
  <2>1. rows[i] \in Row
    OBVIOUS
  <2>. QED
    BY <1>3, <2>1, RowIsBlock, RowBytesType
<1>. HIDE DEF b, size
<1>6. /\ t \in Seq(Cell) /\ Chunk(rows, t) /\ FirstRow(t) = FileEnd(s.file, lo) + 1 /\ LastRow(t) = i
      /\ PacksSoFar(rows, s) /\ ReadyFor(rows, s, i) => NoRoomFor(rows, s.file, FirstRow(t))
  <2>1. CASE s.buffer = << >>
    <3>1. t = b
      BY <1>5, <2>1
    <3>2. t \in Seq(Cell) /\ Chunk(rows, t) /\ FirstRow(t) = FileEnd(s.file, lo) + 1 /\ LastRow(t) = i
      BY <1>1, <1>4, <1>5, <2>1, <3>1 DEF Chunk, WriterRun
    <3>3. PacksSoFar(rows, s) /\ ReadyFor(rows, s, i) => NoRoomFor(rows, s.file, FirstRow(t))
      BY <1>5, <2>1, <3>1 DEF ReadyFor
    <3>. QED
      BY <3>2, <3>3
  <2>2. CASE s.buffer # << >>
    <3>1. /\ Block(rows, s.buffer) /\ LastRow(s.buffer) = n
          /\ FirstRow(s.buffer) = FileEnd(s.file, lo) + 1
      BY <1>1, <2>2 DEF WriterRun, Chunk
    <3>2. /\ t \in Seq(Cell) /\ Len(t) = Len(s.buffer) + size /\ Block(rows, t)
          /\ FirstRow(t) = FirstRow(s.buffer) /\ LastRow(t) = i
      BY <1>3, <1>5, <3>1, JoinBlocks
    <3>3. Chunk(rows, t)
      BY <1>1, <3>2 DEF Chunk
    <3>4. PacksSoFar(rows, s) => NoRoomFor(rows, s.file, FirstRow(t))
      BY <2>2, <3>2 DEF PacksSoFar
    <3>. QED
      BY <3>1, <3>2, <3>3, <3>4
  <2>. QED
    BY <2>1, <2>2
<1>. HIDE DEF t
<1>7. v \in WriteBuf /\ v.buffer = t /\ v.file = s.file
  BY <1>1, <1>6 DEF WriteBuf
<1>. HIDE DEF v
<1>8. v.buffer # << >> /\ Len(v.buffer) <= BUFFER_SIZE
  BY <1>6, <1>7 DEF Chunk, Block
<1>9. WriterRun(rows, v, lo, i)
  BY <1>3, <1>6, <1>7, <1>8 DEF WriterRun
<1>10. PacksSoFar(rows, s) /\ ReadyFor(rows, s, i) => PacksSoFar(rows, v)
  BY <1>6, <1>7 DEF PacksSoFar
<1>. QED
  BY <1>1, <1>2, <1>7, <1>8, <1>9, <1>10

-----------------------------------------------------------------------------
\* A block ends with the row it starts with or with a later one.
LEMMA BlockRows ==
    ASSUME NEW rows \in Seq(Row), NEW s \in Seq(Cell), Block(rows, s)
    PROVE  /\ FirstRow(s) \in 1..Len(rows) /\ LastRow(s) \in 1..Len(rows)
           /\ FirstRow(s) <= LastRow(s)
<1>1. Len(s) \in Nat \ {0} /\ FirstRow(s) \in 1..Len(rows) /\ LastRow(s) \in 1..Len(rows)
  BY BlockEnds
<1>2. 1 \in 1..Len(s) /\ Len(s) \in 1..Len(s) /\ 1 <= Len(s)
  BY <1>1
<1>. QED
  BY <1>1, <1>2, RowsRise DEF FirstRow, LastRow

\* Chunks that continue each other end with later and later rows.
LEMMA LastRowsRise ==
    ASSUME NEW rows \in Seq(Row), NEW file \in Seq(Seq(Cell)), NEW lo \in Nat,
           FileRun(rows, file, lo)
    PROVE  \A i, j \in 1..Len(file) : i <= j => LastRow(file[i]) <= LastRow(file[j])
<1>. DEFINE n == Len(file)
            f == [k \in 1..n |-> LastRow(file[k])]
<1>1. n \in Nat /\ \A k \in 1..n : file[k] \in Seq(Cell) /\ Block(rows, file[k])
  BY DEF FileRun, Chunk
<1>2. ASSUME NEW k \in 1..n
      PROVE  FirstRow(file[k]) \in Int /\ LastRow(file[k]) \in Int /\ FirstRow(file[k]) <= LastRow(file[k])
  BY <1>1, BlockRows
<1>3. \A k \in 1..n : f[k] \in Int
  BY <1>2
<1>4. ASSUME NEW k \in 1..n, k + 1 \in 1..n PROVE f[k] <= f[k + 1]
  <2>1. k \in 1..n - 1
    BY <1>1, <1>4
  <2>2. FirstRow(file[k + 1]) = LastRow(file[k]) + 1
    BY <2>1 DEF FileRun
  <2>. HIDE DEF n
  <2>. QED
    BY <1>2, <1>4, <2>2
<1>. HIDE DEF f, n
<1>5. \A i, j \in 1..n : i <= j => f[i] <= f[j]
  BY <1>1, <1>3, <1>4, RisesThroughout
<1>. QED
  BY <1>5 DEF f, n

\* What was written is a part of what was dumped.
LEMMA FlushedWasDumped ==
    ASSUME NEW rows \in Seq(Row), NEW w \in WriteBuf, NEW lo \in Nat \ {0}, NEW n \in Nat,
           WriterRun(rows, w, lo, n)
    PROVE  FileEnd(w.file, lo) \in Nat /\ FileEnd(w.file, lo) <= n
<1>1. w.buffer \in Seq(Cell) /\ w.file \in Seq(Seq(Cell))
  BY DEF WriteBuf
<1>2. CASE w.buffer = << >>
  BY <1>2 DEF WriterRun
<1>3. CASE w.buffer # << >>
  <2>1. Block(rows, w.buffer) /\ FirstRow(w.buffer) = FileEnd(w.file, lo) + 1 /\ LastRow(w.buffer) = n
    BY <1>3 DEF WriterRun, Chunk
  <2>2. FirstRow(w.buffer) \in Int /\ FirstRow(w.buffer) <= n
    BY <1>1, <2>1, BlockRows
  <2>3. FileEnd(w.file, lo) \in Nat
    <3>1. CASE w.file = << >>
      BY <3>1 DEF FileEnd
    <3>2. CASE w.file # << >>
      <4>. DEFINE c == w.file[Len(w.file)]
      <4>1. Len(w.file) \in 1..Len(w.file)
        BY <1>1, <3>2
      <4>2. \A k \in 1..Len(w.file) : w.file[k] \in Seq(Cell) /\ Chunk(rows, w.file[k])
        BY <1>1 DEF WriterRun, FileRun
      <4>3. c \in Seq(Cell) /\ Chunk(rows, c)
        BY <4>1, <4>2, Zenon
      <4>4. LastRow(c) \in 1..Len(rows)
        BY <4>3, BlockRows DEF Chunk
      <4>. QED
        BY <3>2, <4>4 DEF FileEnd
    <3>. QED
      BY <3>1, <3>2
  <2>. QED
    BY <2>1, <2>2, <2>3
<1>. QED
  BY <1>2, <1>3

-----------------------------------------------------------------------------
\* Advancing changes the three fields it is given and no other.
LEMMA AdvanceType ==
    ASSUME NEW rb \in ReadBuf, NEW at \in Int, NEW bytes \in Int, NEW offset \in Int
    PROVE  LET a == Advance(rb, at, bytes, offset)
           IN  /\ a \in ReadBuf /\ a.at = at /\ a.bytes = bytes /\ a.offset = offset
               /\ a.buffer = rb.buffer /\ a.chunk_size = rb.chunk_size
               /\ a.next = rb.next /\ a.dead = rb.dead
BY DEF Advance, ReadBuf

\* Of two successive read_bytes() the last one counts.
LEMMA AdvanceTwice ==
    ASSUME NEW rb \in ReadBuf, NEW a1, NEW b1, NEW o1, NEW a2, NEW b2, NEW o2
    PROVE  Advance(Advance(rb, a1, b1, o1), a2, b2, o2) = Advance(rb, a2, b2, o2)
BY DEF Advance, ReadBuf

\* Reading a chunk of cells leaves a read buffer.
LEMMA FetchType ==
    ASSUME NEW rb \in ReadBuf, NEW chunk \in Seq(Cell)
    PROVE  LET f == Fetch(rb, chunk)
           IN  /\ f \in ReadBuf /\ f.buffer = chunk /\ f.chunk_size = Len(chunk)
               /\ f.next = rb.next + 1 /\ f.dead = rb.dead
<1>1. Len(chunk) \in Int /\ rb.next + 1 \in Nat
  BY DEF ReadBuf
<1>. QED
  BY <1>1 DEF Fetch, ReadBuf

\* So does a read at the end of the file.
LEMMA ReadEofType ==
    ASSUME NEW rb \in ReadBuf
    PROVE  LET e == ReadEof(rb)
           IN  /\ e \in ReadBuf /\ e.chunk_size = 0 /\ e.offset = 0 /\ e.bytes = 0
               /\ e.next = rb.next /\ e.dead = rb.dead /\ e.buffer = rb.buffer
<1>. DEFINE z == [rb EXCEPT !.chunk_size = 0]
<1>1. /\ z \in ReadBuf /\ z.chunk_size = 0 /\ z.next = rb.next /\ z.dead = rb.dead
      /\ z.buffer = rb.buffer
  BY DEF ReadBuf
<1>. HIDE DEF z
<1>2. ReadEof(rb) = Advance(z, 0, 0, 0)
  BY DEF ReadEof, z
<1>. QED
  BY <1>1, <1>2, AdvanceType

\* A read of bytes that the chunk still has leaves the chunk in place.
LEMMA ReadInChunkResult ==
    ASSUME NEW rb \in ReadBuf, NEW size \in Nat \ {0}, NEW file,
           size <= rb.chunk_size - rb.offset
    PROVE  ReadBytes(rb, size, file) = Advance(rb, rb.offset, size, rb.offset + size)
<1>1. BytesLeft(rb) \in Int /\ BytesLeft(rb) # 0 /\ ~(BytesLeft(rb) < 0)
      /\ ~(size > BytesLeft(rb))
  BY DEF BytesLeft, ReadBuf
<1>. QED
  BY <1>1 DEF ReadBytes, ReadInChunk

\* The buffer holds a block, and max of row i of it was just read.
MaxRead(rows, rb, i) ==
    /\ rb \in ReadBuf /\ ~rb.dead
    /\ Block(rows, rb.buffer) /\ rb.chunk_size = Len(rb.buffer)
    /\ rb.at \in 0..Len(rb.buffer) - 1 /\ rb.offset = rb.at + 2
    /\ rb.buffer[rb.at + 1] = [row |-> i, byte |-> 1]

\* The buffer after row r has been read, when its first byte is after p cells.
AfterRow(rb, r, p) == Advance(rb, p + HeaderSize(r), r.data, p + RowSize(r))

\* After max of a row has been read from a block, the rest of the row follows.
LEMMA LoadRowResult ==
    ASSUME NEW rows \in Seq(Row), NEW file, NEW rb, NEW i \in Nat, MaxRead(rows, rb, i)
    PROVE  LoadRow(rb, rows, file) = Loaded(AfterRow(rb, rows[i], rb.at), i, "row")
<1>. DEFINE r == rows[i]
            p == rb.at
            b == rb.buffer
            h == 2 * (r.max + 1)
            header == HeaderSize(r)
            size == RowSize(r)
            d == r.data
            sizes == Advance(rb, p + 2, h, p + header)
            columns == Advance(rb, p + header, d, p + size)
<1>1. /\ b \in Seq(Cell) /\ Len(b) \in Nat /\ p \in Nat /\ p \in 0..Len(b) - 1
      /\ rb.offset = p + 2 /\ rb.chunk_size = Len(b) /\ b[p + 1] = [row |-> i, byte |-> 1]
      /\ rb \in ReadBuf /\ rb.dead = FALSE
  BY DEF MaxRead, ReadBuf
<1>2. Block(rows, b)
  BY DEF MaxRead
<1>. HIDE DEF p, b
<1>3. /\ i \in 1..Len(rows) /\ p + size <= Len(b)
      /\ \A k \in 1..size : b[p + k] = [row |-> i, byte |-> k]
  <2>1. RowAt(rows, b, p, i)
    BY <1>1, <1>2, RowInBlock
  <2>. QED
    BY <2>1 DEF RowAt
<1>4. r \in Row
  BY <1>3
<1>. HIDE DEF r
<1>5. /\ d \in Nat \ {0} /\ h \in Nat \ {0} /\ header = 2 + h /\ size = header + d
      /\ header \in Nat /\ size \in Nat
  BY <1>4, RowSizeType, SMTT(40)
<1>. HIDE DEF h, header, size, d, sizes, columns
<1>6. ReadBytes(rb, h, file) = sizes
  <2>1. h <= rb.chunk_size - rb.offset /\ rb.offset + h = p + header
    BY <1>1, <1>3, <1>5
  <2>2. ReadBytes(rb, h, file) = Advance(rb, rb.offset, h, rb.offset + h)
    BY <1>1, <1>5, <2>1, ReadInChunkResult
  <2>. QED
    BY <1>1, <2>1, <2>2 DEF sizes
<1>7. /\ sizes \in ReadBuf /\ sizes.chunk_size = Len(b) /\ sizes.offset = p + header
      /\ sizes.buffer = b /\ sizes.at = p + 2 /\ sizes.bytes = h /\ sizes.dead = FALSE
  <2>. DEFINE q == p + 2
              o == p + header
  <2>1. q \in Int /\ h \in Int /\ o \in Int /\ b = rb.buffer
    BY <1>1, <1>5 DEF b
  <2>. HIDE DEF q, o
  <2>2. /\ Advance(rb, q, h, o) \in ReadBuf /\ Advance(rb, q, h, o).at = q
        /\ Advance(rb, q, h, o).bytes = h /\ Advance(rb, q, h, o).offset = o
        /\ Advance(rb, q, h, o).buffer = b /\ Advance(rb, q, h, o).chunk_size = Len(b)
        /\ Advance(rb, q, h, o).dead = FALSE
    BY <1>1, <2>1, AdvanceType
  <2>. QED
    BY <2>2 DEF sizes, q, o
<1>8. /\ columns.buffer = b /\ columns.at = p + header /\ columns.bytes = d
      /\ columns.dead = FALSE
  <2>1. p + header \in Int /\ d \in Int /\ p + size \in Int /\ b = rb.buffer
    BY <1>1, <1>5 DEF b
  <2>. QED
    BY <1>1, <2>1, AdvanceType DEF columns
<1>9. ReadBytes(sizes, d, file) = columns
  <2>1. d <= sizes.chunk_size - sizes.offset /\ sizes.offset + d = p + size
    BY <1>1, <1>3, <1>5, <1>7, SMTT(40)
  <2>2. ReadBytes(sizes, d, file) = Advance(sizes, sizes.offset, d, sizes.offset + d)
    BY <1>5, <1>7, <2>1, ReadInChunkResult
  <2>3. Advance(sizes, p + header, d, p + size) = columns
    BY <1>1, AdvanceTwice DEF sizes, columns
  <2>. QED
    BY <1>7, <2>1, <2>2, <2>3
<1>10. WholeRow(i, r, rb, sizes, columns)
  <2>1. /\ b[p + 1] = [row |-> i, byte |-> 1]
        /\ b[p + 3] = [row |-> i, byte |-> 3]
        /\ b[p + (header + 1)] = [row |-> i, byte |-> header + 1]
    BY <1>3, <1>5
  <2>2. (p + 2) + 1 = p + 3 /\ (p + header) + 1 = p + (header + 1)
    BY <1>1, <1>5
  <2>. QED
    BY <1>7, <1>8, <2>1, <2>2 DEF WholeRow, FirstCell, b, p, header
<1>11. FirstCell(rb).row = i
  BY <1>1 DEF FirstCell, b, p
<1>12. LoadRow(rb, rows, file) = Loaded(columns, i, "row")
  BY <1>6, <1>7, <1>8, <1>9, <1>10, <1>11 DEF LoadRow, r, h, d
<1>. QED
  BY <1>12 DEF AfterRow, columns, r, p, header, size, d

-----------------------------------------------------------------------------
\* load_next() inside a block returns the row that starts at the offset.
LEMMA LoadHeldRow ==
    ASSUME NEW rows \in Seq(Row), NEW file, NEW rb, NEW i \in Nat, HeldRow(rows, rb, i)
    PROVE  /\ RowAt(rows, rb.buffer, rb.offset, i)
           /\ LoadNext(rb, rows, file) = Loaded(AfterRow(rb, rows[i], rb.offset), i, "row")
<1>. DEFINE p == rb.offset
            b == rb.buffer
            max == Advance(rb, p, 2, p + 2)
<1>1. /\ rb \in ReadBuf /\ b \in Seq(Cell) /\ Len(b) \in Nat /\ p \in Nat /\ p \in 0..Len(b) - 1
      /\ rb.chunk_size = Len(b) /\ rb.dead = FALSE
      /\ Block(rows, b) /\ b[p + 1] = [row |-> i, byte |-> 1]
  BY DEF HeldRow, ReadBuf
<1>. HIDE DEF max
<1>2. RowAt(rows, b, p, i)
  <2>. HIDE DEF b, p
  <2>. QED
    BY <1>1, RowInBlock
<1>3. 2 <= rb.chunk_size - rb.offset
  <2>1. i \in 1..Len(rows) /\ p + RowSize(rows[i]) <= Len(b)
    BY <1>2 DEF RowAt
  <2>2. RowSize(rows[i]) \in Nat /\ RowSize(rows[i]) >= 2
    BY <2>1, RowSizePositive
  <2>. HIDE DEF p, b
  <2>3. 2 <= Len(b) - p
    BY <1>1, <2>1, <2>2
  <2>. QED
    BY <1>1, <2>3 DEF p
<1>4. ReadBytes(rb, 2, file) = max
  BY <1>1, <1>3, ReadInChunkResult DEF max
<1>5. /\ max \in ReadBuf /\ max.chunk_size = Len(b) /\ max.offset = p + 2
      /\ max.buffer = b /\ max.at = p /\ max.bytes = 2 /\ max.dead = FALSE
  <2>1. p \in Int /\ 2 \in Int /\ p + 2 \in Int
    BY <1>1
  <2>. QED
    BY <1>1, <2>1, AdvanceType DEF max
<1>6. MaxRead(rows, max, i)
  <2>. HIDE DEF b, p
  <2>. QED
    BY <1>1, <1>5 DEF MaxRead
<1>7. LoadNext(rb, rows, file) = LoadRow(max, rows, file)
  BY <1>4, <1>5 DEF LoadNext
<1>8. LoadRow(max, rows, file) = Loaded(AfterRow(max, rows[i], p), i, "row")
  BY <1>5, <1>6, LoadRowResult
<1>9. AfterRow(max, rows[i], p) = AfterRow(rb, rows[i], p)
  BY <1>1, AdvanceTwice DEF AfterRow, max
<1>. QED
  BY <1>2, <1>7, <1>8, <1>9

\* load_next() between two chunks returns the first row of the next one.
LEMMA LoadNextRow ==
    ASSUME NEW rows \in Seq(Row), NEW file, NEW rb, NEW i \in Nat, NextRow(rows, rb, file, i)
    PROVE  LET c == file[rb.next + 1]
           IN  /\ RowAt(rows, c, 0, i)
               /\ LoadNext(rb, rows, file) = Loaded(AfterRow(Fetch(rb, c), rows[i], 0), i, "row")
<1>. DEFINE c == file[rb.next + 1]
            held == Fetch(rb, c)
            max == Advance(held, 0, 2, 2)
<1>1. /\ rb \in ReadBuf /\ c \in Seq(Cell) /\ Block(rows, c) /\ Len(c) <= BUFFER_SIZE
      /\ FirstRow(c) = i /\ rb.dead = FALSE
  <2>1. rb.next + 1 \in 1..Len(file) /\ file \in Seq(Seq(Cell))
    BY DEF NextRow, ReadBuf
  <2>. QED
    BY <2>1 DEF NextRow, ReadBuf, Chunk
<1>. HIDE DEF c, held, max
<1>2. /\ Len(c) \in Nat \ {0} /\ Len(c) <= BUFFER_SIZE
      /\ c[1] = [row |-> i, byte |-> 1] /\ i \in 1..Len(rows)
  BY <1>1, BlockEnds
<1>3. 0 \in 0..Len(c) - 1 /\ c[0 + 1] = [row |-> i, byte |-> 1]
  BY <1>2
<1>4. RowAt(rows, c, 0, i)
  BY <1>1, <1>3, RowInBlock
<1>5. ~(2 > Len(c)) /\ ~(Len(c) > BUFFER_SIZE)
  <2>1. 0 + RowSize(rows[i]) <= Len(c)
    BY <1>4 DEF RowAt
  <2>2. RowSize(rows[i]) \in Nat /\ RowSize(rows[i]) >= 2 /\ BUFFER_SIZE \in Nat
    BY <1>2, RowSizePositive, FormatAssumption
  <2>. QED
    BY <1>2, <2>1, <2>2
<1>6. ReadBytes(rb, 2, file) = max
  <2>1. BytesLeft(rb) = 0 /\ ~(rb.next = Len(file))
    BY DEF NextRow, BytesLeft, ReadBuf
  <2>2. ReadBytes(rb, 2, file) = ReadChunk(rb, 2, c)
    BY <2>1 DEF ReadBytes, c
  <2>. QED
    BY <1>5, <2>2 DEF ReadChunk, max, held
<1>7. held \in ReadBuf /\ held.buffer = c /\ held.chunk_size = Len(c) /\ held.dead = FALSE
  BY <1>1, FetchType DEF held
<1>8. /\ max \in ReadBuf /\ max.chunk_size = Len(c) /\ max.offset = 2
      /\ max.buffer = c /\ max.at = 0 /\ max.bytes = 2 /\ max.dead = FALSE
  BY <1>7, AdvanceType DEF max
<1>9. MaxRead(rows, max, i)
  BY <1>1, <1>3, <1>8 DEF MaxRead
<1>10. LoadNext(rb, rows, file) = LoadRow(max, rows, file)
  BY <1>6, <1>8 DEF LoadNext
<1>11. LoadRow(max, rows, file) = Loaded(AfterRow(max, rows[i], 0), i, "row")
  BY <1>8, <1>9, LoadRowResult
<1>12. AfterRow(max, rows[i], 0) = AfterRow(held, rows[i], 0)
  BY <1>7, AdvanceTwice DEF AfterRow, max
<1>. QED
  BY <1>4, <1>10, <1>11, <1>12 DEF c, held

\* Nothing is left: the reader is told so, and its buffer stays empty.
LEMMA LoadAtEnd ==
    ASSUME NEW rows, NEW file, NEW rb \in ReadBuf, ~rb.dead, AtEnd(rb, file)
    PROVE  LoadNext(rb, rows, file) = Loaded(ReadEof(rb), 0, "stop")
<1>1. ReadBytes(rb, 2, file) = ReadEof(rb)
  BY DEF ReadBytes, AtEnd
<1>2. ReadEof(rb).bytes = 0 /\ ~ReadEof(rb).dead
  BY ReadEofType
<1>. QED
  BY <1>1, <1>2 DEF LoadNext

-----------------------------------------------------------------------------
\* What follows chunk c of a file, what comes first and what last.
LEMMA FileParts ==
    ASSUME NEW rows, NEW file, NEW lo \in Nat \ {0}, NEW hi \in 0..Len(rows),
           HoldsRows(rows, file, lo, hi)
    PROVE  /\ \A c \in 1..Len(file) : file[c] \in Seq(Cell) /\ Chunk(rows, file[c])
           /\ \A c \in 1..Len(file) : c # Len(file) => FirstRow(file[c + 1]) = LastRow(file[c]) + 1
           /\ IF file = << >> THEN hi = lo - 1
              ELSE FirstRow(file[1]) = lo /\ LastRow(file[Len(file)]) = hi
<1>1. \A c \in 1..Len(file) : file[c] \in Seq(Cell) /\ Chunk(rows, file[c])
  BY DEF HoldsRows, FileRun
<1>2. \A c \in 1..Len(file) : c # Len(file) => FirstRow(file[c + 1]) = LastRow(file[c]) + 1
  <2>1. \A c \in 1..Len(file) : c # Len(file) => c \in 1..Len(file) - 1
    BY DEF HoldsRows
  <2>. QED
    BY <2>1 DEF HoldsRows, FileRun
<1>3. IF file = << >> THEN hi = lo - 1
      ELSE FirstRow(file[1]) = lo /\ LastRow(file[Len(file)]) = hi
  BY DEF HoldsRows, FileRun, FileEnd
<1>. QED
  BY <1>1, <1>2, <1>3

\* The buffer holds a block that ends where the last chunk read does.
HeldBlock(rows, file, rb) ==
    /\ rb \in ReadBuf /\ ~rb.dead /\ rb.next \in 1..Len(file)
    /\ Block(rows, rb.buffer) /\ rb.chunk_size = Len(rb.buffer)
    /\ LastRow(rb.buffer) = LastRow(file[rb.next])

\* After row n of a block that is held, row n + 1 is the next one.
LEMMA UpcomingAfter ==
    ASSUME NEW rows, NEW file, NEW lo \in Nat \ {0}, NEW hi \in 0..Len(rows),
           HoldsRows(rows, file, lo, hi), NEW rb, HeldBlock(rows, file, rb),
           NEW p \in Nat, NEW n \in Nat, RowAt(rows, rb.buffer, p, n)
    PROVE  LET a == AfterRow(rb, rows[n], p)
           IN  /\ a \in ReadBuf /\ ~a.dead /\ a.buffer = rb.buffer /\ a.next = rb.next
               /\ a.chunk_size = Len(a.buffer)
               /\ UpcomingTo(rows, file, a, hi, n + 1)
<1>. DEFINE a == AfterRow(rb, rows[n], p)
            o == p + RowSize(rows[n])
            b == rb.buffer
<1>1. /\ rows \in Seq(Row) /\ rb \in ReadBuf /\ rb.dead = FALSE /\ rb.next \in 1..Len(file)
      /\ b \in Seq(Cell) /\ Block(rows, b) /\ rb.chunk_size = Len(b)
      /\ LastRow(b) = LastRow(file[rb.next]) /\ RowAt(rows, b, p, n) /\ rb.next # 0
  BY DEF HeldBlock, HoldsRows, ReadBuf
<1>. HIDE DEF b
<1>2. o \in 0..Len(b) /\ IF o = Len(b) THEN LastRow(b) = n ELSE b[o + 1] = [row |-> n + 1, byte |-> 1]
  <2>1. RowEndsAt(b, o, n)
    BY <1>1, AfterRowInBlock
  <2>. QED
    BY <2>1 DEF RowEndsAt
<1>3. /\ a \in ReadBuf /\ a.dead = FALSE /\ a.buffer = b /\ a.next = rb.next
      /\ a.chunk_size = Len(b) /\ a.offset = o
  <2>. DEFINE at == p + HeaderSize(rows[n])
  <2>1. rows[n] \in Row
    BY <1>1 DEF RowAt
  <2>2. at \in Int /\ rows[n].data \in Int /\ o \in Int
    BY <1>2, <2>1, RowSizeType, SMTT(30)
  <2>3. a = Advance(rb, at, rows[n].data, o)
    BY DEF AfterRow
  <2>. HIDE DEF at, o, a
  <2>. QED
    BY <1>1, <2>2, <2>3, AdvanceType, SMTT(30) DEF b
<1>. HIDE DEF a, o
<1>4. Len(b) \in Nat \ {0}
  BY <1>1, BlockEnds
<1>5. CASE o = Len(b)
  <2>1. LastRow(file[rb.next]) = n
    BY <1>1, <1>2, <1>5
  <2>2. n + 1 = IF rb.next = Len(file) THEN hi + 1 ELSE FirstRow(file[rb.next + 1])
    <3>1. file # << >>
      BY <1>1 DEF HoldsRows
    <3>. QED
      BY <1>1, <2>1, <3>1, FileParts, SMTT(30)
  <2>3. UpcomingTo(rows, file, a, hi, n + 1)
    BY <1>3, <1>5, <2>2 DEF UpcomingTo
  <2>. QED
    BY <1>3, <2>3 DEF a, b
<1>6. CASE o # Len(b)
  <2>1. o \in 0..Len(b) - 1
    BY <1>2, <1>4, <1>6
  <2>2. HeldRow(rows, a, n + 1)
    BY <1>1, <1>2, <1>3, <1>6, <2>1 DEF HeldRow
  <2>3. UpcomingTo(rows, file, a, hi, n + 1)
    BY <1>1, <1>3, <1>6, <2>2 DEF UpcomingTo
  <2>. QED
    BY <1>3, <2>3 DEF a, b
<1>. QED
  BY <1>5, <1>6

\* Load_next() between two chunks: the next chunk is held, and its first row
\* returned.
LEMMA LoadFetchesIn ==
    ASSUME NEW rows, NEW file, NEW lo \in Nat \ {0}, NEW hi \in 0..Len(rows),
           HoldsRows(rows, file, lo, hi), NEW rb \in ReadBuf, ~rb.dead,
           rb.next \in 0..Len(file), rb.offset = rb.chunk_size, rb.next # Len(file)
    PROVE  LET l == LoadNext(rb, rows, file)
               c == file[rb.next + 1]
           IN  /\ l.outcome = "row" /\ l.row = FirstRow(c) /\ l.row \in 1..Len(rows)
               /\ l.rbuf \in ReadBuf /\ ~l.rbuf.dead /\ l.rbuf.next = rb.next + 1
               /\ l.rbuf.buffer = c /\ l.rbuf.chunk_size = Len(c)
               /\ UpcomingTo(rows, file, l.rbuf, hi, l.row + 1)
<1>. DEFINE k == rb.next + 1
            c == file[k]
            n == FirstRow(c)
            f == Fetch(rb, c)
            l == LoadNext(rb, rows, file)
<1>1. k \in 1..Len(file) /\ rb.next < Len(file) /\ rows \in Seq(Row) /\ file \in Seq(Seq(Cell))
  BY DEF HoldsRows
<1>2. c \in Seq(Cell) /\ Chunk(rows, c) /\ Block(rows, c)
  BY <1>1, FileParts DEF Chunk
<1>3. n \in 1..Len(rows) /\ n \in Nat
  <2>1. n \in 1..Len(rows)
    BY <1>1, <1>2, BlockEnds
  <2>. HIDE DEF n
  <2>. QED
    BY <1>1, <2>1
<1>4. NextRow(rows, rb, file, n)
  BY <1>1, <1>2 DEF NextRow
<1>5. RowAt(rows, c, 0, n) /\ l = Loaded(AfterRow(f, rows[n], 0), n, "row")
  BY <1>1, <1>3, <1>4, LoadNextRow
<1>. HIDE DEF n, l, c, f
<1>6. f \in ReadBuf /\ f.buffer = c /\ f.chunk_size = Len(c) /\ f.next = k /\ f.dead = FALSE
  BY <1>2, FetchType DEF f, ReadBuf
<1>7. HeldBlock(rows, file, f)
  BY <1>1, <1>2, <1>6 DEF HeldBlock, c
<1>8. /\ AfterRow(f, rows[n], 0) \in ReadBuf /\ ~AfterRow(f, rows[n], 0).dead
      /\ AfterRow(f, rows[n], 0).buffer = f.buffer /\ AfterRow(f, rows[n], 0).next = f.next
      /\ AfterRow(f, rows[n], 0).chunk_size = Len(AfterRow(f, rows[n], 0).buffer)
      /\ UpcomingTo(rows, file, AfterRow(f, rows[n], 0), hi, n + 1)
  BY <1>3, <1>5, <1>6, <1>7, UpcomingAfter
<1>9. l.outcome = "row" /\ l.row = n /\ l.rbuf = AfterRow(f, rows[n], 0)
  BY <1>5 DEF Loaded
<1>. QED
  BY <1>3, <1>6, <1>8, <1>9 DEF n, c, l, k

\* Load_next() returns the row that is upcoming, and goes on to the one after
\* it, in the block held or in the next chunk.
LEMMA LoadUpcomingIn ==
    ASSUME NEW rows, NEW file, NEW lo \in Nat \ {0}, NEW hi \in 0..Len(rows),
           HoldsRows(rows, file, lo, hi), NEW rb \in ReadBuf, ~rb.dead,
           rb.next \in 0..Len(file), NEW n \in 1..hi, UpcomingTo(rows, file, rb, hi, n)
    PROVE  LET l == LoadNext(rb, rows, file)
           IN  /\ l.outcome = "row" /\ l.row = n
               /\ l.rbuf \in ReadBuf /\ ~l.rbuf.dead /\ l.rbuf.next \in 0..Len(file)
               /\ UpcomingTo(rows, file, l.rbuf, hi, n + 1)
               /\ \/ l.rbuf.buffer = rb.buffer /\ l.rbuf.next = rb.next
                  \/ rb.next # Len(file) /\ l.rbuf.buffer = file[rb.next + 1]
<1>. DEFINE l == LoadNext(rb, rows, file)
<1>0. rows \in Seq(Row) /\ rb.dead = FALSE /\ n \in Nat /\ hi \in Nat /\ n <= hi
  BY DEF HoldsRows, ReadBuf
<1>1. CASE rb.offset = rb.chunk_size
  <2>1. rb.next # Len(file) /\ n = FirstRow(file[rb.next + 1])
    <3>1. n # hi + 1
      BY <1>0
    <3>. QED
      BY <1>1, <3>1 DEF UpcomingTo
  <2>2. rb.next + 1 \in 0..Len(file)
    BY <2>1 DEF HoldsRows
  <2>. QED
    BY <1>1, <2>1, <2>2, LoadFetchesIn
<1>2. CASE rb.offset # rb.chunk_size
  <2>1. HeldRow(rows, rb, n) /\ rb.next # 0 /\ LastRow(rb.buffer) = LastRow(file[rb.next])
    BY <1>2 DEF UpcomingTo
  <2>2. RowAt(rows, rb.buffer, rb.offset, n) /\ l = Loaded(AfterRow(rb, rows[n], rb.offset), n, "row")
    BY <1>0, <2>1, LoadHeldRow
  <2>3. HeldBlock(rows, file, rb) /\ rb.offset \in Nat
    <3>1. rb.next \in 1..Len(file)
      BY <2>1 DEF HoldsRows
    <3>. QED
      BY <1>0, <2>1, <3>1 DEF HeldRow, HeldBlock
  <2>. DEFINE a == AfterRow(rb, rows[n], rb.offset)
  <2>4. /\ a \in ReadBuf /\ ~a.dead /\ a.buffer = rb.buffer /\ a.next = rb.next
        /\ UpcomingTo(rows, file, a, hi, n + 1)
    BY <1>0, <2>2, <2>3, UpcomingAfter
  <2>5. l.outcome = "row" /\ l.row = n /\ l.rbuf = a
    BY <2>2 DEF Loaded
  <2>. HIDE DEF a
  <2>. QED
    BY <2>4, <2>5
<1>. QED
  BY <1>1, <1>2

\* The rows of each chunk are not beyond the last one of the file.
LEMMA ChunkRows ==
    ASSUME NEW rows, NEW file, NEW lo \in Nat \ {0}, NEW hi \in 0..Len(rows),
           HoldsRows(rows, file, lo, hi), NEW c \in 1..Len(file)
    PROVE  /\ FirstRow(file[c]) \in Nat /\ LastRow(file[c]) \in Nat
           /\ FirstRow(file[c]) <= LastRow(file[c]) /\ LastRow(file[c]) <= hi
<1>1. /\ rows \in Seq(Row) /\ file \in Seq(Seq(Cell)) /\ FileRun(rows, file, lo)
      /\ file # << >> /\ Len(file) \in Nat
  BY DEF HoldsRows
<1>2. file[c] \in Seq(Cell) /\ Block(rows, file[c]) /\ LastRow(file[Len(file)]) = hi
  BY <1>1, FileParts DEF Chunk
<1>3. /\ FirstRow(file[c]) \in 1..Len(rows) /\ LastRow(file[c]) \in 1..Len(rows)
      /\ FirstRow(file[c]) <= LastRow(file[c])
  BY <1>1, <1>2, BlockRows
<1>4. Len(file) \in 1..Len(file) /\ c <= Len(file)
  BY <1>1
<1>5. LastRow(file[c]) <= LastRow(file[Len(file)])
  BY <1>1, <1>4, LastRowsRise
<1>. QED
  BY <1>2, <1>3, <1>5

\* Where no row is upcoming, load_next() stops.
LEMMA LoadStopsIn ==
    ASSUME NEW rows, NEW file, NEW lo \in Nat \ {0}, NEW hi \in 0..Len(rows),
           HoldsRows(rows, file, lo, hi), NEW rb \in ReadBuf, ~rb.dead,
           rb.next \in 0..Len(file), UpcomingTo(rows, file, rb, hi, hi + 1)
    PROVE  LoadNext(rb, rows, file) = Loaded(ReadEof(rb), 0, "stop")
<1>0. rows \in Seq(Row) /\ Len(rows) \in Nat /\ hi \in Nat /\ hi + 1 \in Nat
  BY DEF HoldsRows
<1>1. rb.offset = rb.chunk_size
  <2>. SUFFICES ASSUME rb.offset # rb.chunk_size PROVE FALSE
    OBVIOUS
  <2>. DEFINE b == rb.buffer
              p == rb.offset
  <2>1. HeldRow(rows, rb, hi + 1) /\ rb.next # 0 /\ LastRow(b) = LastRow(file[rb.next])
    BY DEF UpcomingTo
  <2>2. /\ b \in Seq(Cell) /\ Block(rows, b) /\ p \in 0..Len(b) - 1
        /\ b[p + 1] = [row |-> hi + 1, byte |-> 1]
    BY <2>1 DEF HeldRow, ReadBuf
  <2>. HIDE DEF b, p
  <2>3. p + 1 \in 1..Len(b) /\ Len(b) \in 1..Len(b) /\ p + 1 <= Len(b) /\ b[p + 1].row = hi + 1
    BY <2>2
  <2>4. b[p + 1].row <= b[Len(b)].row
    BY <1>0, <2>2, <2>3, RowsRise
  <2>5. rb.next \in 1..Len(file)
    BY <2>1 DEF HoldsRows
  <2>6. LastRow(file[rb.next]) \in Nat /\ LastRow(file[rb.next]) <= hi
    BY <2>5, ChunkRows
  <2>. QED
    BY <1>0, <2>1, <2>3, <2>4, <2>6 DEF LastRow
<1>2. rb.next = Len(file)
  <2>. SUFFICES ASSUME rb.next # Len(file) PROVE FALSE
    OBVIOUS
  <2>1. FirstRow(file[rb.next + 1]) = hi + 1
    BY <1>1 DEF UpcomingTo
  <2>2. rb.next + 1 \in 1..Len(file)
    BY DEF HoldsRows
  <2>3. FirstRow(file[rb.next + 1]) \in Nat /\ LastRow(file[rb.next + 1]) \in Nat
        /\ FirstRow(file[rb.next + 1]) <= LastRow(file[rb.next + 1])
        /\ LastRow(file[rb.next + 1]) <= hi
    BY <2>2, ChunkRows
  <2>. QED
    BY <1>0, <2>1, <2>3
<1>3. AtEnd(rb, file)
  BY <1>1, <1>2 DEF AtEnd, BytesLeft, ReadBuf
<1>. QED
  BY <1>3, LoadAtEnd

-----------------------------------------------------------------------------
\* A file of all the rows holds rows 1 to the last one.
LEMMA WholeHolds ==
    ASSUME NEW rows, NEW file, WholeFile(rows, file)
    PROVE  HoldsRows(rows, file, 1, Len(rows)) /\ 1 \in Nat \ {0} /\ Len(rows) \in 0..Len(rows)
BY DEF WholeFile, HoldsRows

\* So the same holds for such a file: its parts,
LEMMA WholeFileParts ==
    ASSUME NEW rows, NEW file, WholeFile(rows, file)
    PROVE  /\ \A c \in 1..Len(file) : file[c] \in Seq(Cell) /\ Chunk(rows, file[c])
           /\ \A c \in 1..Len(file) : c # Len(file) => FirstRow(file[c + 1]) = LastRow(file[c]) + 1
           /\ IF file = << >> THEN Len(rows) = 0
              ELSE FirstRow(file[1]) = 1 /\ LastRow(file[Len(file)]) = Len(rows)
BY WholeHolds, FileParts

\* what load_next() returns between two chunks,
LEMMA LoadFetches ==
    ASSUME NEW rows, NEW file, WholeFile(rows, file), NEW rb \in ReadBuf, ~rb.dead,
           rb.next \in 0..Len(file), rb.offset = rb.chunk_size, rb.next # Len(file)
    PROVE  LET l == LoadNext(rb, rows, file)
               c == file[rb.next + 1]
           IN  /\ l.outcome = "row" /\ l.row = FirstRow(c) /\ l.row \in 1..Len(rows)
               /\ l.rbuf \in ReadBuf /\ ~l.rbuf.dead /\ l.rbuf.next = rb.next + 1
               /\ l.rbuf.buffer = c /\ l.rbuf.chunk_size = Len(c)
               /\ Upcoming(rows, file, l.rbuf, l.row + 1)
BY WholeHolds, LoadFetchesIn DEF Upcoming

\* where a row is upcoming,
LEMMA LoadUpcoming ==
    ASSUME NEW rows, NEW file, WholeFile(rows, file), NEW rb \in ReadBuf, ~rb.dead,
           rb.next \in 0..Len(file), NEW n \in 1..Len(rows), Upcoming(rows, file, rb, n)
    PROVE  LET l == LoadNext(rb, rows, file)
           IN  /\ l.outcome = "row" /\ l.row = n
               /\ l.rbuf \in ReadBuf /\ ~l.rbuf.dead /\ l.rbuf.next \in 0..Len(file)
               /\ Upcoming(rows, file, l.rbuf, n + 1)
               /\ \/ l.rbuf.buffer = rb.buffer /\ l.rbuf.next = rb.next
                  \/ rb.next # Len(file) /\ l.rbuf.buffer = file[rb.next + 1]
BY WholeHolds, LoadUpcomingIn DEF Upcoming

\* and where none is.
LEMMA LoadStops ==
    ASSUME NEW rows, NEW file, WholeFile(rows, file), NEW rb \in ReadBuf, ~rb.dead,
           rb.next \in 0..Len(file), Upcoming(rows, file, rb, Len(rows) + 1)
    PROVE  LoadNext(rb, rows, file) = Loaded(ReadEof(rb), 0, "stop")
BY WholeHolds, LoadStopsIn DEF Upcoming

-----------------------------------------------------------------------------
\* The rows found among the first k cells, when out were found before cell k.
Found(s, k, out) == IF s[k].byte <= 1 THEN Append(out, s[k].row) ELSE out

\* f gives the rows that start in the first k cells, for every k.
Finds(s, f) ==
    /\ f \in [0..Len(s) -> Seq(Nat)] /\ f[0] = << >>
    /\ \A k \in 1..Len(s) : f[k] = Found(s, k, f[k - 1])

\* RowsOf() is defined by such steps.
LEMMA FindsRows ==
    ASSUME NEW s \in Seq(Cell)
    PROVE  \E f : Finds(s, f) /\ RowsOf(s) = f[Len(s)]
<1>. DEFINE n == Len(s)
            F == [k \in 1..n |-> [out \in Seq(Nat) |-> Found(s, k, out)]]
            g == CHOOSE g : g = [k \in 0..n |->
                     IF k = 0 THEN << >>
                     ELSE IF s[k].byte <= 1 THEN Append(g[k - 1], s[k].row) ELSE g[k - 1]]
<1>1. n \in Nat /\ << >> \in Seq(Nat)
  OBVIOUS
<1>2. \A k \in 1..n, out \in Seq(Nat) : Found(s, k, out) \in Seq(Nat)
  <2>. SUFFICES ASSUME NEW k \in 1..n, NEW out \in Seq(Nat) PROVE Found(s, k, out) \in Seq(Nat)
    OBVIOUS
  <2>1. s[k] \in Cell
    OBVIOUS
  <2>2. s[k].row \in Nat
    BY <2>1 DEF Cell
  <2>3. Append(out, s[k].row) \in Seq(Nat)
    BY <2>2, AppendProperties
  <2>. QED
    BY <2>3 DEF Found
<1>3. F \in [1..n -> [Seq(Nat) -> Seq(Nat)]]
  BY <1>2
<1>4. RowsOf(s) = g[n]
  BY Zenon DEF RowsOf
<1>. HIDE DEF F, g
<1>5. PICK f \in [0..n -> Seq(Nat)] : Follows(n, << >>, F, f)
  <2>. HIDE DEF n
  <2>. QED
    BY <1>1, <1>3, StepByStep
<1>6. \A k \in 1..n : f[k] = Found(s, k, f[k - 1])
  <2>1. \A k \in 1..n : f[k - 1] \in Seq(Nat)
    BY <1>1
  <2>. QED
    BY <1>5, <2>1 DEF F, Follows
<1>. HIDE DEF n
<1>7. f = [k \in 0..n |-> IF k = 0 THEN << >>
              ELSE IF s[k].byte <= 1 THEN Append(f[k - 1], s[k].row) ELSE f[k - 1]]
  <2>1. \A k \in 0..n : k # 0 => k \in 1..n
    BY <1>1
  <2>2. \A k \in 0..n : f[k] = IF k = 0 THEN << >>
              ELSE IF s[k].byte <= 1 THEN Append(f[k - 1], s[k].row) ELSE f[k - 1]
    BY <1>5, <1>6, <2>1 DEF Found, Follows
  <2>. QED
    BY <1>5, <2>2
<1>8. g = [k \in 0..n |-> IF k = 0 THEN << >>
              ELSE IF s[k].byte <= 1 THEN Append(g[k - 1], s[k].row) ELSE g[k - 1]]
  BY <1>7, Zenon DEF g
<1>9. \A k \in 0..n : g[k] = IF k = 0 THEN << >>
              ELSE IF s[k].byte <= 1 THEN Append(g[k - 1], s[k].row) ELSE g[k - 1]
  BY <1>8
<1>10. \A k \in 0..n : f[k] = g[k]
  <2>. DEFINE P == {k \in 0..n : f[k] = g[k]}
  <2>1. 0 \in P
    BY <1>1, <1>5, <1>9 DEF Follows
  <2>2. ASSUME NEW k \in 1..n, k - 1 \in P PROVE k \in P
    <3>1. k \in 0..n /\ k # 0 /\ f[k - 1] = g[k - 1]
      BY <1>1, <2>2
    <3>. QED
      BY <1>6, <1>9, <3>1 DEF Found
  <2>. HIDE DEF P
  <2>3. \A k \in 0..n : k \in P
    BY <1>1, <2>1, <2>2, UpFromZero
  <2>. QED
    BY <2>3 DEF P
<1>11. f[0] = << >> /\ f[n] = g[n]
  BY <1>1, <1>5, <1>10 DEF Follows
<1>12. Finds(s, f)
  BY <1>5, <1>6, <1>11 DEF Finds, n
<1>13. RowsOf(s) = f[Len(s)]
  BY <1>4, <1>11 DEF n
<1>. QED
  BY <1>12, <1>13

\* No cells, no rows.
LEMMA NoRows == RowsOf(<< >>) = << >>
<1>. DEFINE s == << >>
<1>1. s \in Seq(Cell) /\ Len(s) = 0
  OBVIOUS
<1>. HIDE DEF s
<1>2. PICK f : Finds(s, f) /\ RowsOf(s) = f[Len(s)]
  BY <1>1, FindsRows
<1>3. RowsOf(s) = << >>
  BY <1>1, <1>2 DEF Finds
<1>. QED
  BY <1>3 DEF s

\* A row that follows some cells is the last one found.
LEMMA RowFoundLast ==
    ASSUME NEW s \in Seq(Cell), NEW i \in Nat, NEW r \in Row
    PROVE  RowsOf(s \o RowBytes(i, r)) = Append(RowsOf(s), i) /\ RowsOf(s) \in Seq(Nat)
<1>. DEFINE n == Len(s)
            b == RowBytes(i, r)
            t == s \o b
            size == RowSize(r)
<1>1. b \in Seq(Cell) /\ Len(b) = size /\ \A k \in 1..size : b[k] = [row |-> i, byte |-> k]
  BY RowBytesType
<1>2. n \in Nat /\ size \in Nat \ {0}
  BY RowSizeType
<1>. HIDE DEF b, size
<1>3. /\ t \in Seq(Cell) /\ Len(t) = n + size /\ \A k \in 1..n : t[k] = s[k]
      /\ \A k \in 1..size : t[n + k] = [row |-> i, byte |-> k]
  <2>1. s \in Seq(Cell) /\ b \in Seq(Cell)
    BY <1>1
  <2>2. t \in Seq(Cell) /\ Len(t) = Len(s) + Len(b)
    BY <2>1, ConcatProperties
  <2>3. /\ \A k \in 1..Len(s) : t[k] = s[k]
        /\ \A k \in 1..Len(b) : t[Len(s) + k] = b[k]
    BY <2>1
  <2>. QED
    BY <1>1, <2>2, <2>3
<1>4. PICK f : Finds(s, f) /\ RowsOf(s) = f[n]
  BY FindsRows
<1>5. PICK g : Finds(t, g) /\ RowsOf(t) = g[Len(t)]
  BY <1>3, FindsRows
<1>. HIDE DEF n, t
<1>6. f[n] = g[n]
  <2>. DEFINE P == {k \in 0..n : f[k] = g[k]}
  <2>1. 0 \in P
    BY <1>2, <1>4, <1>5 DEF Finds
  <2>2. ASSUME NEW k \in 1..n, k - 1 \in P PROVE k \in P
    <3>1. k \in 1..n + size /\ f[k - 1] = g[k - 1] /\ s[k] = t[k] /\ k \in 0..n
      BY <1>2, <1>3, <2>2
    <3>2. f[k] = Found(s, k, f[k - 1]) /\ g[k] = Found(t, k, g[k - 1])
      BY <1>3, <1>4, <1>5, <3>1 DEF Finds, n
    <3>3. f[k] = g[k]
      BY <3>1, <3>2 DEF Found
    <3>. QED
      BY <3>1, <3>3
  <2>. HIDE DEF P
  <2>3. \A k \in 0..n : k \in P
    BY <1>2, <2>1, <2>2, UpFromZero
  <2>4. n \in P
    BY <1>2, <2>3
  <2>. QED
    BY <2>4 DEF P
<1>7. RowsOf(s) \in Seq(Nat)
  BY <1>2, <1>4 DEF Finds, n
<1>8. ASSUME NEW k \in 1..size
      PROVE  g[n + k] = IF k = 1 THEN Append(g[n], i) ELSE g[n + (k - 1)]
  <2>. DEFINE q == n + k
  <2>1. q \in 1..n + size /\ q - 1 = n + (k - 1)
    BY <1>2
  <2>2. t[q] = [row |-> i, byte |-> k]
    BY <1>3
  <2>. HIDE DEF q
  <2>3. g[q] = Found(t, q, g[q - 1])
    BY <1>3, <1>5, <2>1 DEF Finds
  <2>4. t[q].row = i /\ t[q].byte = k /\ (k <= 1 <=> k = 1)
    BY <1>2, <2>2
  <2>5. k = 1 => q - 1 = n
    BY <1>2, <2>1
  <2>. QED
    BY <2>1, <2>3, <2>4, <2>5 DEF Found, q
<1>9. g[n + size] = Append(g[n], i)
  <2>. DEFINE P == {k \in 0..size : k = 0 \/ g[n + k] = Append(g[n], i)}
  <2>1. 0 \in P
    BY <1>2
  <2>2. ASSUME NEW k \in 1..size, k - 1 \in P PROVE k \in P
    <3>1. k \in 0..size /\ (k # 1 => k - 1 # 0)
      BY <1>2
    <3>2. g[n + k] = Append(g[n], i)
      BY <1>8, <2>2, <3>1
    <3>. QED
      BY <3>1, <3>2
  <2>. HIDE DEF P
  <2>3. \A k \in 0..size : k \in P
    BY <1>2, <2>1, <2>2, UpFromZero
  <2>4. size \in P /\ size # 0
    BY <1>2, <2>3
  <2>. QED
    BY <2>4 DEF P
<1>. QED
  BY <1>3, <1>4, <1>5, <1>6, <1>7, <1>9 DEF t, b, n

\* f gives the rows in the first c chunks, for every c.
Gathers(file, f) ==
    /\ f \in [0..Len(file) -> Seq(Nat)] /\ f[0] = << >>
    /\ \A c \in 1..Len(file) : f[c] = f[c - 1] \o RowsOf(file[c])

\* Rows are found in every sequence of cells, as a sequence of numbers.
LEMMA RowsOfType ==
    ASSUME NEW s \in Seq(Cell)
    PROVE  RowsOf(s) \in Seq(Nat)
<1>1. PICK f : Finds(s, f) /\ RowsOf(s) = f[Len(s)]
  BY FindsRows
<1>2. Len(s) \in 0..Len(s)
  OBVIOUS
<1>. QED
  BY <1>1, <1>2 DEF Finds

\* And so is RowsOut(), chunk by chunk.
LEMMA GathersRows ==
    ASSUME NEW w \in WriteBuf
    PROVE  \E f : Gathers(w.file, f) /\ RowsOut(w) = f[Len(w.file)] \o RowsOf(w.buffer)
<1>. DEFINE file == w.file
            n == Len(file)
            F == [c \in 1..n |-> [out \in Seq(Nat) |-> out \o RowsOf(file[c])]]
            g == CHOOSE g : g = [c \in 0..n |->
                     IF c = 0 THEN << >> ELSE g[c - 1] \o RowsOf(file[c])]
<1>1. n \in Nat /\ << >> \in Seq(Nat) /\ file \in Seq(Seq(Cell))
  BY DEF WriteBuf
<1>2. \A c \in 1..n, out \in Seq(Nat) : out \o RowsOf(file[c]) \in Seq(Nat)
  <2>. SUFFICES ASSUME NEW c \in 1..n, NEW out \in Seq(Nat)
                PROVE  out \o RowsOf(file[c]) \in Seq(Nat)
    OBVIOUS
  <2>1. file[c] \in Seq(Cell)
    BY <1>1
  <2>2. RowsOf(file[c]) \in Seq(Nat)
    BY <2>1, RowsOfType
  <2>. QED
    BY <2>2, ConcatProperties
<1>3. F \in [1..n -> [Seq(Nat) -> Seq(Nat)]]
  BY <1>2
<1>4. RowsOut(w) = g[n] \o RowsOf(w.buffer)
  BY Zenon DEF RowsOut
<1>. HIDE DEF F, g
<1>5. PICK f \in [0..n -> Seq(Nat)] : Follows(n, << >>, F, f)
  <2>. HIDE DEF n
  <2>. QED
    BY <1>1, <1>3, StepByStep
<1>. HIDE DEF n, file
<1>6. \A c \in 1..n : f[c] = f[c - 1] \o RowsOf(file[c])
  <2>1. \A c \in 1..n : f[c - 1] \in Seq(Nat)
    <3>1. \A c \in 1..n : c - 1 \in 0..n
      BY <1>1
    <3>. QED
      BY <3>1
  <2>. QED
    BY <1>5, <2>1 DEF F, Follows
<1>7. f = [c \in 0..n |-> IF c = 0 THEN << >> ELSE f[c - 1] \o RowsOf(file[c])]
  <2>1. \A c \in 0..n : c # 0 => c \in 1..n
    BY <1>1
  <2>2. \A c \in 0..n : f[c] = IF c = 0 THEN << >> ELSE f[c - 1] \o RowsOf(file[c])
    BY <1>5, <1>6, <2>1 DEF Follows
  <2>. QED
    BY <1>5, <2>2
<1>8. g = [c \in 0..n |-> IF c = 0 THEN << >> ELSE g[c - 1] \o RowsOf(file[c])]
  BY <1>7, Zenon DEF g
<1>9. \A c \in 0..n : g[c] = IF c = 0 THEN << >> ELSE g[c - 1] \o RowsOf(file[c])
  BY <1>8
<1>10. \A c \in 0..n : f[c] = g[c]
  <2>. DEFINE P == {c \in 0..n : f[c] = g[c]}
  <2>1. 0 \in P
    BY <1>1, <1>5, <1>9 DEF Follows
  <2>2. ASSUME NEW c \in 1..n, c - 1 \in P PROVE c \in P
    <3>1. c \in 0..n /\ c # 0 /\ f[c - 1] = g[c - 1]
      BY <1>1, <2>2
    <3>. QED
      BY <1>6, <1>9, <3>1
  <2>. HIDE DEF P
  <2>3. \A c \in 0..n : c \in P
    BY <1>1, <2>1, <2>2, UpFromZero
  <2>. QED
    BY <2>3 DEF P
<1>. QED
  <2>1. Gathers(file, f)
    BY <1>5, <1>6 DEF Gathers, Follows, n
  <2>2. n \in 0..n
    BY <1>1
  <2>3. RowsOut(w) = f[n] \o RowsOf(w.buffer)
    BY <1>4, <1>10, <2>2
  <2>. QED
    BY <2>1, <2>3 DEF n, file

\* A file that goes on the same way has the same rows up to there.
LEMMA GathersSame ==
    ASSUME NEW file \in Seq(Seq(Cell)), NEW file2 \in Seq(Seq(Cell)), NEW n \in Nat,
           n <= Len(file), n <= Len(file2), \A c \in 1..n : file[c] = file2[c],
           NEW f, NEW g, Gathers(file, f), Gathers(file2, g)
    PROVE  f[n] = g[n]
<1>. DEFINE P == {c \in 0..n : f[c] = g[c]}
<1>0. Len(file) \in Nat /\ Len(file2) \in Nat
  OBVIOUS
<1>1. 0 \in P
  BY DEF Gathers
<1>2. ASSUME NEW c \in 1..n, c - 1 \in P PROVE c \in P
  <2>1. c \in 1..Len(file) /\ c \in 1..Len(file2) /\ f[c - 1] = g[c - 1] /\ c \in 0..n
    BY <1>0, <1>2
  <2>. QED
    BY <2>1 DEF Gathers
<1>. HIDE DEF P
<1>3. \A c \in 0..n : c \in P
  BY <1>1, <1>2, UpFromZero
<1>4. n \in P
  BY <1>3
<1>. QED
  BY <1>4 DEF P

\* A flush neither adds nor loses a row.
LEMMA FlushedRows ==
    ASSUME NEW w \in WriteBuf
    PROVE  RowsOut(WriteFlush(w)) = RowsOut(w) /\ WriteFlush(w) \in WriteBuf
<1>1. CASE w.buffer = << >>
  BY <1>1 DEF WriteFlush
<1>2. CASE w.buffer # << >>
  <2>. DEFINE v == WriteFlush(w)
              file == w.file
              file2 == Append(w.file, w.buffer)
              n == Len(w.file)
  <2>1. /\ file \in Seq(Seq(Cell)) /\ w.buffer \in Seq(Cell) /\ n \in Nat
        /\ file2 \in Seq(Seq(Cell)) /\ Len(file2) = n + 1
        /\ \A c \in 1..n : file[c] = file2[c]
        /\ file2[n + 1] = w.buffer
    BY DEF WriteBuf
  <2>2. v \in WriteBuf /\ v.file = file2 /\ v.buffer = << >>
    BY <1>2, <2>1 DEF WriteFlush, WriteBuf
  <2>. HIDE DEF v
  <2>3. PICK f : Gathers(file, f) /\ RowsOut(w) = f[n] \o RowsOf(w.buffer)
    BY GathersRows
  <2>4. PICK g : Gathers(file2, g) /\ RowsOut(v) = g[n + 1] \o << >>
    <3>1. PICK g : Gathers(v.file, g) /\ RowsOut(v) = g[Len(v.file)] \o RowsOf(v.buffer)
      BY <2>2, GathersRows
    <3>. QED
      BY <2>1, <2>2, <3>1, NoRows
  <2>. HIDE DEF file, file2, n
  <2>5. f[n] = g[n]
    <3>1. n <= Len(file) /\ n <= Len(file2)
      BY <2>1 DEF n, file
    <3>. QED
      BY <2>1, <2>3, <2>4, <3>1, GathersSame
  <2>6. n + 1 \in 1..Len(file2) /\ n + 1 \in 0..Len(file2) /\ (n + 1) - 1 = n
    BY <2>1
  <2>7. g[n + 1] = g[n] \o RowsOf(w.buffer) /\ g[n + 1] \in Seq(Nat)
    BY <2>1, <2>4, <2>6 DEF Gathers
  <2>8. g[n + 1] \o << >> = g[n + 1]
    BY <2>7
  <2>9. RowsOut(v) = RowsOut(w)
    BY <2>3, <2>4, <2>5, <2>7, <2>8
  <2>. QED
    BY <2>2, <2>9 DEF v
<1>. QED
  BY <1>1, <1>2

\* Dumping a row adds it.
LEMMA DumpedRow ==
    ASSUME NEW w \in WriteBuf, NEW i \in Nat, NEW r \in Row
    PROVE  /\ Dump(w, i, r) \in WriteBuf /\ RowsOut(w) \in Seq(Nat)
           /\ RowsOut(Dump(w, i, r)) = Append(RowsOut(w), i)
<1>. DEFINE v == WriteStart(w, RowSize(r))
            b == RowBytes(i, r)
            t == v.buffer \o b
            d == Dump(w, i, r)
            n == Len(v.file)
<1>1. v \in WriteBuf /\ RowsOut(v) = RowsOut(w)
  BY FlushedRows DEF WriteStart
<1>. HIDE DEF v
<1>2. v.buffer \in Seq(Cell) /\ v.file \in Seq(Seq(Cell)) /\ n \in Nat
  BY <1>1 DEF WriteBuf
<1>3. b \in Seq(Cell)
  BY RowBytesType
<1>4. RowsOf(t) = Append(RowsOf(v.buffer), i) /\ RowsOf(v.buffer) \in Seq(Nat)
  BY <1>2, RowFoundLast
<1>. HIDE DEF b
<1>5. t \in Seq(Cell)
  BY <1>2, <1>3, ConcatProperties
<1>. HIDE DEF t
<1>6. d = [v EXCEPT !.buffer = t]
  BY DEF Dump, WriteBytes, v, t, b
<1>7. d \in WriteBuf /\ d.file = v.file /\ d.buffer = t
  BY <1>1, <1>5, <1>6 DEF WriteBuf
<1>. HIDE DEF d
<1>8. PICK f : Gathers(v.file, f) /\ RowsOut(v) = f[n] \o RowsOf(v.buffer)
  BY <1>1, GathersRows
<1>9. PICK g : Gathers(v.file, g) /\ RowsOut(d) = g[n] \o RowsOf(t)
  BY <1>7, GathersRows
<1>10. f[n] = g[n] /\ f[n] \in Seq(Nat)
  <2>1. n <= Len(v.file) /\ n \in 0..Len(v.file)
    BY <1>2
  <2>2. f[n] \in Seq(Nat)
    BY <1>8, <2>1 DEF Gathers
  <2>. HIDE DEF n
  <2>. QED
    BY <1>2, <1>8, <1>9, <2>1, <2>2, GathersSame
<1>. DEFINE a == f[n]
            c == RowsOf(v.buffer)
<1>11. a \in Seq(Nat) /\ c \in Seq(Nat)
  BY <1>4, <1>10
<1>12. RowsOut(w) = a \o c /\ RowsOut(d) = a \o Append(c, i)
  BY <1>1, <1>4, <1>8, <1>9, <1>10
<1>. HIDE DEF a, c
<1>13. a \o Append(c, i) = Append(a \o c, i) /\ a \o c \in Seq(Nat)
  BY <1>11
<1>. QED
  BY <1>7, <1>12, <1>13 DEF d

-----------------------------------------------------------------------------
\* What load_next() returned is row n, in a chunk of the file, and the buffer
\* points at its columns.
Points(rows, file, rb, n) ==
    /\ rb.next \in 1..Len(file) /\ rb.buffer = file[rb.next]
    /\ \E p \in Nat : RowAt(rows, rb.buffer, p, n) /\ rb.at = p + HeaderSize(rows[n])

\* After a row was loaded the read buffer points to it.
LEMMA LoadPointsIn ==
    ASSUME NEW rows, NEW file, NEW lo \in Nat \ {0}, NEW hi \in 0..Len(rows),
           HoldsRows(rows, file, lo, hi), NEW rb \in ReadBuf, ~rb.dead,
           rb.next \in 0..Len(file), rb.next # 0 => rb.buffer = file[rb.next],
           NEW n \in 1..hi, UpcomingTo(rows, file, rb, hi, n)
    PROVE  LET l == LoadNext(rb, rows, file)
           IN  Points(rows, file, l.rbuf, n) /\ l.rbuf.next \in {rb.next, rb.next + 1}
<1>. DEFINE l == LoadNext(rb, rows, file)
            header == HeaderSize(rows[n])
<1>0. /\ rows \in Seq(Row) /\ rb.dead = FALSE /\ n \in Nat /\ hi \in Nat /\ n <= hi
      /\ rows[n] \in Row
  BY DEF HoldsRows, ReadBuf
<1>1. header \in Nat /\ RowSize(rows[n]) \in Int /\ rows[n].data \in Int
  BY <1>0, RowSizeType, SMTT(30)
<1>. HIDE DEF header
<1>2. ASSUME NEW b \in ReadBuf, NEW p \in Nat PROVE
        /\ AfterRow(b, rows[n], p).at = p + header
        /\ AfterRow(b, rows[n], p).buffer = b.buffer /\ AfterRow(b, rows[n], p).next = b.next
  <2>1. p + header \in Int /\ p + RowSize(rows[n]) \in Int
    BY <1>1
  <2>. QED
    BY <1>1, <2>1, AdvanceType, SMTT(30) DEF AfterRow, header
<1>3. CASE rb.offset = rb.chunk_size
  <2>. DEFINE c == file[rb.next + 1]
              f == Fetch(rb, c)
  <2>1. rb.next # Len(file) /\ n = FirstRow(c)
    <3>1. n # hi + 1
      BY <1>0
    <3>. QED
      BY <1>3, <3>1 DEF UpcomingTo
  <2>2. rb.next + 1 \in 1..Len(file) /\ rb.next < Len(file) /\ file \in Seq(Seq(Cell)) /\ rb.next + 1 # 0
    BY <2>1, SMTT(30) DEF HoldsRows
  <2>3. c \in Seq(Cell) /\ Chunk(rows, c)
    BY <2>2, FileParts
  <2>4. NextRow(rows, rb, file, n)
    BY <1>0, <1>3, <2>1, <2>2, <2>3 DEF NextRow
  <2>5. RowAt(rows, c, 0, n) /\ l = Loaded(AfterRow(f, rows[n], 0), n, "row")
    BY <1>0, <2>4, LoadNextRow
  <2>6. f \in ReadBuf /\ f.buffer = c /\ f.next = rb.next + 1
    BY <2>3, FetchType
  <2>. HIDE DEF l, c, f
  <2>7. l.rbuf = AfterRow(f, rows[n], 0)
    BY <2>5 DEF Loaded
  <2>8. l.rbuf.at = 0 + header /\ l.rbuf.buffer = c /\ l.rbuf.next = rb.next + 1
    BY <1>2, <2>6, <2>7
  <2>. QED
    BY <2>2, <2>5, <2>8 DEF Points, l, c, header
<1>4. CASE rb.offset # rb.chunk_size
  <2>1. HeldRow(rows, rb, n) /\ rb.next # 0
    BY <1>4 DEF UpcomingTo
  <2>2. RowAt(rows, rb.buffer, rb.offset, n) /\ l = Loaded(AfterRow(rb, rows[n], rb.offset), n, "row")
    BY <1>0, <2>1, LoadHeldRow
  <2>3. rb.offset \in Nat
    BY <2>1 DEF HeldRow
  <2>. HIDE DEF l
  <2>4. l.rbuf = AfterRow(rb, rows[n], rb.offset)
    BY <2>2 DEF Loaded
  <2>5. l.rbuf.at = rb.offset + header /\ l.rbuf.buffer = rb.buffer /\ l.rbuf.next = rb.next
    BY <1>2, <2>3, <2>4
  <2>6. rb.next \in 1..Len(file)
    BY <2>1 DEF HoldsRows
  <2>. QED
    BY <2>1, <2>2, <2>3, <2>5, <2>6 DEF Points, l, header
<1>. QED
  BY <1>3, <1>4

\* And for a file of all the rows.
LEMMA LoadPoints ==
    ASSUME NEW rows, NEW file, WholeFile(rows, file), NEW rb \in ReadBuf, ~rb.dead,
           rb.next \in 0..Len(file), rb.next # 0 => rb.buffer = file[rb.next],
           NEW n \in 1..Len(rows), Upcoming(rows, file, rb, n)
    PROVE  LET l == LoadNext(rb, rows, file)
           IN  Points(rows, file, l.rbuf, n) /\ l.rbuf.next \in {rb.next, rb.next + 1}
BY WholeHolds, LoadPointsIn DEF Upcoming

\* The raw row of a row that is in the buffer shows that row.
LEMMA RawShowsRow ==
    ASSUME NEW rows \in Seq(Row), NEW rb \in ReadBuf, NEW meta, NEW n \in Nat, NEW p \in Nat,
           RowAt(rows, rb.buffer, p, n), rb.at = p + HeaderSize(rows[n])
    PROVE  LET raw == RowToRaw(meta, rb, rows)
           IN  /\ raw.meta = meta
               /\ ShowsRow(raw, rb.buffer, rows) /\ RawRow(raw, rb.buffer) = n
<1>. DEFINE raw == RowToRaw(meta, rb, rows)
            b == rb.buffer
            r == rows[n]
            header == HeaderSize(r)
            size == RowSize(r)
<1>1. /\ n \in 1..Len(rows) /\ p + size <= Len(b) /\ b \in Seq(Cell) /\ Len(b) \in Nat
      /\ \A k \in 1..size : b[p + k] = [row |-> n, byte |-> k]
  BY DEF RowAt, ReadBuf
<1>2. /\ r \in Row /\ header \in Nat /\ size \in Nat /\ r.data \in Nat /\ size = header + r.data
      /\ r.data >= 1
  BY <1>1, RowSizeType
<1>3. rb.at = p + header
  OBVIOUS
<1>. HIDE DEF header, size, r, b
<1>4. header + 1 \in 1..size
  BY <1>2
<1>5. FirstCell(rb).row = n
  <2>1. (p + header) + 1 = p + (header + 1)
    BY <1>2
  <2>2. b[p + (header + 1)] = [row |-> n, byte |-> header + 1]
    BY <1>1, <1>4
  <2>. QED
    BY <1>3, <2>1, <2>2 DEF FirstCell, b
<1>6. raw = [meta |-> meta, header |-> p, header_size |-> header, buffer_size |-> r.data]
  <2>1. rb.at - header = p
    BY <1>2, <1>3
  <2>. QED
    BY <1>5, <2>1 DEF RowToRaw, r, header
<1>. HIDE DEF raw
<1>7. raw.meta = meta /\ raw.header = p /\ raw.header_size = header /\ raw.buffer_size = r.data
  BY <1>6
<1>8. \A k \in 1..size : CellAt(b, p + k) = [row |-> n, byte |-> k]
  <2>1. \A k \in 1..size : p + k \in 1..Len(b)
    BY <1>1, <1>2
  <2>. QED
    BY <1>1, <2>1 DEF CellAt
<1>9. RawBytes(raw, b) = RowBytes(n, r)
  BY <1>2, <1>7, <1>8 DEF RawBytes, RowBytes, size
<1>10. RawRow(raw, b) = n
  <2>1. (p + header) + 1 = p + (header + 1)
    BY <1>2
  <2>2. CellAt(b, p + (header + 1)) = [row |-> n, byte |-> header + 1]
    BY <1>4, <1>8
  <2>. QED
    BY <1>7, <2>1, <2>2 DEF RawRow
<1>. QED
  BY <1>1, <1>7, <1>9, <1>10 DEF ShowsRow, raw, b, r

\* A raw row of a row in a buffer has numbers for its parts.
LEMMA RowToRawType ==
    ASSUME NEW rows \in Seq(Row), NEW rb \in ReadBuf, NEW meta \in Nat, NEW n \in Nat, NEW p \in Nat,
           RowAt(rows, rb.buffer, p, n), rb.at = p + HeaderSize(rows[n])
    PROVE  RowToRaw(meta, rb, rows) \in RawRows
<1>. DEFINE b == rb.buffer
            header == HeaderSize(rows[n])
<1>1. rows[n] \in Row /\ header \in Nat /\ rows[n].data \in Nat /\ RowSize(rows[n]) = header + rows[n].data
      /\ rows[n].data >= 1
  <2>1. rows[n] \in Row
    BY DEF RowAt
  <2>. QED
    BY <2>1, RowSizeType
<1>2. FirstCell(rb).row = n
  <2>1. header + 1 \in 1..RowSize(rows[n]) /\ (p + header) + 1 = p + (header + 1)
    BY <1>1
  <2>2. b[p + (header + 1)] = [row |-> n, byte |-> header + 1]
    BY <2>1 DEF RowAt
  <2>. HIDE DEF header
  <2>3. rb.at = p + header
    BY DEF header
  <2>. QED
    BY <2>1, <2>2, <2>3 DEF FirstCell
<1>3. rb.at - header \in Int
  BY <1>1
<1>4. RowToRaw(meta, rb, rows) = [meta |-> meta, header |-> rb.at - header, header_size |-> header,
                                  buffer_size |-> rows[n].data]
  BY <1>2 DEF RowToRaw
<1>. HIDE DEF header
<1>. QED
  BY <1>1, <1>3, <1>4 DEF RawRows

\* To dump a raw row that shows a row is to dump that row.
LEMMA DumpRawIsDump ==
    ASSUME NEW rows \in Seq(Row), NEW w, NEW raw, NEW buffer, ShowsRow(raw, buffer, rows)
    PROVE  LET i == RawRow(raw, buffer)
           IN  i \in 1..Len(rows) /\ DumpRaw(w, raw, buffer) = Dump(w, i, rows[i])
<1>. DEFINE i == RawRow(raw, buffer)
<1>1. i \in 1..Len(rows) /\ RawBytes(raw, buffer) = RowBytes(i, rows[i])
  BY DEF ShowsRow
<1>2. i \in Nat /\ rows[i] \in Row
  BY <1>1
<1>. HIDE DEF i
<1>3. Len(RowBytes(i, rows[i])) = RowSize(rows[i])
  BY <1>2, RowBytesType
<1>4. DumpRaw(w, raw, buffer) = Dump(w, i, rows[i])
  BY <1>1, <1>3 DEF DumpRaw, Dump
<1>. QED
  BY <1>1, <1>4 DEF i

-----------------------------------------------------------------------------
\* Whole rows followed by a whole row are whole rows.
LEMMA WholeRowsJoin ==
    ASSUME NEW rows \in Seq(Row), NEW s \in Seq(Cell), WholeRows(rows, s), NEW i \in 1..Len(rows)
    PROVE  WholeRows(rows, s \o RowBytes(i, rows[i])) /\ s \o RowBytes(i, rows[i]) \in Seq(Cell)
<1>. DEFINE b == RowBytes(i, rows[i])
            t == s \o b
            n == Len(s)
            size == RowSize(rows[i])
<1>1. i \in Nat /\ rows[i] \in Row /\ Len(rows) \in Nat
  OBVIOUS
<1>2. b \in Seq(Cell) /\ Len(b) = size /\ \A k \in 1..size : b[k] = [row |-> i, byte |-> k]
  BY <1>1, RowBytesType
<1>3. n \in Nat /\ size \in Nat
  BY <1>1, RowSizeType
<1>. HIDE DEF b, size
<1>4. t \in Seq(Cell) /\ Len(t) = n + size
  <2>1. t \in Seq(Cell) /\ Len(t) = Len(s) + Len(b)
    BY <1>2, ConcatProperties
  <2>. QED
    BY <1>2, <2>1
<1>5. /\ \A k \in 1..n : t[k] = s[k]
      /\ \A k \in 1..size : t[n + k] = [row |-> i, byte |-> k]
  BY <1>2
<1>. HIDE DEF t, n
<1>6. ASSUME NEW q \in 1..Len(t)
      PROVE  LET j == t[q].row
                 start == q - t[q].byte
             IN  /\ j \in 1..Len(rows)
                 /\ t[q].byte \in 1..RowSize(rows[j])
                 /\ start >= 0 /\ start + RowSize(rows[j]) <= Len(t)
                 /\ \A k \in 1..RowSize(rows[j]) : t[start + k] = [row |-> j, byte |-> k]
  <2>1. CASE q <= n
    <3>. DEFINE j == s[q].row
                start == q - s[q].byte
                z == RowSize(rows[j])
    <3>1. q \in 1..n /\ t[q] = s[q]
      BY <1>3, <1>4, <1>5, <2>1
    <3>2. /\ j \in 1..Len(rows) /\ s[q].byte \in 1..z
          /\ start >= 0 /\ start + z <= n
          /\ \A k \in 1..z : s[start + k] = [row |-> j, byte |-> k]
      BY <3>1 DEF WholeRows, n
    <3>3. z \in Nat /\ start \in Int
      <4>1. rows[j] \in Row
        BY <3>2
      <4>2. z \in Nat
        BY <4>1, RowSizeType
      <4>. HIDE DEF z
      <4>. QED
        BY <1>4, <3>2, <4>2
    <3>. HIDE DEF start, z
    <3>4. start + z <= Len(t)
      BY <1>3, <1>4, <3>2, <3>3
    <3>5. \A k \in 1..z : t[start + k] = [row |-> j, byte |-> k]
      <4>1. \A k \in 1..z : start + k \in 1..n
        BY <1>3, <3>2, <3>3
      <4>. QED
        BY <1>5, <3>2, <4>1
    <3>. QED
      BY <3>1, <3>2, <3>4, <3>5 DEF start, z
  <2>2. CASE ~(q <= n)
    <3>. DEFINE k0 == q - n
    <3>1. k0 \in 1..size /\ n + k0 = q /\ q - k0 = n
      BY <1>3, <1>4, <2>2
    <3>. HIDE DEF k0
    <3>2. t[q] = [row |-> i, byte |-> k0]
      BY <1>5, <3>1
    <3>3. t[q].row = i /\ t[q].byte = k0 /\ q - t[q].byte = n
      BY <3>1, <3>2
    <3>4. n >= 0 /\ n + size <= Len(t)
      BY <1>3, <1>4
    <3>. QED
      BY <1>5, <3>1, <3>3, <3>4 DEF size
  <2>. QED
    BY <2>1, <2>2
<1>7. WholeRows(rows, t)
  BY <1>6 DEF WholeRows
<1>. QED
  BY <1>4, <1>7 DEF t, b

\* At first nothing is written.
LEMMA NothingOut ==
    ASSUME NEW rows
    PROVE  WholeOutput(rows, WbufInit) /\ RowsOut(WbufInit) = << >>
<1>. DEFINE w == WbufInit
<1>1. w.file = << >> /\ w.buffer = << >> /\ w \in WriteBuf
  BY DEF WbufInit, WriteBuf
<1>. HIDE DEF w
<1>2. WholeOutput(rows, w)
  BY <1>1 DEF WholeOutput, WholeRows
<1>3. PICK f : Gathers(w.file, f) /\ RowsOut(w) = f[Len(w.file)] \o RowsOf(w.buffer)
  BY <1>1, GathersRows
<1>4. f[0] = << >> /\ Len(w.file) = 0 /\ RowsOf(w.buffer) = << >>
  BY <1>1, <1>3, NoRows DEF Gathers
<1>5. RowsOut(w) = << >>
  BY <1>3, <1>4
<1>. QED
  BY <1>2, <1>5 DEF w

\* A flush leaves whole rows whole, and nothing in the buffer.
LEMMA FlushWholeRows ==
    ASSUME NEW rows, NEW w, WholeOutput(rows, w)
    PROVE  WholeOutput(rows, WriteFlush(w)) /\ WriteFlush(w).buffer = << >>
<1>1. CASE w.buffer = << >>
  BY <1>1 DEF WriteFlush
<1>2. CASE w.buffer # << >>
  <2>. DEFINE v == WriteFlush(w)
              file2 == Append(w.file, w.buffer)
              n == Len(w.file)
  <2>1. /\ n \in Nat /\ file2 \in Seq(Seq(Cell)) /\ Len(file2) = n + 1
        /\ \A c \in 1..n : w.file[c] = file2[c]
        /\ file2[n + 1] = w.buffer
    BY DEF WriteBuf, WholeOutput
  <2>. HIDE DEF file2
  <2>2. v \in WriteBuf /\ v.file = file2 /\ v.buffer = << >>
    BY <1>2, <2>1 DEF WriteFlush, WriteBuf, file2
  <2>. HIDE DEF v
  <2>3. WholeRows(rows, << >>)
    BY DEF WholeRows
  <2>4. \A c \in 1..Len(file2) : WholeRows(rows, file2[c])
    <3>1. \A c \in 1..n : WholeRows(rows, w.file[c])
      BY DEF WholeOutput
    <3>2. WholeRows(rows, w.buffer)
      BY DEF WholeOutput
    <3>. HIDE DEF n
    <3>3. \A c \in 1..n + 1 : c \in 1..n \/ c = n + 1
      BY <2>1
    <3>. QED
      BY <2>1, <3>1, <3>2, <3>3
  <2>. QED
    BY <2>2, <2>3, <2>4 DEF WholeOutput, v
<1>. QED
  BY <1>1, <1>2

\* A raw row that shows a row adds that row to what was written, whole.
LEMMA DumpRawResult ==
    ASSUME NEW rows \in Seq(Row), NEW w, WholeOutput(rows, w),
           NEW raw, NEW buffer, ShowsRow(raw, buffer, rows)
    PROVE  LET v == DumpRaw(w, raw, buffer)
           IN  /\ WholeOutput(rows, v) /\ RowsOut(w) \in Seq(Nat)
               /\ RowsOut(v) = Append(RowsOut(w), RawRow(raw, buffer))
<1>. DEFINE i == RawRow(raw, buffer)
            s == WriteStart(w, RowSize(rows[i]))
            t == s.buffer \o RowBytes(i, rows[i])
            v == Dump(w, i, rows[i])
<1>1. i \in 1..Len(rows) /\ DumpRaw(w, raw, buffer) = v
  BY DumpRawIsDump
<1>. HIDE DEF i
<1>2. i \in Nat /\ rows[i] \in Row /\ w \in WriteBuf
  BY <1>1 DEF WholeOutput
<1>3. v \in WriteBuf /\ RowsOut(w) \in Seq(Nat) /\ RowsOut(v) = Append(RowsOut(w), i)
  BY <1>2, DumpedRow
<1>4. WholeOutput(rows, s)
  BY FlushWholeRows DEF WriteStart
<1>. HIDE DEF s
<1>5. s \in WriteBuf /\ s.buffer \in Seq(Cell) /\ WholeRows(rows, s.buffer)
  BY <1>4 DEF WholeOutput, WriteBuf
<1>6. WholeRows(rows, t) /\ t \in Seq(Cell)
  BY <1>1, <1>5, WholeRowsJoin
<1>. HIDE DEF t
<1>7. v = [s EXCEPT !.buffer = t]
  BY DEF Dump, WriteBytes, s, t
<1>8. v.buffer = t /\ v.file = s.file
  BY <1>5, <1>7 DEF WriteBuf
<1>. HIDE DEF v
<1>9. WholeOutput(rows, v)
  BY <1>3, <1>4, <1>6, <1>8 DEF WholeOutput
<1>. QED
  BY <1>1, <1>3, <1>9 DEF i

-----------------------------------------------------------------------------
\* The numbers from a to b, as a sequence.
Numbers(a, b) == [k \in 1..b + 1 - a |-> a + k - 1]

\* Sequences of numbers that continue each other.
LEMMA NumbersJoin ==
    ASSUME NEW a \in Nat, NEW b \in Int, NEW c \in Int, a <= b + 1, b <= c
    PROVE  /\ Numbers(a, b) \in Seq(Nat) /\ Len(Numbers(a, b)) = b + 1 - a
           /\ Numbers(a, b) \o Numbers(b + 1, c) = Numbers(a, c)
<1>1. b + 1 - a \in Nat /\ c - b \in Nat /\ c + 1 - a \in Nat
  OBVIOUS
<1>2. \A k \in 1..b + 1 - a : a + k - 1 \in Nat
  OBVIOUS
<1>3. Numbers(a, b) \in Seq(Nat) /\ Len(Numbers(a, b)) = b + 1 - a
  BY <1>1, <1>2 DEF Numbers
<1>4. \A k \in 1..c + 1 - (b + 1) : (b + 1) + k - 1 \in Nat
  BY <1>1
<1>5. Numbers(b + 1, c) \in Seq(Nat) /\ Len(Numbers(b + 1, c)) = c - b
  BY <1>1, <1>4 DEF Numbers
<1>6. \A k \in 1..c + 1 - a : a + k - 1 \in Nat
  OBVIOUS
<1>7. Numbers(a, c) \in Seq(Nat) /\ Len(Numbers(a, c)) = c + 1 - a
  BY <1>1, <1>6 DEF Numbers
<1>8. LET s == Numbers(a, b) \o Numbers(b + 1, c)
      IN  s \in Seq(Nat) /\ Len(s) = c + 1 - a /\ \A k \in 1..Len(s) : s[k] = Numbers(a, c)[k]
  <2>. DEFINE s == Numbers(a, b) \o Numbers(b + 1, c)
  <2>1. s \in Seq(Nat) /\ Len(s) = c + 1 - a
    BY <1>1, <1>3, <1>5, SMTT(30)
  <2>2. ASSUME NEW k \in 1..c + 1 - a PROVE s[k] = Numbers(a, c)[k]
    <3>1. CASE k <= b + 1 - a
      <4>1. s[k] = Numbers(a, b)[k]
        BY <1>1, <1>3, <1>5, <3>1
      <4>. QED
        BY <4>1, <1>1, <3>1 DEF Numbers
    <3>2. CASE k > b + 1 - a
      <4>1. s[k] = Numbers(b + 1, c)[k - (b + 1 - a)]
        BY <1>1, <1>3, <1>5, <3>2
      <4>2. k - (b + 1 - a) \in 1..c + 1 - (b + 1)
        BY <1>1, <3>2
      <4>3. Numbers(b + 1, c)[k - (b + 1 - a)] = (b + 1) + (k - (b + 1 - a)) - 1
        BY <4>2 DEF Numbers
      <4>. QED
        BY <4>1, <4>3, <1>1 DEF Numbers
    <3>. HIDE DEF s
    <3>3. k <= b + 1 - a \/ k > b + 1 - a
      BY <1>1
    <3>. QED
      BY <3>1, <3>2, <3>3, Zenon
  <2>. QED
    BY <2>1, <2>2
<1>. QED
  BY <1>3, <1>7, <1>8, SeqEqual

\* A cell of a block starts the row after that of the cell before it, or
\* belongs to the same row.
LEMMA NextCell ==
    ASSUME NEW rows \in Seq(Row), NEW s \in Seq(Cell), Block(rows, s), NEW k \in 1..Len(s) - 1
    PROVE  IF s[k + 1].byte = 1 THEN s[k + 1].row = s[k].row + 1
           ELSE s[k + 1].byte > 1 /\ s[k + 1].row = s[k].row
<1>. DEFINE i == s[k].row
            b == s[k].byte
<1>1. k \in 1..Len(s) /\ k + 1 \in 1..Len(s) /\ s[k] \in Cell /\ s[k + 1] \in Cell
  OBVIOUS
<1>2. /\ i \in 1..Len(rows) /\ b \in 1..RowSize(rows[i])
      /\ \A q \in 1..RowSize(rows[i]) : s[(k - b) + q] = [row |-> i, byte |-> q]
  BY <1>1, Zenon DEF Block, WholeRows
<1>3. RowSize(rows[i]) \in Nat /\ b \in Nat /\ i \in Nat
  BY <1>2, RowSizePositive
<1>4. CASE b = RowSize(rows[i])
  <2>1. s[k + 1] = [row |-> i + 1, byte |-> 1]
    BY <1>4, Zenon DEF Block, Consecutive
  <2>. QED
    BY <2>1
<1>5. CASE b # RowSize(rows[i])
  <2>1. b + 1 \in 1..RowSize(rows[i]) /\ (k - b) + (b + 1) = k + 1
    BY <1>2, <1>3, <1>5
  <2>2. s[(k - b) + (b + 1)] = [row |-> i, byte |-> b + 1]
    BY <1>2, <2>1, Zenon
  <2>3. s[k + 1] = [row |-> i, byte |-> b + 1]
    BY <2>1, <2>2, Zenon
  <2>. QED
    BY <2>3, <1>2, <1>3
<1>. QED
  BY <1>4, <1>5

\* The rows found in a block are numbered from its first to its last.
LEMMA BlockRowsFound ==
    ASSUME NEW rows \in Seq(Row), NEW s \in Seq(Cell), Block(rows, s)
    PROVE  RowsOf(s) = Numbers(FirstRow(s), LastRow(s))
<1>1. PICK f : Finds(s, f) /\ RowsOf(s) = f[Len(s)]
  BY FindsRows
<1>. DEFINE a == FirstRow(s)
            n == Len(s) - 1
            P == {k \in 0..n : f[k + 1] = Numbers(a, s[k + 1].row)}
<1>. HIDE DEF P
<1>2. Len(s) \in Nat \ {0} /\ a \in Nat /\ s[1] = [row |-> a, byte |-> 1]
  <2>1. Len(s) \in Nat \ {0} /\ a \in 1..Len(rows) /\ s[1] = [row |-> a, byte |-> 1]
    BY BlockEnds, Zenon
  <2>. QED
    BY <2>1
<1>3. \A k \in 1..Len(s) : s[k] \in Cell /\ s[k].row \in Nat /\ a <= s[k].row
  <2>1. \A k \in 1..Len(s) : s[k] \in Cell
    OBVIOUS
  <2>2. \A k \in 1..Len(s) : s[1].row <= s[k].row
    BY RowsRise, <1>2
  <2>. QED
    BY <2>1, <2>2 DEF FirstRow, Cell
<1>4. 0 \in P
  <2>1. f[1] = Found(s, 1, f[0]) /\ f[0] = << >>
    BY <1>1, <1>2 DEF Finds
  <2>2. f[1] = Append(<< >>, a)
    BY <2>1, <1>2 DEF Found
  <2>3. Numbers(a, a) = <<a>>
    <3>1. a + 1 - a = 1 /\ a + 1 - 1 = a
      BY <1>2
    <3>2. Numbers(a, a) = [k \in 1..1 |-> a + k - 1]
      BY <3>1 DEF Numbers
    <3>. QED
      BY <3>1, <3>2
  <2>4. 0 \in 0..n /\ 0 + 1 = 1 /\ s[1].row = a
    BY <1>2
  <2>. QED
    BY <2>2, <2>3, <2>4 DEF P
<1>5. ASSUME NEW k \in 1..n, k - 1 \in P PROVE k \in P
  <2>1. k \in 1..Len(s) - 1 /\ k + 1 \in 1..Len(s) /\ k \in 1..Len(s) /\ (k - 1) + 1 = k /\ k \in 0..n
    BY <1>2
  <2>2. f[k] = Numbers(a, s[k].row)
    BY <1>5, <2>1 DEF P
  <2>3. f[k + 1] = Found(s, k + 1, f[k])
    <3>1. f[k + 1] = Found(s, k + 1, f[(k + 1) - 1])
      BY <1>1, <2>1, Zenon DEF Finds
    <3>. QED
      BY <3>1, <2>1
  <2>4. s[k].row \in Nat /\ a <= s[k].row /\ s[k + 1].row \in Nat
    BY <1>3, <2>1
  <2>5. CASE s[k + 1].byte = 1
    <3>1. s[k + 1].row = s[k].row + 1
      BY <2>1, <2>5, NextCell
    <3>. DEFINE b == s[k].row
    <3>2. f[k + 1] = Append(Numbers(a, b), b + 1)
      BY <2>2, <2>3, <2>5, <3>1 DEF Found
    <3>3. Append(Numbers(a, b), b + 1) = Numbers(a, b + 1)
      <4>. HIDE DEF b
      <4>1. b \in Nat /\ a <= b /\ a \in Nat
        BY <2>4, <1>2 DEF b
      <4>. HIDE DEF a
      <4>2. b + 1 - a \in Nat /\ (b + 1) + 1 - a = (b + 1 - a) + 1
        BY <4>1
      <4>3. \A q \in 1..b + 1 - a : a + q - 1 \in Nat
        BY <4>1
      <4>4. Append([q \in 1..b + 1 - a |-> a + q - 1], b + 1) = [q \in 1..(b + 1 - a) + 1 |-> a + q - 1]
        BY <4>1, <4>2, <4>3
      <4>. QED
        BY <4>2, <4>4 DEF Numbers
    <3>. QED
      BY <2>1, <3>1, <3>2, <3>3 DEF P
  <2>6. CASE s[k + 1].byte # 1
    <3>1. s[k + 1].byte > 1 /\ s[k + 1].row = s[k].row
      BY <2>1, <2>6, NextCell
    <3>2. s[k + 1].byte \in Nat /\ ~(s[k + 1].byte <= 1)
      BY <3>1, <1>3, <2>1 DEF Cell
    <3>3. f[k + 1] = f[k]
      BY <2>3, <3>2 DEF Found
    <3>. QED
      BY <2>1, <2>2, <3>1, <3>3 DEF P
  <2>. QED
    BY <2>5, <2>6
<1>6. n \in Nat
  BY <1>2
<1>7. \A k \in 0..n : k \in P
  <2>. HIDE DEF n
  <2>. QED
    BY <1>4, <1>5, <1>6, UpFromZero
<1>8. n \in P /\ n + 1 = Len(s)
  BY <1>6, <1>7, <1>2
<1>9. f[Len(s)] = Numbers(a, s[Len(s)].row)
  BY <1>8 DEF P
<1>. QED
  BY <1>9, <1>1 DEF LastRow
=============================================================================
