--------------------------- MODULE BsvTopNProofs ----------------------------
(***************************************************************************)
(* IInv is an inductive invariant of BsvTopN for every N, every factor and *)
(* every input: cutting the heap back frees no row that is still needed,   *)
(* and what is written are the best rows, the best first.                  *)
(***************************************************************************)
EXTENDS BsvTopN, BsvRowProofs

\* The ranks of rows, and what can be a heap of them.
LEMMA RanksType ==
    ASSUME keys \in Seq(Int)
    PROVE  /\ Ranks \in [1..Len(keys) -> Int] /\ Len(keys) \in Nat
           /\ \A i \in 1..Len(keys) : Ranks[i] = -keys[i] /\ keys[i] \in Int
BY DEF Ranks

Heaps == {h \in Seq(1..Len(keys)) : IsHeap(h, 1..Len(keys), Ranks)}

-----------------------------------------------------------------------------
\* after[k] is the heap h after its root was deleted k times.
DeletesOf(h, n, after) ==
    /\ after \in [0..n -> Heaps] /\ after[0] = h
    /\ \A k \in 1..n : after[k] = HeapDelete(after[k - 1], Ranks)

\* Roots() saves the roots of such heaps.
LEMMA RootsAfter ==
    ASSUME keys \in Seq(Int), NEW h \in Heaps, NEW n \in Nat
    PROVE  \E after : DeletesOf(h, n, after) /\ Roots(h, n) = [k \in 1..n |-> after[k - 1][1]]
<1>. DEFINE F == [k \in 1..n |-> [s \in Heaps |-> HeapDelete(s, Ranks)]]
            g == CHOOSE g : g = [k \in 0..n |-> IF k = 0 THEN h ELSE HeapDelete(g[k - 1], Ranks)]
<1>1. \A s \in Heaps : HeapDelete(s, Ranks) \in Heaps
  <2>. SUFFICES ASSUME NEW s \in Heaps PROVE HeapDelete(s, Ranks) \in Heaps
    OBVIOUS
  <2>1. Ranks \in [1..Len(keys) -> Int] /\ IsHeap(s, 1..Len(keys), Ranks)
    BY RanksType DEF Heaps
  <2>. DEFINE d == HeapDelete(s, Ranks)
  <2>2. CASE s = << >>
    <3>1. Len(s) <= 1 /\ s = << >>
      BY <2>2
    <3>2. d = << >>
      BY <3>1, Zenon DEF HeapDelete
    <3>. QED
      BY <2>2, <3>2
  <2>3. CASE s # << >>
    <3>1. IsHeap(d, 1..Len(keys), Ranks)
      BY <2>1, <2>3, Deleted
    <3>. QED
      BY <3>1 DEF Heaps, IsHeap
  <2>. QED
    BY <2>2, <2>3
<1>2. F \in [1..n -> [Heaps -> Heaps]]
  BY <1>1
<1>3. Roots(h, n) = [k \in 1..n |-> g[k - 1][1]]
  BY Zenon DEF Roots
<1>. HIDE DEF F, g
<1>4. PICK f \in [0..n -> Heaps] : Follows(n, h, F, f)
  BY <1>2, StepByStep
<1>5. \A k \in 1..n : f[k] = HeapDelete(f[k - 1], Ranks)
  <2>1. \A k \in 1..n : f[k - 1] \in Heaps
    OBVIOUS
  <2>. QED
    BY <1>4, <2>1 DEF F, Follows
<1>6. f = [k \in 0..n |-> IF k = 0 THEN h ELSE HeapDelete(f[k - 1], Ranks)]
  <2>1. \A k \in 0..n : k # 0 => k \in 1..n
    OBVIOUS
  <2>2. \A k \in 0..n : f[k] = IF k = 0 THEN h ELSE HeapDelete(f[k - 1], Ranks)
    BY <1>4, <1>5, <2>1 DEF Follows
  <2>. QED
    BY <2>2
<1>7. g = [k \in 0..n |-> IF k = 0 THEN h ELSE HeapDelete(g[k - 1], Ranks)]
  BY <1>6, Zenon DEF g
<1>8. g[0] = h /\ \A k \in 1..n : g[k] = HeapDelete(g[k - 1], Ranks)
  <2>1. 0 \in 0..n /\ \A k \in 1..n : k \in 0..n /\ k # 0
    OBVIOUS
  <2>2. \A k \in 0..n : g[k] = IF k = 0 THEN h ELSE HeapDelete(g[k - 1], Ranks)
    BY <1>7
  <2>. QED
    BY <2>1, <2>2
<1>9. \A k \in 0..n : g[k] \in Heaps
  <2>. DEFINE P == {k \in 0..n : g[k] \in Heaps}
  <2>1. 0 \in P
    BY <1>8
  <2>2. ASSUME NEW k \in 1..n, k - 1 \in P PROVE k \in P
    BY <1>1, <1>8, <2>2
  <2>. HIDE DEF P
  <2>3. \A k \in 0..n : k \in P
    BY <2>1, <2>2, UpFromZero
  <2>. QED
    BY <2>3 DEF P
<1>10. g \in [0..n -> Heaps]
  BY <1>7, <1>9
<1>. QED
  BY <1>3, <1>8, <1>10 DEF DeletesOf

\* What is left after k roots of a heap that has more than n rows.
LEMMA RootsLeave ==
    ASSUME keys \in Seq(Int), NEW h \in Heaps, NEW n \in Nat, n < Len(h),
           NEW after, DeletesOf(h, n, after)
    PROVE  \A k \in 1..n :
             LET root == after[k - 1][1]
             IN  /\ root \in Held(after[k - 1]) /\ root \in 1..Len(keys)
                 /\ Held(after[k]) = Held(after[k - 1]) \ {root}
                 /\ \A i \in Held(after[k - 1]) : Ranks[root] <= Ranks[i]
<1>. DEFINE P == {k \in 0..n : Len(after[k]) = Len(h) - k}
<1>1. Ranks \in [1..Len(keys) -> Int]
  BY RanksType
<1>2. \A k \in 0..n : after[k] \in Seq(1..Len(keys)) /\ IsHeap(after[k], 1..Len(keys), Ranks)
  BY DEF DeletesOf, Heaps
<1>3. ASSUME NEW k \in 1..n, k - 1 \in P
      PROVE  LET s == after[k - 1]
             IN  /\ s \in Seq(1..Len(keys)) /\ IsHeap(s, 1..Len(keys), Ranks) /\ s # << >>
                 /\ Len(after[k]) = Len(s) - 1 /\ Held(after[k]) = Held(s) \ {s[1]}
                 /\ Len(s) = Len(h) - (k - 1)
  <2>. DEFINE s == after[k - 1]
  <2>1. k - 1 \in 0..n /\ Len(s) = Len(h) - (k - 1) /\ after[k] = HeapDelete(s, Ranks)
    BY <1>3 DEF DeletesOf
  <2>2. s \in Seq(1..Len(keys)) /\ IsHeap(s, 1..Len(keys), Ranks)
    BY <1>2, <2>1
  <2>3. Len(h) \in Nat
    BY DEF Heaps
  <2>4. s # << >>
    <3>. HIDE DEF s
    <3>1. Len(s) # 0
      BY <2>1, <2>3
    <3>. QED
      BY <3>1
  <2>5. Len(HeapDelete(s, Ranks)) = Len(s) - 1 /\ Held(HeapDelete(s, Ranks)) = Held(s) \ {s[1]}
    <3>. HIDE DEF s
    <3>. QED
      BY <1>1, <2>2, <2>4, Deleted
  <2>. QED
    BY <2>1, <2>2, <2>4, <2>5
<1>4. \A k \in 0..n : k \in P
  <2>1. 0 \in P
    BY DEF DeletesOf, Heaps
  <2>2. ASSUME NEW k \in 1..n, k - 1 \in P PROVE k \in P
    <3>1. Len(after[k]) = Len(after[k - 1]) - 1 /\ Len(after[k - 1]) = Len(h) - (k - 1)
      BY <1>3, <2>2
    <3>2. Len(h) \in Nat
      BY DEF Heaps
    <3>. QED
      BY <3>1, <3>2
  <2>. HIDE DEF P
  <2>. QED
    BY <2>1, <2>2, UpFromZero
<1>. HIDE DEF P
<1>. SUFFICES ASSUME NEW k \in 1..n
              PROVE  LET root == after[k - 1][1]
                     IN  /\ root \in Held(after[k - 1]) /\ root \in 1..Len(keys)
                         /\ Held(after[k]) = Held(after[k - 1]) \ {root}
                         /\ \A i \in Held(after[k - 1]) : Ranks[root] <= Ranks[i]
  OBVIOUS
<1>. DEFINE s == after[k - 1]
<1>5. k - 1 \in P
  BY <1>4
<1>6. s \in Seq(1..Len(keys)) /\ IsHeap(s, 1..Len(keys), Ranks) /\ s # << >>
      /\ Held(after[k]) = Held(s) \ {s[1]}
  BY <1>3, <1>5
<1>. HIDE DEF s
<1>7. 1 \in 1..Len(s) /\ s[1] \in 1..Len(keys)
  BY <1>6
<1>8. s[1] \in Held(s)
  BY <1>7 DEF Held
<1>9. \A i \in Held(s) : Ranks[s[1]] <= Ranks[i]
  BY <1>1, <1>6, RootIsLeast DEF Held
<1>. QED
  BY <1>6, <1>7, <1>8, <1>9 DEF s

\* kept[k] is made of the first k roots, as long as they can be inserted.
InsertsOf(n, after, kept) ==
    /\ kept[0] = << >>
    /\ \A k \in 1..n : LET root == after[k - 1][1] IN
         kept[k - 1] \in Heaps /\ root \notin Held(kept[k - 1])
         => kept[k] = HeapInsert(kept[k - 1], root, Ranks)

\* And is then a heap of the best k rows of h.
BestOf(h, k, after, kept) ==
    /\ kept[k] \in Heaps /\ Len(kept[k]) = k
    /\ Held(kept[k]) = Held(h) \ Held(after[k]) /\ Held(after[k]) \subseteq Held(h)
    /\ \A j \in Held(kept[k]), i \in Held(after[k]) : Ranks[j] <= Ranks[i]

\* Inserting a root keeps that.
LEMMA InsertsBest ==
    ASSUME keys \in Seq(Int), NEW h \in Heaps, NEW n \in Nat, n < Len(h),
           NEW after, DeletesOf(h, n, after), NEW kept, InsertsOf(n, after, kept)
    PROVE  \A k \in 0..n : BestOf(h, k, after, kept)
<1>. DEFINE P == {k \in 0..n : BestOf(h, k, after, kept)}
<1>1. Ranks \in [1..Len(keys) -> Int]
  BY RanksType
<1>2. 0 \in P
  <2>1. kept[0] = << >> /\ after[0] = h
    BY DEF InsertsOf, DeletesOf
  <2>2. << >> \in Heaps /\ Held(<< >>) = {} /\ Len(<< >>) = 0
    BY DEF Heaps, IsHeap, Once, HeapOrder, Held
  <2>3. BestOf(h, 0, after, kept)
    BY <2>1, <2>2 DEF BestOf
  <2>. QED
    BY <2>3
<1>3. ASSUME NEW k \in 1..n, k - 1 \in P PROVE k \in P
  <2>. DEFINE s == kept[k - 1]
              root == after[k - 1][1]
              g == HeapInsert(s, root, Ranks)
              above == after[k - 1]
  <2>1. /\ s \in Heaps /\ Len(s) = k - 1 /\ Held(s) = Held(h) \ Held(above)
        /\ Held(above) \subseteq Held(h)
        /\ \A j \in Held(s), i \in Held(above) : Ranks[j] <= Ranks[i]
    BY <1>3 DEF BestOf
  <2>2. /\ root \in Held(above) /\ root \in 1..Len(keys)
        /\ Held(after[k]) = Held(above) \ {root}
        /\ \A i \in Held(above) : Ranks[root] <= Ranks[i]
    BY RootsLeave
  <2>3. root \notin Held(s)
    BY <2>1, <2>2
  <2>4. kept[k] = g
    BY <2>1, <2>3 DEF InsertsOf
  <2>5. IsHeap(s, 1..Len(keys), Ranks)
    BY <2>1 DEF Heaps
  <2>. HIDE DEF s, root, above
  <2>6. IsHeap(g, 1..Len(keys), Ranks) /\ Len(g) = Len(s) + 1 /\ Held(g) = Held(s) \union {root}
    <3>. DEFINE S == 1..Len(keys)
    <3>1. root \in S /\ IsHeap(s, S, Ranks) /\ Ranks \in [S -> Int]
      BY <1>1, <2>2, <2>5
    <3>. HIDE DEF S
    <3>2. IsHeap(g, S, Ranks) /\ Len(g) = Len(s) + 1 /\ Held(g) = Held(s) \union {root}
      BY <2>3, <3>1, Inserted
    <3>. QED
      BY <3>2 DEF S
  <2>. HIDE DEF g
  <2>7. g \in Heaps
    BY <2>6 DEF Heaps, IsHeap
  <2>8. Len(g) = k
    BY <2>1, <2>6
  <2>9. Held(g) = Held(h) \ Held(after[k]) /\ Held(after[k]) \subseteq Held(h)
    BY <2>1, <2>2, <2>6
  <2>10. \A j \in Held(g), i \in Held(after[k]) : Ranks[j] <= Ranks[i]
    BY <2>1, <2>2, <2>6
  <2>. QED
    BY <2>4, <2>7, <2>8, <2>9, <2>10 DEF BestOf
<1>. HIDE DEF P
<1>4. \A k \in 0..n : k \in P
  BY <1>2, <1>3, UpFromZero
<1>. QED
  BY <1>4 DEF P

\* Truncate() keeps the best n rows.
LEMMA Truncated ==
    ASSUME keys \in Seq(Int), NEW h \in Heaps, NEW n \in Nat, n < Len(h)
    PROVE  LET t == Truncate(h, n)
           IN  /\ t \in Heaps /\ Len(t) = n /\ Held(t) \subseteq Held(h)
               /\ \A j \in Held(t), i \in Held(h) \ Held(t) : Ranks[j] <= Ranks[i]
<1>1. PICK after : DeletesOf(h, n, after) /\ Roots(h, n) = [k \in 1..n |-> after[k - 1][1]]
  BY RootsAfter
<1>. DEFINE roots == Roots(h, n)
            g == CHOOSE g : g = [k \in 0..n |-> IF k = 0 THEN << >> ELSE HeapInsert(g[k - 1], roots[k], Ranks)]
            Fits(k, s) == s \in Heaps /\ roots[k] \in 1..Len(keys) /\ roots[k] \notin Held(s)
            Put(k, s) == IF Fits(k, s) THEN HeapInsert(s, roots[k], Ranks) ELSE s
            F == [k \in 1..n |-> [s \in Heaps |-> Put(k, s)]]
<1>2. \A k \in 1..n : roots[k] = after[k - 1][1]
  BY <1>1
<1>3. Truncate(h, n) = g[n]
  <2>1. ~(Len(h) <= n)
    BY DEF Heaps
  <2>2. Truncate(h, n) = IF Len(h) <= n THEN h ELSE g[n]
    BY Zenon DEF Truncate
  <2>. HIDE DEF g
  <2>. QED
    BY <2>1, <2>2
<1>. HIDE DEF g, roots
<1>4. \A k \in 1..n, s \in Heaps : Put(k, s) \in Heaps
  <2>. SUFFICES ASSUME NEW k \in 1..n, NEW s \in Heaps, Fits(k, s)
                PROVE  HeapInsert(s, roots[k], Ranks) \in Heaps
    OBVIOUS
  <2>. DEFINE x == roots[k]
  <2>1. IsHeap(s, 1..Len(keys), Ranks) /\ x \in 1..Len(keys) /\ x \notin Held(s)
        /\ Ranks \in [1..Len(keys) -> Int]
    BY RanksType DEF Heaps
  <2>. HIDE DEF x
  <2>2. IsHeap(HeapInsert(s, x, Ranks), 1..Len(keys), Ranks)
    BY <2>1, Inserted
  <2>. QED
    BY <2>2 DEF Heaps, IsHeap, x
<1>. HIDE DEF Put
<1>5. F \in [1..n -> [Heaps -> Heaps]]
  BY <1>4
<1>6. << >> \in Heaps
  BY DEF Heaps, IsHeap, Once, HeapOrder
<1>. HIDE DEF F
<1>7. PICK f \in [0..n -> Heaps] : Follows(n, << >>, F, f)
  BY <1>5, <1>6, StepByStep
<1>8. \A k \in 1..n : f[k] = Put(k, f[k - 1])
  <2>1. \A k \in 1..n : f[k - 1] \in Heaps
    OBVIOUS
  <2>. QED
    BY <1>7, <2>1 DEF F, Follows
<1>9. \A k \in 1..n : roots[k] \in 1..Len(keys) /\ roots[k] \in Held(after[k - 1])
  <2>. SUFFICES ASSUME NEW k \in 1..n
                PROVE  roots[k] \in 1..Len(keys) /\ roots[k] \in Held(after[k - 1])
    OBVIOUS
  <2>1. after[k - 1][1] \in 1..Len(keys) /\ after[k - 1][1] \in Held(after[k - 1])
    BY <1>1, RootsLeave
  <2>. QED
    BY <1>2, <2>1
<1>10. InsertsOf(n, after, f)
  BY <1>2, <1>7, <1>8, <1>9 DEF InsertsOf, Follows, Put
<1>11. \A k \in 0..n : BestOf(h, k, after, f)
  BY <1>1, <1>10, InsertsBest
<1>12. \A k \in 1..n : f[k] = HeapInsert(f[k - 1], roots[k], Ranks)
  <2>. SUFFICES ASSUME NEW k \in 1..n PROVE Fits(k, f[k - 1])
    BY <1>8 DEF Put
  <2>1. k - 1 \in 0..n /\ f[k - 1] \in Heaps
    OBVIOUS
  <2>2. Held(f[k - 1]) = Held(h) \ Held(after[k - 1])
    BY <1>11, <2>1 DEF BestOf
  <2>3. roots[k] \in Held(after[k - 1])
    BY <1>9
  <2>. QED
    BY <1>9, <2>1, <2>2, <2>3
<1>13. f = [k \in 0..n |-> IF k = 0 THEN << >> ELSE HeapInsert(f[k - 1], roots[k], Ranks)]
  <2>1. \A k \in 0..n : k # 0 => k \in 1..n
    OBVIOUS
  <2>2. \A k \in 0..n : f[k] = IF k = 0 THEN << >> ELSE HeapInsert(f[k - 1], roots[k], Ranks)
    BY <1>7, <1>12, <2>1 DEF Follows
  <2>. QED
    BY <2>2
<1>14. g = [k \in 0..n |-> IF k = 0 THEN << >> ELSE HeapInsert(g[k - 1], roots[k], Ranks)]
  BY <1>13, Zenon DEF g
<1>15. InsertsOf(n, after, g)
  <2>1. \A k \in 0..n : g[k] = IF k = 0 THEN << >> ELSE HeapInsert(g[k - 1], roots[k], Ranks)
    BY <1>14
  <2>2. 0 \in 0..n /\ \A k \in 1..n : k \in 0..n /\ k # 0
    OBVIOUS
  <2>3. g[0] = << >> /\ \A k \in 1..n : g[k] = HeapInsert(g[k - 1], roots[k], Ranks)
    BY <2>1, <2>2
  <2>. QED
    BY <1>2, <2>3 DEF InsertsOf
<1>16. BestOf(h, n, after, g)
  BY <1>1, <1>15, InsertsBest
<1>. QED
  BY <1>3, <1>16 DEF BestOf

-----------------------------------------------------------------------------
\* The rows of K that are not worse than row i.
Better(K, i) == {j \in K : keys[j] >= keys[i]}

\* There are finitely many, and no fewer in a larger set.
LEMMA BetterInMore ==
    ASSUME Len(keys) \in Nat, NEW L, L \subseteq 1..Len(keys), NEW K, K \subseteq L, NEW i
    PROVE  /\ Cardinality(Better(K, i)) \in Nat /\ Cardinality(Better(L, i)) \in Nat
           /\ Cardinality(Better(K, i)) <= Cardinality(Better(L, i))
<1>1. IsFiniteSet(1..Len(keys))
  BY FS_Interval
<1>2. Better(L, i) \in SUBSET (1..Len(keys)) /\ Better(K, i) \in SUBSET Better(L, i)
  BY DEF Better
<1>3. IsFiniteSet(Better(L, i))
  BY <1>1, <1>2, FS_Subset
<1>4. IsFiniteSet(Better(K, i)) /\ Cardinality(Better(K, i)) <= Cardinality(Better(L, i))
  BY <1>2, <1>3, FS_Subset
<1>. QED
  BY <1>3, <1>4, FS_CardinalityType

\* The multiple that the heap may grow to is not less than what is kept.
LEMMA MultipleOfN ==
    ASSUME top_n \in TopN
    PROVE  top_n \in Nat /\ top_n * FACTOR \in Nat /\ top_n <= top_n * FACTOR
<1>1. top_n \in Nat /\ FACTOR \in Nat /\ FACTOR >= 1
  BY TopNAssumption
<1>2. \A a, b \in Nat : b >= 1 => a * b \in Nat /\ a <= a * b
  OBVIOUS
<1>. QED
  BY <1>1, <1>2

\* DropsOnlyTheWorst, with the names of the proofs.
Dropped(K) == \A i \in 1..loaded \ K : Cardinality(Better(K, i)) >= top_n

\* What IInv says of the state, with those names.
LEMMA StateFacts ==
    ASSUME IInv
    PROVE  /\ keys \in Seq(Int) /\ Len(keys) \in Nat /\ loaded \in 0..Len(keys) /\ top_n \in Nat
           /\ IsHeap(heap, 1..Len(keys), Ranks) /\ heap \in Heaps
           /\ Kept = Held(heap) \union Held(out) /\ Kept \subseteq 1..loaded /\ Kept \subseteq 1..Len(keys)
           /\ Len(heap) <= top_n * FACTOR /\ Len(heap) \in Nat
           /\ Dropped(Kept)
<1>1. keys \in Seq(Int) /\ Len(keys) \in Nat /\ loaded \in 0..Len(keys) /\ top_n \in Nat
  BY TopNAssumption DEF IInv, Typed
<1>2. IsHeap(heap, 1..Len(keys), Ranks) /\ heap \in Seq(1..Len(keys))
  BY DEF IInv, Typed, IsHeap
<1>3. heap \in Heaps /\ Len(heap) \in Nat
  BY <1>2 DEF Heaps
<1>4. Kept = Held(heap) \union Held(out)
  BY DEF Kept, Held
<1>5. Kept \subseteq 1..loaded
  BY DEF IInv, PlacesInv
<1>6. Kept \subseteq 1..Len(keys)
  BY <1>1, <1>5
<1>7. Len(heap) <= top_n * FACTOR /\ Dropped(Kept)
  BY DEF IInv, DropsOnlyTheWorst, Dropped, Better
<1>. QED
  BY <1>1, <1>2, <1>3, <1>4, <1>5, <1>6, <1>7

\* Nothing is kept and nothing is dropped.
LEMMA Starts == Init => IInv
<1>. SUFFICES ASSUME Init PROVE IInv
  OBVIOUS
<1>1. /\ keys \in Inputs /\ top_n \in TopN /\ loaded = 0 /\ heap = << >> /\ out = << >> /\ pc = "load"
  BY DEF Init
<1>2. Len(keys) \in Nat /\ top_n \in Nat /\ 0 <= top_n * FACTOR
  BY <1>1, MultipleOfN, TopNAssumption
<1>3. Held(<< >>) = {} /\ Once(<< >>) /\ Len(<< >>) = 0
  BY DEF Held, Once
<1>4. IsHeap(<< >>, 1..Len(keys), Ranks)
  BY DEF IsHeap, Once, HeapOrder
<1>5. Kept = {}
  BY <1>1, <1>3 DEF Kept, Held
<1>6. Typed
  BY <1>1, <1>2, <1>3, <1>4 DEF Typed
<1>7. PlacesInv /\ PhaseInv
  BY <1>1, <1>2, <1>3, <1>5 DEF PlacesInv, PhaseInv
<1>8. BestInv
  BY <1>1, <1>3 DEF BestInv
<1>9. DropsOnlyTheWorst
  <2>1. 1..loaded = {}
    BY <1>1
  <2>. QED
    BY <1>1, <1>2, <1>3, <2>1 DEF DropsOnlyTheWorst
<1>. QED
  BY <1>6, <1>7, <1>8, <1>9 DEF IInv

\* A row that is loaded is kept, or was cut off with rows that are not better
\* than the best top_n.
LEMMA Loads ==
    ASSUME IInv, InsertRow
    PROVE  IInv'
<1>. DEFINE S == 1..Len(keys)
            x == loaded + 1
            h == HeapInsert(heap, x, Ranks)
            t == Truncate(h, top_n)
<1>1. /\ pc = "load" /\ loaded < Len(keys) /\ loaded' = x
      /\ heap' = IF Len(h) > top_n * FACTOR THEN t ELSE h
      /\ UNCHANGED <<keys, top_n, out, pc>>
  BY DEF InsertRow
<1>2. /\ keys \in Seq(Int) /\ Len(keys) \in Nat /\ loaded \in 0..Len(keys) /\ top_n \in Nat
      /\ IsHeap(heap, S, Ranks)
      /\ Kept = Held(heap) \union Held(out) /\ Kept \subseteq 1..loaded /\ Kept \subseteq S
      /\ Len(heap) <= top_n * FACTOR /\ Len(heap) \in Nat
      /\ Dropped(Kept)
  BY StateFacts
<1>3. out = << >> /\ Held(out) = {} /\ Kept = Held(heap)
  <2>1. out = << >>
    BY <1>1 DEF IInv, PhaseInv
  <2>. QED
    BY <1>2, <2>1 DEF Held
<1>4. x \in S /\ x \in Nat /\ x \notin Held(heap) /\ Ranks \in [S -> Int]
  BY <1>1, <1>2, <1>3, RanksType
<1>. HIDE DEF S, h
<1>5. IsHeap(h, S, Ranks) /\ Len(h) = Len(heap) + 1 /\ Held(h) = Held(heap) \union {x}
  <2>1. IsHeap(heap, S, Ranks) /\ Ranks \in [S -> Int] /\ x \in S /\ x \notin Held(heap)
    BY <1>2, <1>4
  <2>. HIDE DEF x
  <2>. QED
    BY <2>1, Inserted DEF h
<1>6. top_n * FACTOR \in Nat /\ top_n <= top_n * FACTOR
  BY MultipleOfN DEF IInv, Typed
<1>7. Kept' = Held(heap')
  BY <1>1, <1>3 DEF Kept, Held
<1>8. /\ IsHeap(heap', S, Ranks) /\ Len(heap') <= top_n * FACTOR /\ Held(heap') \subseteq Held(h)
      /\ \A i \in 1..x \ Held(heap') : Cardinality(Better(Held(heap'), i)) >= top_n
  <2>0. \A i \in 1..x : i # x => i \in 1..loaded
    BY <1>2
  <2>01. Held(h) \subseteq S
    BY <1>2, <1>3, <1>4, <1>5 DEF S
  <2>02. \A i \in 1..loaded \ Held(heap) :
           Cardinality(Better(Held(heap), i)) >= top_n /\ Cardinality(Better(Held(heap), i)) \in Nat
    <3>. SUFFICES ASSUME NEW i \in 1..loaded \ Held(heap)
                  PROVE  Cardinality(Better(Held(heap), i)) >= top_n /\ Cardinality(Better(Held(heap), i)) \in Nat
      OBVIOUS
    <3>1. Cardinality(Better(Held(heap), i)) >= top_n
      BY <1>2, <1>3 DEF Dropped
    <3>2. Held(heap) \subseteq 1..Len(keys)
      BY <1>2, <1>3 DEF S
    <3>. QED
      BY <1>2, <3>1, <3>2, BetterInMore
  <2>1. CASE ~(Len(h) > top_n * FACTOR)
    <3>1. heap' = h /\ Len(h) <= top_n * FACTOR
      BY <1>1, <1>2, <1>5, <1>6, <2>1
    <3>2. ASSUME NEW i \in 1..x \ Held(h) PROVE Cardinality(Better(Held(h), i)) >= top_n
      <4>1. i \in 1..loaded \ Held(heap) /\ Held(heap) \subseteq Held(h) /\ Held(h) \subseteq 1..Len(keys)
        BY <1>5, <2>0, <2>01 DEF S
      <4>2. /\ Cardinality(Better(Held(heap), i)) <= Cardinality(Better(Held(h), i))
            /\ Cardinality(Better(Held(h), i)) \in Nat
        BY <1>2, <4>1, BetterInMore
      <4>. QED
        BY <1>2, <2>02, <4>1, <4>2
    <3>. QED
      BY <1>5, <3>1, <3>2
  <2>2. CASE Len(h) > top_n * FACTOR
    <3>1. heap' = t /\ top_n < Len(h)
      BY <1>1, <1>2, <1>5, <1>6, <2>2
    <3>2. h \in Heaps
      BY <1>5 DEF Heaps, IsHeap, S
    <3>3. /\ t \in Heaps /\ Len(t) = top_n /\ Held(t) \subseteq Held(h)
          /\ \A j \in Held(t), i \in Held(h) \ Held(t) : Ranks[j] <= Ranks[i]
      BY <1>2, <3>1, <3>2, Truncated
    <3>. HIDE DEF t
    <3>4. IsHeap(t, S, Ranks) /\ t \in Seq(S) /\ Once(t)
      BY <3>3 DEF Heaps, S, IsHeap
    <3>5. Cardinality(Held(t)) = top_n
      BY <3>3, <3>4, HeldOnce
    <3>6. \A i \in S : keys[i] \in Int /\ Ranks[i] = -keys[i]
      BY <1>2, RanksType DEF S
    <3>7. \A j \in Held(t), i \in Held(h) \ Held(t) : keys[j] >= keys[i]
      BY <2>01, <3>3, <3>6
    <3>8. ASSUME NEW i \in 1..x \ Held(t) PROVE Cardinality(Better(Held(t), i)) >= top_n
      <4>1. i \in Nat /\ i \in S
        BY <1>4 DEF S
      <4>2. CASE \A j \in Held(t) : keys[j] >= keys[i]
        <5>1. Better(Held(t), i) = Held(t)
          BY <4>2 DEF Better
        <5>. QED
          BY <1>2, <3>5, <5>1
      <4>3. CASE ~(\A j \in Held(t) : keys[j] >= keys[i])
        <5>1. PICK j \in Held(t) : ~(keys[j] >= keys[i])
          BY <4>3
        <5>2. i \notin Held(h)
          BY <3>7, <5>1
        <5>3. i \in 1..loaded \ Held(heap)
          BY <1>5, <2>0, <5>2
        <5>4. Better(Held(heap), i) \subseteq Better(Held(t), i)
          <6>. SUFFICES ASSUME NEW m \in Held(heap), keys[m] >= keys[i] PROVE m \in Held(t)
            BY DEF Better
          <6>1. m \in Held(h) /\ m \in S /\ j \in S
            BY <1>5, <2>01, <3>3
          <6>2. keys[j] < keys[m]
            BY <3>6, <4>1, <5>1, <6>1
          <6>. QED
            BY <3>6, <3>7, <6>1, <6>2
        <5>5. IsFiniteSet(Better(Held(t), i))
          <6>1. IsFiniteSet(Held(t)) /\ Better(Held(t), i) \in SUBSET Held(t)
            BY <3>4, HeldOnce DEF Better
          <6>. QED
            BY <6>1, FS_Subset
        <5>6. Cardinality(Better(Held(heap), i)) <= Cardinality(Better(Held(t), i))
              /\ Cardinality(Better(Held(t), i)) \in Nat
          BY <5>4, <5>5, FS_Subset, FS_CardinalityType
        <5>. QED
          BY <1>2, <2>02, <5>3, <5>6
      <4>. QED
        BY <4>2, <4>3
    <3>. QED
      BY <1>6, <3>1, <3>3, <3>4, <3>8
  <2>. QED
    BY <2>1, <2>2
<1>9. Ranks' = Ranks /\ S = 1..Len(keys)
  BY <1>1 DEF Ranks, S
<1>10. Typed'
  <2>1. keys \in Inputs /\ top_n \in TopN /\ out \in Seq(S) /\ Once(out) /\ pc \in {"load", "dump", "done"}
    BY <1>9 DEF IInv, Typed
  <2>2. x \in 0..Len(keys)
    BY <1>2, <1>4, <1>9
  <2>. QED
    BY <1>1, <1>8, <1>9, <2>1, <2>2 DEF Typed
<1>11. PlacesInv' /\ PhaseInv' /\ BestInv'
  <2>1. Kept' \subseteq 1..x
    <3>1. Held(heap) \subseteq 1..loaded /\ 1..loaded \subseteq 1..x /\ x \in 1..x
      BY <1>2, <1>3
    <3>. QED
      BY <1>5, <1>7, <1>8, <3>1
  <2>2. PlacesInv'
    BY <1>1, <1>3, <2>1 DEF IInv, PlacesInv
  <2>3. PhaseInv' /\ BestInv'
    BY <1>1, <1>3 DEF PhaseInv, BestInv
  <2>. QED
    BY <2>2, <2>3
<1>12. DropsOnlyTheWorst'
  <2>1. \A i \in 1..x \ Kept' : Cardinality({j \in Kept' : keys[j] >= keys[i]}) >= top_n
    BY <1>7, <1>8 DEF Better
  <2>. QED
    BY <1>1, <1>8, <2>1 DEF DropsOnlyTheWorst
<1>. QED
  BY <1>10, <1>11, <1>12 DEF IInv

\* The root of the heap is written: it is not better than what was written
\* before, and nothing in the heap is better.
LEMMA Dumps ==
    ASSUME IInv, DumpRow
    PROVE  IInv'
<1>. DEFINE S == 1..Len(keys)
            x == heap[1]
            g == HeapDelete(heap, Ranks)
            o == Append(out, x)
            n == Len(out)
<1>1. /\ pc = "dump" /\ heap # << >> /\ n < top_n /\ out' = o /\ heap' = g
      /\ UNCHANGED <<keys, top_n, loaded, pc>>
  BY DEF DumpRow
<1>2. /\ keys \in Seq(Int) /\ Len(keys) \in Nat /\ loaded \in 0..Len(keys) /\ top_n \in Nat
      /\ IsHeap(heap, S, Ranks)
      /\ Kept = Held(heap) \union Held(out) /\ Kept \subseteq 1..loaded /\ Kept \subseteq S
      /\ Len(heap) <= top_n * FACTOR /\ Len(heap) \in Nat
      /\ Dropped(Kept)
  BY StateFacts
<1>3. out \in Seq(S) /\ Once(out) /\ Held(heap) \cap Held(out) = {}
  BY DEF IInv, Typed, PlacesInv
<1>4. /\ \A k, m \in 1..n : k < m => keys[out[k]] >= keys[out[m]]
      /\ \A k \in 1..n, i \in Held(heap) : keys[i] <= keys[out[k]]
  BY DEF IInv, BestInv
<1>5. Ranks \in [S -> Int] /\ \A i \in S : keys[i] \in Int /\ Ranks[i] = -keys[i]
  BY <1>2, RanksType
<1>6. heap \in Seq(S) /\ x \in S /\ x \in Held(heap)
  <2>1. heap \in Seq(S)
    BY <1>2 DEF IsHeap
  <2>2. 1 \in 1..Len(heap)
    BY <1>1, <2>1
  <2>3. x \in Held(heap)
    BY <2>2 DEF Held
  <2>. QED
    BY <2>1, <2>2, <2>3
<1>. HIDE DEF S, g, o
<1>7. \A i \in Held(heap) : keys[i] <= keys[x]
  <2>. SUFFICES ASSUME NEW k \in 1..Len(heap) PROVE keys[heap[k]] <= keys[x]
    BY DEF Held
  <2>1. Ranks[heap[1]] <= Ranks[heap[k]]
    BY <1>2, <1>5, RootIsLeast
  <2>2. heap[k] \in S
    BY <1>6
  <2>. HIDE DEF x
  <2>3. Ranks[heap[1]] = -keys[heap[1]] /\ heap[1] \in S
    BY <1>5, <1>6 DEF x
  <2>. QED
    BY <1>5, <2>1, <2>2, <2>3 DEF x
<1>8. IsHeap(g, S, Ranks) /\ Len(g) = Len(heap) - 1 /\ Held(g) = Held(heap) \ {x}
  BY <1>1, <1>2, <1>5, Deleted DEF g
<1>. HIDE DEF x, n
<1>9. /\ o \in Seq(S) /\ Len(o) = n + 1 /\ n \in Nat /\ \A k \in 1..n : o[k] = out[k]
      /\ o[n + 1] = x /\ Held(o) = Held(out) \union {x} /\ Once(o)
  <2>1. x \notin Held(out)
    BY <1>3, <1>6
  <2>. QED
    BY <1>3, <1>6, <2>1, HeldLast DEF o, n
<1>10. Kept' = Kept /\ Held(heap') = Held(g) /\ Held(out') = Held(o)
  <2>1. Held(heap') = Held(g) /\ Held(out') = Held(o)
    BY <1>1
  <2>2. Kept' = Held(heap') \union Held(out')
    BY DEF Kept, Held
  <2>. QED
    BY <1>2, <1>6, <1>8, <1>9, <2>1, <2>2
<1>11. Ranks' = Ranks /\ S = 1..Len(keys) /\ n = Len(out)
  BY <1>1 DEF Ranks, S, n
<1>12. Typed'
  <2>1. keys \in Inputs /\ top_n \in TopN
    BY DEF IInv, Typed
  <2>. QED
    BY <1>1, <1>2, <1>8, <1>9, <1>11, <2>1 DEF Typed
<1>13. PlacesInv'
  <2>1. Len(o) <= top_n
    BY <1>1, <1>2, <1>9
  <2>2. Held(g) \cap Held(o) = {}
    BY <1>3, <1>8, <1>9
  <2>. QED
    BY <1>1, <1>2, <1>10, <2>1, <2>2 DEF PlacesInv
<1>14. PhaseInv'
  BY <1>1 DEF IInv, PhaseInv
<1>15. BestInv'
  <2>0. \A k \in 1..n + 1 : k \in 1..n \/ k = n + 1
    BY <1>9
  <2>1. \A k \in 1..n + 1, i \in Held(g) : keys[i] <= keys[o[k]]
    <3>. SUFFICES ASSUME NEW k \in 1..n + 1, NEW i \in Held(g) PROVE keys[i] <= keys[o[k]]
      OBVIOUS
    <3>1. i \in Held(heap)
      BY <1>8
    <3>. QED
      BY <1>4, <1>7, <1>9, <2>0, <3>1
  <2>2. \A k, m \in 1..n + 1 : k < m => keys[o[k]] >= keys[o[m]]
    <3>. SUFFICES ASSUME NEW k \in 1..n + 1, NEW m \in 1..n + 1, k < m PROVE keys[o[k]] >= keys[o[m]]
      OBVIOUS
    <3>1. k \in 1..n /\ o[k] = out[k]
      BY <1>9
    <3>2. CASE m = n + 1
      <4>1. keys[x] <= keys[out[k]]
        BY <1>4, <1>6, <3>1
      <4>2. keys[x] \in Int /\ keys[out[k]] \in Int
        BY <1>3, <1>5, <1>6, <1>11, <3>1
      <4>. QED
        BY <1>9, <3>1, <3>2, <4>1, <4>2
    <3>3. CASE m \in 1..n
      BY <1>4, <1>9, <3>1, <3>3
    <3>. QED
      BY <2>0, <3>2, <3>3
  <2>. QED
    BY <1>1, <1>9, <1>10, <2>1, <2>2 DEF BestInv
<1>16. DropsOnlyTheWorst'
  <2>1. Len(g) <= top_n * FACTOR
    <3>1. top_n * FACTOR \in Nat
      BY MultipleOfN DEF IInv, Typed
    <3>. QED
      BY <1>2, <1>8, <3>1
  <2>. QED
    BY <1>1, <1>10, <2>1 DEF IInv, DropsOnlyTheWorst
<1>. QED
  BY <1>12, <1>13, <1>14, <1>15, <1>16 DEF IInv

\* The steps that change no more than pc.
LEMMA StepsAside ==
    ASSUME IInv, UNCHANGED <<keys, top_n, loaded, heap, out>>,
           pc' \in {"load", "dump", "done"}, PhaseInv'
    PROVE  IInv'
<1>1. Ranks' = Ranks /\ Kept' = Kept
  BY DEF Ranks, Kept
<1>2. Typed' /\ PlacesInv'
  BY <1>1 DEF IInv, Typed, PlacesInv
<1>3. BestInv' /\ DropsOnlyTheWorst'
  BY <1>1 DEF IInv, BestInv, DropsOnlyTheWorst
<1>. QED
  BY <1>2, <1>3 DEF IInv

\* Every step of btopn keeps the invariant.
LEMMA NextInvariant == IInv /\ [Next]_vars => IInv'
<1>. SUFFICES ASSUME IInv, [Next]_vars PROVE IInv'
  OBVIOUS
<1>1. CASE InsertRow
  BY <1>1, Loads
<1>2. CASE AllLoaded
  <2>1. PhaseInv' /\ pc' = "dump"
    BY <1>2 DEF IInv, PhaseInv, AllLoaded
  <2>. QED
    BY <1>2, <2>1, StepsAside DEF AllLoaded
<1>3. CASE DumpRow
  BY <1>3, Dumps
<1>4. CASE Finish
  <2>1. PhaseInv' /\ pc' = "done"
    BY <1>4 DEF IInv, PhaseInv, Finish
  <2>. QED
    BY <1>4, <2>1, StepsAside DEF Finish
<1>5. CASE UNCHANGED vars
  <2>1. UNCHANGED <<keys, top_n, loaded, heap, out, pc>>
    BY <1>5 DEF vars
  <2>2. PhaseInv' /\ pc' \in {"load", "dump", "done"}
    BY <2>1 DEF IInv, PhaseInv, Typed
  <2>. QED
    BY <2>1, <2>2, StepsAside
<1>. QED
  BY <1>1, <1>2, <1>3, <1>4, <1>5 DEF Next, Terminated

\* What is kept, freed and written satisfies the invariant at every step.
THEOREM Invariance == Spec => []IInv
<1>1. Init => IInv
  BY Starts
<1>2. IInv /\ [Next]_vars => IInv'
  BY NextInvariant
<1>. QED
  BY <1>1, <1>2, PTL DEF Spec

\* heap_truncate() at src/btopn.c:75 frees a row only when N rows are kept, or
\* were written, that are as good.
THEOREM FreesOnlyTheWorst == Spec => []DropsOnlyTheWorst
<1>1. IInv => DropsOnlyTheWorst
  BY DEF IInv
<1>. QED
  BY <1>1, Invariance, PTL

\* A row that was dropped is not better than one that was written: otherwise N
\* rows better than the latter were written before it.
LEMMA WrittenIsBest ==
    ASSUME IInv, NEW k \in 1..Len(out), NEW i \in 1..loaded, i \notin Held(out)
    PROVE  keys[i] <= keys[out[k]]
<1>. DEFINE S == 1..Len(keys)
            n == Len(out)
<1>1. /\ keys \in Seq(Int) /\ Len(keys) \in Nat /\ loaded \in 0..Len(keys) /\ top_n \in Nat
      /\ Kept = Held(heap) \union Held(out) /\ Kept \subseteq S
      /\ Dropped(Kept)
  BY StateFacts
<1>2. out \in Seq(S) /\ n <= top_n /\ n \in Nat /\ Once(out)
  BY DEF IInv, Typed, PlacesInv
<1>3. /\ \A j, m \in 1..n : j < m => keys[out[j]] >= keys[out[m]]
      /\ \A j \in 1..n, m \in Held(heap) : keys[m] <= keys[out[j]]
  BY DEF IInv, BestInv
<1>4. \A m \in S : keys[m] \in Int
  BY <1>1
<1>5. CASE i \in Held(heap)
  BY <1>3, <1>5
<1>6. CASE i \notin Held(heap)
  <2>. SUFFICES ASSUME ~(keys[i] <= keys[out[k]]) PROVE FALSE
    OBVIOUS
  <2>1. i \in 1..loaded \ Kept
    BY <1>1, <1>6
  <2>2. Cardinality(Better(Kept, i)) >= top_n
    BY <1>1, <2>1 DEF Dropped
  <2>3. i \in S /\ out[k] \in S
    <3>1. i \in S
      BY <1>1
    <3>2. out[k] \in S
      <4>. HIDE DEF S
      <4>. QED
        BY <1>2
    <3>. QED
      BY <3>1, <3>2
  <2>4. keys[i] > keys[out[k]]
    BY <1>4, <2>3
  <2>. DEFINE T == Held(out) \ {out[k]}
  <2>5. Better(Kept, i) \subseteq T
    <3>. SUFFICES ASSUME NEW m \in Kept, keys[m] >= keys[i] PROVE m \in T
      BY DEF Better
    <3>1. m \in S
      BY <1>1
    <3>. HIDE DEF S
    <3>3. keys[m] \in Int /\ keys[i] \in Int /\ keys[out[k]] \in Int
      BY <1>4, <2>3, <3>1
    <3>4. keys[m] > keys[out[k]]
      BY <2>4, <3>3
    <3>2. m \notin Held(heap)
      BY <1>3, <3>3, <3>4
    <3>5. m # out[k]
      BY <3>3, <3>4
    <3>. QED
      BY <1>1, <3>2, <3>5
  <2>6. IsFiniteSet(Held(out)) /\ Cardinality(Held(out)) = n /\ out[k] \in Held(out)
    BY <1>2, HeldOnce DEF Held
  <2>7. IsFiniteSet(T) /\ Cardinality(T) = n - 1
    BY <2>6, FS_RemoveElement
  <2>. HIDE DEF T, n
  <2>8. Cardinality(Better(Kept, i)) <= n - 1 /\ Cardinality(Better(Kept, i)) \in Nat
    BY <2>5, <2>7, FS_Subset, FS_CardinalityType
  <2>. QED
    BY <1>1, <1>2, <2>2, <2>8
<1>. QED
  BY <1>5, <1>6

\* When all is done the rows written are as many as asked for, or all.
LEMMA WritesEnough ==
    ASSUME IInv, pc = "done"
    PROVE  Len(out) = IF Len(keys) < top_n THEN Len(keys) ELSE top_n
<1>. DEFINE n == Len(keys)
            w == Len(out)
<1>1. /\ n \in Nat /\ top_n \in Nat /\ loaded = n
      /\ Kept = Held(heap) \union Held(out) /\ Kept \subseteq 1..n
      /\ Dropped(Kept)
  BY StateFacts DEF IInv, PhaseInv
<1>2. /\ w \in Nat /\ w <= top_n /\ (heap = << >> \/ w = top_n)
      /\ out \in Seq(1..n) /\ Once(out)
  BY DEF IInv, Typed, PlacesInv, PhaseInv
<1>3. IsFiniteSet(1..n) /\ Cardinality(1..n) = n
  <2>. HIDE DEF n
  <2>1. IsFiniteSet(1..n) /\ Cardinality(1..n) = IF 1 > n THEN 0 ELSE n - 1 + 1
    BY <1>1, FS_Interval
  <2>. QED
    BY <1>1, <2>1
<1>4. IsFiniteSet(Held(out)) /\ Cardinality(Held(out)) = w /\ Held(out) \subseteq 1..n
  BY <1>1, <1>2, HeldOnce
<1>. HIDE DEF n, w
<1>5. w <= n /\ (w = n <=> Held(out) = 1..n)
  BY <1>3, <1>4, FS_Subset
<1>6. CASE w = top_n
  BY <1>1, <1>2, <1>5, <1>6 DEF n, w
<1>7. CASE w # top_n
  <2>1. w < top_n /\ heap = << >>
    BY <1>1, <1>2, <1>7
  <2>2. Kept = Held(out)
    BY <1>1, <2>1 DEF Held
  <2>3. Held(out) = 1..n
    <3>. SUFFICES ASSUME NEW i \in 1..n, i \notin Held(out) PROVE FALSE
      BY <1>4
    <3>1. i \in 1..loaded \ Kept
      BY <1>1, <2>2
    <3>2. Cardinality(Better(Kept, i)) >= top_n
      BY <1>1, <3>1 DEF Dropped
    <3>3. Better(Kept, i) \in SUBSET Held(out)
      BY <2>2 DEF Better
    <3>4. Cardinality(Better(Kept, i)) <= w /\ Cardinality(Better(Kept, i)) \in Nat
      BY <1>4, <3>3, FS_Subset, FS_CardinalityType
    <3>. QED
      BY <1>1, <1>2, <2>1, <3>2, <3>4
  <2>. QED
    BY <1>1, <1>5, <2>1, <2>3 DEF n, w
<1>. QED
  BY <1>6, <1>7

\* btopn writes different rows, the best first, none worse than one that it
\* does not write, and in the end as many as it was asked for.
THEOREM TakesTheBest == Spec => []WritesTheBest
<1>1. IInv => WritesTheBest
  <2>. SUFFICES ASSUME IInv PROVE WritesTheBest
    OBVIOUS
  <2>1. \A i, j \in 1..Len(out) : i < j => out[i] # out[j] /\ keys[out[i]] >= keys[out[j]]
    BY DEF IInv, Typed, Once, BestInv
  <2>2. ASSUME NEW k \in 1..Len(out), NEW i \in 1..loaded, \A m \in 1..Len(out) : out[m] # i
        PROVE  keys[i] <= keys[out[k]]
    <3>1. i \notin Held(out)
      BY <2>2 DEF Held
    <3>. QED
      BY <3>1, WrittenIsBest
  <2>3. pc = "done" => Len(out) = IF Len(keys) < top_n THEN Len(keys) ELSE top_n
    BY WritesEnough
  <2>. QED
    BY <2>1, <2>2, <2>3 DEF WritesTheBest
<1>. QED
  BY <1>1, Invariance, PTL
=============================================================================
