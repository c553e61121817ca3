--------------------------- MODULE BsvMergeProofs ---------------------------
(***************************************************************************)
(* bmerge, for any number of files of any length, every buffer size and    *)
(* every row: no pointer in the heap is stale, what is written is whole    *)
(* rows, each of them once, and from sorted files comes a sorted output.   *)
(***************************************************************************)
EXTENDS BsvMerge, BsvRowProofs

\* What is known of the input.
LEMMA InputFacts ==
    ASSUME input \in Inputs
    PROVE  /\ input.rows \in Seq(Row) /\ Len(input.rows) \in Nat
           /\ Len(input.files) = Len(input.contents) /\ Len(input.files) \in Nat
           /\ \A f \in 1..Len(input.files) :
                /\ input.contents[f] \in Seq(1..Len(input.rows))
                /\ HoldsContents(input.rows, input.files[f], input.contents[f])
           /\ \A i \in 1..Len(input.rows) : \E f \in 1..Len(input.files) : i \in Held(input.contents[f])
           /\ \A f, g \in 1..Len(input.files) :
                f # g => Held(input.contents[f]) \cap Held(input.contents[g]) = {}
           /\ \A i : RankOf(i) \in Int
<1>0. MergeInput(input)
  BY MergeInputsAssumption
<1>. DEFINE rows == input.rows
<1>1. /\ rows \in Seq(Row) /\ \A i \in 1..Len(rows) : rows[i].key \in Int
      /\ input.contents \in Seq(Seq(1..Len(rows))) /\ Len(input.files) = Len(input.contents)
      /\ \A f \in 1..Len(input.contents) : HoldsContents(rows, input.files[f], input.contents[f])
      /\ \A i \in 1..Len(rows) : \E f \in 1..Len(input.contents) : i \in Held(input.contents[f])
      /\ \A f, g \in 1..Len(input.contents) :
           f # g => Held(input.contents[f]) \cap Held(input.contents[g]) = {}
      /\ input.reversed \in BOOLEAN
  BY <1>0 DEF MergeInput
<1>2. \A i : RankOf(i) \in Int
  BY <1>1 DEF RankOf, Rank
<1>. HIDE DEF rows
<1>3. \A f \in 1..Len(input.contents) : input.contents[f] \in Seq(1..Len(rows))
  BY <1>1
<1>4. Len(rows) \in Nat /\ Len(input.files) \in Nat
  BY <1>1
<1>5. \A f \in 1..Len(input.files) :
        /\ input.contents[f] \in Seq(1..Len(rows))
        /\ HoldsContents(rows, input.files[f], input.contents[f])
  BY <1>1, <1>3
<1>6. /\ \A i \in 1..Len(rows) : \E f \in 1..Len(input.files) : i \in Held(input.contents[f])
      /\ \A f, g \in 1..Len(input.files) :
           f # g => Held(input.contents[f]) \cap Held(input.contents[g]) = {}
  BY <1>1, Zenon
<1>. QED
  BY <1>1, <1>2, <1>4, <1>5, <1>6, Zenon DEF rows

-----------------------------------------------------------------------------
\* The reader of a file is in front of row number p of it, or at its end.
Ready(rows, file, c, rb, p) ==
    /\ rb \in ReadBuf /\ ~rb.dead /\ rb.next \in 0..Len(file)
    /\ rb.next # 0 => rb.buffer = file[rb.next]
    /\ IF c = << >> THEN AtEnd(rb, file)
       ELSE UpcomingTo(rows, file, rb, c[Len(c)], c[1] + p - 1)

\* The numbers of the rows of a file.
LEMMA ContentsFacts ==
    ASSUME NEW rows \in Seq(Row), NEW file, NEW c \in Seq(1..Len(rows)), c # << >>,
           HoldsContents(rows, file, c)
    PROVE  /\ Len(c) \in Nat \ {0} /\ \A k \in 1..Len(c) : c[k] = c[1] + k - 1 /\ c[k] \in 1..Len(rows)
           /\ c[1] \in Nat \ {0} /\ c[Len(c)] \in 0..Len(rows) /\ c[Len(c)] = c[1] + Len(c) - 1
           /\ HoldsRows(rows, file, c[1], c[Len(c)])
<1>1. Len(c) \in Nat \ {0} /\ Len(rows) \in Nat
  OBVIOUS
<1>2. 1 \in 1..Len(c) /\ Len(c) \in 1..Len(c)
  BY <1>1
<1>3. \A k \in 1..Len(c) : c[k] = c[1] + k - 1 /\ c[k] \in 1..Len(rows)
  BY DEF HoldsContents
<1>4. HoldsRows(rows, file, c[1], c[Len(c)])
  BY DEF HoldsContents
<1>5. c[1] \in 1..Len(rows) /\ c[Len(c)] \in 1..Len(rows) /\ c[Len(c)] = c[1] + Len(c) - 1
  BY <1>2, <1>3
<1>. QED
  BY <1>1, <1>3, <1>4, <1>5

\* A read buffer that nothing was read into is in front of the first row.
LEMMA ReadyAtFirst ==
    ASSUME NEW rows \in Seq(Row), NEW file, NEW c \in Seq(1..Len(rows)), HoldsContents(rows, file, c)
    PROVE  Ready(rows, file, c, RbufInit, 1)
<1>. DEFINE rb == RbufInit
<1>1. /\ rb \in ReadBuf /\ rb.next = 0 /\ ~rb.dead /\ rb.offset = rb.chunk_size /\ rb.offset \in Int
  BY FormatAssumption DEF RbufInit, ReadBuf
<1>. HIDE DEF rb
<1>2. CASE c = << >>
  <2>1. file = << >>
    BY <1>2 DEF HoldsContents
  <2>. QED
    BY <1>1, <1>2, <2>1 DEF Ready, AtEnd, BytesLeft, rb
<1>3. CASE c # << >>
  <2>. DEFINE lo == c[1]
              hi == c[Len(c)]
  <2>1. lo \in Nat \ {0} /\ hi \in 0..Len(rows) /\ HoldsRows(rows, file, lo, hi) /\ lo + 1 - 1 = lo
        /\ hi = lo + Len(c) - 1 /\ Len(c) \in Nat \ {0}
    BY <1>3, ContentsFacts
  <2>. HIDE DEF lo, hi
  <2>2. file # << >>
    <3>. SUFFICES ASSUME file = << >> PROVE FALSE
      OBVIOUS
    <3>1. hi = lo - 1
      BY <2>1, FileParts
    <3>. QED
      BY <2>1, <3>1
  <2>3. FirstRow(file[1]) = lo /\ file \in Seq(Seq(Cell)) /\ Len(file) \in Nat \ {0}
    <3>1. file \in Seq(Seq(Cell))
      BY <2>1 DEF HoldsRows
    <3>. QED
      BY <2>1, <2>2, <3>1, FileParts
  <2>4. UpcomingTo(rows, file, rb, hi, lo)
    BY <1>1, <2>3 DEF UpcomingTo
  <2>. QED
    BY <1>1, <1>3, <2>1, <2>3, <2>4 DEF Ready, rb, lo, hi
<1>. QED
  BY <1>2, <1>3

\* load_next() on file meta returns row number p of it, if there is one, and
\* the raw row made of it shows that row.
LEMMA LoadsHead ==
    ASSUME NEW in, NEW meta \in Nat, in.rows \in Seq(Row),
           in.contents[meta] \in Seq(1..Len(in.rows)),
           HoldsContents(in.rows, in.files[meta], in.contents[meta]),
           NEW p \in Nat \ {0}, p <= Len(in.contents[meta]),
           NEW rb, Ready(in.rows, in.files[meta], in.contents[meta], rb, p)
    PROVE  LET l == LoadNext(rb, in.rows, in.files[meta])
               raw == RowToRaw(meta, l.rbuf, in.rows)
           IN  /\ l.outcome = "row" /\ l.rbuf \in ReadBuf
               /\ raw \in RawRows /\ raw.meta = meta /\ ShowsHead(in, l.rbuf, raw, p)
<1>. DEFINE rows == in.rows
            file == in.files[meta]
            c == in.contents[meta]
            l == LoadNext(rb, rows, file)
            raw == RowToRaw(meta, l.rbuf, rows)
            lo == c[1]
            hi == c[Len(c)]
            n == c[p]
<1>1. rows \in Seq(Row) /\ c \in Seq(1..Len(rows)) /\ HoldsContents(rows, file, c) /\ Len(rows) \in Nat
      /\ p \in Nat \ {0} /\ p <= Len(c) /\ Len(c) \in Nat /\ Ready(rows, file, c, rb, p)
  OBVIOUS
<1>. HIDE DEF rows, file, c
<1>2. c # << >> /\ p \in 1..Len(c)
  BY <1>1
<1>3. /\ lo \in Nat \ {0} /\ hi \in 0..Len(rows) /\ HoldsRows(rows, file, lo, hi)
      /\ n = lo + p - 1 /\ n \in 1..Len(rows) /\ hi = lo + Len(c) - 1
  BY <1>1, <1>2, ContentsFacts
<1>4. /\ rb \in ReadBuf /\ ~rb.dead /\ rb.next \in 0..Len(file)
      /\ rb.next # 0 => rb.buffer = file[rb.next]
      /\ UpcomingTo(rows, file, rb, hi, lo + p - 1)
  BY <1>1, <1>2 DEF Ready
<1>. HIDE DEF lo, hi, n, l, raw
<1>5. n \in 1..hi /\ UpcomingTo(rows, file, rb, hi, n) /\ n \in Nat
  BY <1>1, <1>3, <1>4
<1>. DEFINE Returns(m) ==
       /\ m.outcome = "row" /\ m.row = n
       /\ m.rbuf \in ReadBuf /\ ~m.rbuf.dead /\ m.rbuf.next \in 0..Len(file)
       /\ UpcomingTo(rows, file, m.rbuf, hi, n + 1)
<1>6. /\ l.outcome = "row" /\ l.rbuf \in ReadBuf /\ ~l.rbuf.dead
      /\ UpcomingTo(rows, file, l.rbuf, hi, n + 1)
  <2>1. /\ lo \in Nat \ {0} /\ hi \in 0..Len(rows) /\ HoldsRows(rows, file, lo, hi)
        /\ rb \in ReadBuf /\ ~rb.dead /\ rb.next \in 0..Len(file)
        /\ n \in 1..hi /\ UpcomingTo(rows, file, rb, hi, n)
    BY <1>3, <1>4, <1>5
  <2>2. Returns(LoadNext(rb, rows, file))
    BY <2>1, LoadUpcomingIn, SMTT(30)
  <2>. QED
    BY <2>2 DEF l
<1>7. Points(rows, file, l.rbuf, n)
  BY <1>3, <1>4, <1>5, LoadPointsIn DEF l
<1>. DEFINE after == l.rbuf
<1>8. PICK q \in Nat : RowAt(rows, after.buffer, q, n) /\ after.at = q + HeaderSize(rows[n])
  BY <1>7 DEF Points
<1>9. after.next \in 1..Len(file) /\ after.buffer = file[after.next] /\ after \in ReadBuf
  BY <1>6, <1>7 DEF Points
<1>. HIDE DEF after
<1>10. /\ RowToRaw(meta, after, rows) \in RawRows
  BY <1>1, <1>5, <1>8, <1>9, RowToRawType
<1>11. LET r == RowToRaw(meta, after, rows)
       IN  /\ r.meta = meta
           /\ ShowsRow(r, after.buffer, rows) /\ RawRow(r, after.buffer) = n
  BY <1>1, <1>5, <1>8, <1>9, RawShowsRow, SMTT(30)
<1>12. raw = RowToRaw(meta, after, rows)
  BY DEF after, raw
<1>13. raw \in RawRows /\ raw.meta = meta /\ ShowsRow(raw, after.buffer, rows) /\ RawRow(raw, after.buffer) = n
  BY <1>10, <1>11, <1>12
<1>14. ShowsHead(in, after, raw, p)
  BY <1>6, <1>9, <1>13 DEF ShowsHead, rows, file, c, n, hi, after
<1>. QED
  BY <1>6, <1>13, <1>14 DEF raw, after, l, rows, file

\* After the last row load_next() stops.
LEMMA LoadsNone ==
    ASSUME NEW rows \in Seq(Row), NEW file, NEW c \in Seq(1..Len(rows)), HoldsContents(rows, file, c),
           NEW rb, Ready(rows, file, c, rb, Len(c) + 1)
    PROVE  LET l == LoadNext(rb, rows, file)
           IN  l.outcome = "stop" /\ l.rbuf \in ReadBuf
<1>. DEFINE l == LoadNext(rb, rows, file)
<1>1. rb \in ReadBuf /\ ~rb.dead /\ rb.next \in 0..Len(file)
  BY DEF Ready
<1>2. l = Loaded(ReadEof(rb), 0, "stop")
  <2>1. CASE c = << >>
    <3>1. AtEnd(rb, file)
      BY <2>1 DEF Ready
    <3>. QED
      BY <1>1, <3>1, LoadAtEnd
  <2>2. CASE c # << >>
    <3>. DEFINE lo == c[1]
                hi == c[Len(c)]
    <3>1. /\ lo \in Nat \ {0} /\ hi \in 0..Len(rows) /\ HoldsRows(rows, file, lo, hi)
          /\ hi = lo + Len(c) - 1 /\ Len(c) \in Nat
      BY <2>2, ContentsFacts
    <3>2. UpcomingTo(rows, file, rb, hi, lo + (Len(c) + 1) - 1)
      BY <2>2 DEF Ready
    <3>. HIDE DEF lo, hi, l
    <3>3. lo + (Len(c) + 1) - 1 = hi + 1
      BY <3>1
    <3>4. UpcomingTo(rows, file, rb, hi, hi + 1)
      BY <3>2, <3>3
    <3>. QED
      BY <1>1, <3>1, <3>4, LoadStopsIn DEF l
  <2>. QED
    BY <2>1, <2>2
<1>3. ReadEof(rb) \in ReadBuf
  BY <1>1, ReadEofType
<1>. HIDE DEF l
<1>4. l.outcome = "stop" /\ l.rbuf \in ReadBuf
  BY <1>2, <1>3 DEF Loaded
<1>. QED
  BY <1>4 DEF l

-----------------------------------------------------------------------------
\* The ranks of the raw rows in a heap, which come from where they point.
LEMMA RanksOf ==
    ASSUME input \in Inputs, NEW h, NEW rb
    PROVE  /\ Ranks(h, rb) = [raw \in Held(h) |-> RankOf(RawRow(raw, rb[raw.meta].buffer))]
           /\ Ranks(h, rb) \in [Held(h) -> Int]
           /\ \A raw \in Held(h) : Ranks(h, rb)[raw] = RankOf(RawRow(raw, rb[raw.meta].buffer))
<1>1. \A i : RankOf(i) \in Int
  BY InputFacts
<1>2. Ranks(h, rb) = [raw \in Held(h) |-> RankOf(RawRow(raw, rb[raw.meta].buffer))]
  BY DEF Ranks, Held
<1>. QED
  BY <1>1, <1>2

\* A sequence stays in heap order when the ranks of what it holds stay the same.
LEMMA SameOrder ==
    ASSUME NEW S, NEW h \in Seq(S), NEW rank1, NEW rank2, \A x \in Held(h) : rank1[x] = rank2[x],
           HeapOrder(h, rank1)
    PROVE  HeapOrder(h, rank2)
<1>. SUFFICES ASSUME NEW i \in 2..Len(h) PROVE rank2[h[Parent(i)]] <= rank2[h[i]]
  BY DEF HeapOrder
<1>1. i \in 1..Len(h) /\ i \in Nat /\ i >= 2 /\ Len(h) \in Nat
  OBVIOUS
<1>2. Parent(i) \in 1..Len(h)
  <2>1. Parent(i) \in Nat /\ Parent(i) >= 1 /\ Parent(i) < i
    BY <1>1, ParentOf
  <2>. QED
    BY <1>1, <2>1
<1>3. h[i] \in Held(h) /\ h[Parent(i)] \in Held(h)
  BY <1>1, <1>2 DEF Held
<1>4. rank1[h[Parent(i)]] <= rank1[h[i]]
  BY DEF HeapOrder
<1>. QED
  BY <1>3, <1>4

\* A sequence is one of the values that it holds.
LEMMA HeldIn ==
    ASSUME NEW S, NEW h \in Seq(S)
    PROVE  h \in Seq(Held(h)) /\ Held(h) \subseteq S
BY DEF Held

\* Insert() of a raw row for a file that is not in the heap, and whose read
\* buffer is the only one that changed.
LEMMA InsertsRow ==
    ASSUME input \in Inputs, NEW h \in Seq(RawRows), NEW rb1, NEW rb2, NEW raw \in RawRows,
           Once(h), HeapOrder(h, Ranks(h, rb1)), raw \notin Held(h),
           \A x \in Held(h) : rb2[x.meta] = rb1[x.meta]
    PROVE  LET g == Insert(h, raw, rb2)
           IN  /\ g \in Seq(RawRows) /\ Once(g) /\ Held(g) = Held(h) \union {raw}
               /\ HeapOrder(g, Ranks(g, rb2))
<1>. DEFINE t == Append(h, raw)
            S == Held(h) \union {raw}
            rank == Ranks(t, rb2)
            g == HeapInsert(h, raw, rank)
<1>1. Held(t) = S /\ t \in Seq(RawRows)
  BY HeldLast
<1>2. rank \in [S -> Int] /\ \A x \in S : rank[x] = RankOf(RawRow(x, rb2[x.meta].buffer))
  <2>. HIDE DEF t, S
  <2>. QED
    BY <1>1, RanksOf
<1>3. h \in Seq(Held(h)) /\ Held(h) \subseteq RawRows
  BY HeldIn
<1>4. h \in Seq(S) /\ S \subseteq RawRows /\ raw \in S
  BY <1>3
<1>. HIDE DEF t, rank, g, S
<1>5. \A x \in Held(h) : Ranks(h, rb1)[x] = rank[x]
  BY <1>2, RanksOf DEF S
<1>6. HeapOrder(h, rank)
  BY <1>5, SameOrder
<1>7. IsHeap(h, S, rank)
  BY <1>4, <1>6 DEF IsHeap
<1>8. IsHeap(g, S, rank) /\ Held(g) = Held(h) \union {raw}
  BY <1>2, <1>4, <1>7, Inserted DEF g
<1>9. g \in Seq(S) /\ Once(g) /\ HeapOrder(g, rank) /\ Held(g) = S
  BY <1>8 DEF IsHeap, S
<1>10. HeapOrder(g, Ranks(g, rb2))
  <2>1. \A x \in Held(g) : rank[x] = Ranks(g, rb2)[x]
    BY <1>2, <1>9, RanksOf
  <2>. QED
    BY <1>9, <2>1, SameOrder
<1>11. g \in Seq(RawRows)
  BY <1>4, <1>9
<1>. QED
  BY <1>8, <1>9, <1>10, <1>11 DEF Insert, g, t, rank

\* Delete() takes a raw row away than which no other ranks lower.
LEMMA DeletesRow ==
    ASSUME input \in Inputs, NEW h \in Seq(RawRows), h # << >>, NEW rb,
           Once(h), HeapOrder(h, Ranks(h, rb))
    PROVE  LET g == Delete(h, rb)
           IN  /\ g \in Seq(RawRows) /\ Once(g) /\ Held(g) = Held(h) \ {h[1]}
               /\ HeapOrder(g, Ranks(g, rb)) /\ h[1] \in Held(h) /\ h[1] \in RawRows
               /\ \A raw \in Held(h) : Ranks(h, rb)[h[1]] <= Ranks(h, rb)[raw]
<1>. DEFINE S == Held(h)
            rank == Ranks(h, rb)
            g == HeapDelete(h, rank)
<1>1. rank \in [S -> Int] /\ \A x \in S : rank[x] = RankOf(RawRow(x, rb[x.meta].buffer))
  BY RanksOf
<1>2. h \in Seq(S) /\ S \subseteq RawRows
  BY HeldIn
<1>3. 1 \in 1..Len(h)
  OBVIOUS
<1>4. h[1] \in S
  BY <1>3 DEF Held
<1>5. \A raw \in S : \E k \in 1..Len(h) : raw = h[k]
  BY DEF Held
<1>. HIDE DEF rank, g, S
<1>6. IsHeap(h, S, rank)
  BY <1>2 DEF IsHeap, rank
<1>7. IsHeap(g, S, rank) /\ Held(g) = Held(h) \ {h[1]}
  BY <1>1, <1>6, Deleted DEF g
<1>8. g \in Seq(S) /\ Once(g) /\ HeapOrder(g, rank) /\ Held(g) \subseteq S
  BY <1>7 DEF IsHeap, S
<1>9. HeapOrder(g, Ranks(g, rb))
  <2>1. \A x \in Held(g) : rank[x] = Ranks(g, rb)[x]
    BY <1>1, <1>8, RanksOf
  <2>. QED
    BY <1>8, <2>1, SameOrder
<1>10. g \in Seq(RawRows)
  BY <1>2, <1>8
<1>11. \A k \in 1..Len(h) : rank[h[1]] <= rank[h[k]]
  BY <1>1, <1>6, RootIsLeast
<1>12. \A raw \in S : rank[h[1]] <= rank[raw]
  BY <1>5, <1>11
<1>13. /\ g \in Seq(RawRows) /\ Once(g) /\ Held(g) = Held(h) \ {h[1]}
       /\ HeapOrder(g, Ranks(g, rb)) /\ h[1] \in Held(h) /\ h[1] \in RawRows
  BY <1>2, <1>4, <1>7, <1>8, <1>9, <1>10 DEF S
<1>. QED
  BY <1>12, <1>13 DEF Delete, g, rank, S

-----------------------------------------------------------------------------
\* The elements of c from number p on, as many as there are up to number k.
Rest(c, p, k) == [j \in 1..(IF k < p THEN 0 ELSE k + 1 - p) |-> c[p + j - 1]]

\* One more of them.
LEMMA RestGrows ==
    ASSUME NEW S, NEW c \in Seq(S), NEW p \in Nat \ {0}, NEW k \in 1..Len(c)
    PROVE  Rest(c, p, k) = IF k < p THEN Rest(c, p, k - 1) ELSE Append(Rest(c, p, k - 1), c[k])
<1>1. Len(c) \in Nat /\ k \in Nat /\ k >= 1 /\ p \in Nat /\ p >= 1
  OBVIOUS
<1>2. CASE k < p
  <2>1. k - 1 < p
    BY <1>1, <1>2
  <2>. QED
    BY <1>2, <2>1 DEF Rest
<1>3. CASE ~(k < p)
  <2>. DEFINE m == k - p
              s == [j \in 1..m |-> c[p + j - 1]]
              t == [j \in 1..m + 1 |-> c[p + j - 1]]
  <2>1. m \in Nat /\ m = (IF k - 1 < p THEN 0 ELSE (k - 1) + 1 - p) /\ m + 1 = k + 1 - p /\ p + (m + 1) - 1 = k
    BY <1>1, <1>3
  <2>2. Rest(c, p, k - 1) = s /\ Rest(c, p, k) = t
    BY <1>3, <2>1 DEF Rest
  <2>. HIDE DEF m
  <2>3. \A j \in 1..m + 1 : p + j - 1 \in 1..Len(c)
    BY <1>1, <2>1 DEF m
  <2>4. \A j \in 1..m + 1 : c[p + j - 1] \in S
    BY <2>3
  <2>5. \A j \in 1..m : j \in 1..m + 1
    BY <2>1
  <2>6. s \in Seq(S) /\ Len(s) = m /\ \A j \in 1..m : s[j] = c[p + j - 1]
    BY <2>1, <2>4, <2>5
  <2>7. t \in Seq(S) /\ Len(t) = m + 1 /\ \A j \in 1..m + 1 : t[j] = c[p + j - 1]
    BY <2>1, <2>4
  <2>8. c[k] \in S /\ t[m + 1] = c[k]
    BY <2>1, <2>7
  <2>. HIDE DEF s, t
  <2>9. t = Append(s, c[k])
    <3>. DEFINE u == Append(s, c[k])
    <3>1. u \in Seq(S) /\ Len(u) = m + 1 /\ u[m + 1] = c[k] /\ \A j \in 1..m : u[j] = s[j]
      <4>1. s \in Seq(S) /\ c[k] \in S /\ Len(s) = m
        BY <2>6, <2>8
      <4>2. /\ u \in Seq(S) /\ Len(u) = Len(s) + 1 /\ u[Len(s) + 1] = c[k]
            /\ \A j \in 1..Len(s) : u[j] = s[j]
        BY <4>1, HeldLast
      <4>. QED
        BY <4>1, <4>2
    <3>. HIDE DEF u
    <3>2. ASSUME NEW j \in 1..m + 1 PROVE t[j] = u[j]
      <4>1. CASE j = m + 1
        BY <2>8, <3>1, <4>1
      <4>2. CASE j # m + 1
        <5>1. j \in 1..m
          BY <2>1, <4>2
        <5>. QED
          BY <2>6, <2>7, <3>1, <5>1
      <4>. QED
        BY <4>1, <4>2
    <3>. QED
      BY <2>7, <3>1, <3>2, SeqEqual DEF u
  <2>. QED
    BY <1>3, <2>2, <2>9
<1>. QED
  BY <1>2, <1>3

\* When the rows in W are those before number p of c, those from number p on
\* are left.
LEMMA RestIsLeft ==
    ASSUME NEW S, NEW c \in Seq(S), NEW W, NEW p \in Nat \ {0},
           \A k \in 1..Len(c) : c[k] \in W <=> k < p
    PROVE  Without(c, W) = Rest(c, p, Len(c))
<1>. DEFINE n == Len(c)
            E == [k \in 0..n |-> Rest(c, p, k)]
            g == CHOOSE g : g = [k \in 0..Len(c) |->
                                   IF k = 0 THEN << >>
                                   ELSE IF c[k] \in W THEN g[k - 1] ELSE Append(g[k - 1], c[k])]
<1>1. Without(c, W) = g[n]
  BY Zenon DEF Without
<1>. HIDE DEF g
<1>2. n \in Nat /\ \A k \in 1..n : c[k] \in W <=> k < p
  OBVIOUS
<1>3. E = [k \in 0..Len(c) |->
             IF k = 0 THEN << >>
             ELSE IF c[k] \in W THEN E[k - 1] ELSE Append(E[k - 1], c[k])]
  <2>1. E[0] = << >>
    <3>1. E[0] = Rest(c, p, 0) /\ 0 < p
      BY <1>2
    <3>. QED
      BY <3>1 DEF Rest
  <2>2. ASSUME NEW k \in 1..n
        PROVE  E[k] = IF c[k] \in W THEN E[k - 1] ELSE Append(E[k - 1], c[k])
    <3>1. k \in 0..n /\ k - 1 \in 0..n
      BY <1>2
    <3>2. E[k] = Rest(c, p, k) /\ E[k - 1] = Rest(c, p, k - 1)
      BY <3>1
    <3>. HIDE DEF E, n
    <3>3. Rest(c, p, k) = IF k < p THEN Rest(c, p, k - 1) ELSE Append(Rest(c, p, k - 1), c[k])
      BY <1>2, RestGrows DEF n
    <3>. QED
      BY <1>2, <3>2, <3>3
  <2>3. \A k \in 0..n : k = 0 \/ k \in 1..n
    BY <1>2
  <2>4. E = [k \in 0..n |-> E[k]]
    OBVIOUS
  <2>. HIDE DEF E
  <2>5. [k \in 0..n |-> E[k]]
        = [k \in 0..n |-> IF k = 0 THEN << >>
                          ELSE IF c[k] \in W THEN E[k - 1] ELSE Append(E[k - 1], c[k])]
    BY <2>1, <2>2, <2>3
  <2>. QED
    BY <2>4, <2>5
<1>4. \A k \in 0..n : E[k] = Rest(c, p, k)
  OBVIOUS
<1>. HIDE DEF E
<1>5. g = [k \in 0..Len(c) |->
             IF k = 0 THEN << >>
             ELSE IF c[k] \in W THEN g[k - 1] ELSE Append(g[k - 1], c[k])]
  BY <1>3, Zenon DEF g
<1>. DEFINE P == {k \in 0..n : g[k] = E[k]}
<1>6. \A h : h = [k \in 0..n |-> IF k = 0 THEN << >>
                                 ELSE IF c[k] \in W THEN h[k - 1] ELSE Append(h[k - 1], c[k])]
        => /\ h[0] = << >>
           /\ \A k \in 1..n : h[k] = IF c[k] \in W THEN h[k - 1] ELSE Append(h[k - 1], c[k])
  <2>1. 0 \in 0..n /\ \A k \in 1..n : k \in 0..n /\ k # 0
    BY <1>2
  <2>. HIDE DEF n
  <2>. QED
    BY <2>1
<1>7. /\ g[0] = << >> /\ E[0] = << >>
      /\ \A k \in 1..n : g[k] = IF c[k] \in W THEN g[k - 1] ELSE Append(g[k - 1], c[k])
      /\ \A k \in 1..n : E[k] = IF c[k] \in W THEN E[k - 1] ELSE Append(E[k - 1], c[k])
  BY <1>3, <1>5, <1>6
<1>8. \A k \in 0..n : k \in P
  <2>1. 0 \in P
    BY <1>2, <1>7
  <2>2. ASSUME NEW k \in 1..n, k - 1 \in P PROVE k \in P
    BY <1>7, <2>2
  <2>. HIDE DEF P, n
  <2>. QED
    BY <1>2, <2>1, <2>2, UpFromZero
<1>9. n \in 0..n
  BY <1>2
<1>. QED
  BY <1>1, <1>4, <1>8, <1>9

\* So what is left starts with number p.
LEMMA LeftStarts ==
    ASSUME NEW S, NEW c \in Seq(S), NEW W, NEW p \in Nat \ {0}, p <= Len(c) + 1,
           \A k \in 1..Len(c) : c[k] \in W <=> k < p
    PROVE  LET s == Without(c, W)
           IN  /\ s \in Seq(S) /\ Len(s) = Len(c) + 1 - p
               /\ \A k \in 1..Len(s) : s[k] = c[p + k - 1]
               /\ s = << >> <=> p = Len(c) + 1
<1>. DEFINE m == Len(c) + 1 - p
            s == Without(c, W)
<1>1. m \in Nat /\ Len(c) \in Nat
  OBVIOUS
<1>2. s = [j \in 1..m |-> c[p + j - 1]]
  <2>1. s = Rest(c, p, Len(c))
    BY RestIsLeft
  <2>2. (IF Len(c) < p THEN 0 ELSE Len(c) + 1 - p) = m
    OBVIOUS
  <2>. QED
    BY <2>1, <2>2 DEF Rest
<1>3. \A j \in 1..m : c[p + j - 1] \in S
  <2>1. \A j \in 1..m : p + j - 1 \in 1..Len(c)
    OBVIOUS
  <2>. HIDE DEF m
  <2>. QED
    BY <2>1
<1>4. m = 0 <=> p = Len(c) + 1
  OBVIOUS
<1>. HIDE DEF m, s
<1>5. s \in Seq(S) /\ Len(s) = m /\ \A k \in 1..m : s[k] = c[p + k - 1]
  BY <1>1, <1>2, <1>3
<1>6. s = << >> <=> m = 0
  BY <1>1, <1>5
<1>. QED
  BY <1>4, <1>5, <1>6 DEF m, s

-----------------------------------------------------------------------------
\* The heap invariants, of any heap, read buffers, set of rows that were
\* written and number of files seeded: what holds in the middle of a step.
BeforeIn(W, f, p) ==
    \A k \in 1..Len(input.contents[f]) : input.contents[f][k] \in W <=> k < p

ShowsFile(h, rb, W, raw) ==
    \E p \in 1..Len(input.contents[raw.meta]) :
        ShowsHead(input, rb[raw.meta], raw, p) /\ BeforeIn(W, raw.meta, p)

Shows(h, rb, W, s) ==
    /\ h \in Seq(RawRows) /\ Once(h) /\ HeapOrder(h, Ranks(h, rb))
    /\ \A raw1, raw2 \in Held(h) : raw1 # raw2 => raw1.meta # raw2.meta
    /\ \A raw \in Held(h) : raw.meta \in 1..s /\ ShowsFile(h, rb, W, raw)

\* What LoadInto() does to a heap without the file f, of which row number p
\* is the next to be read.
LoadsNumber(h, f, p) ==
    LET c == input.contents[f] IN
    IF p <= Len(c)
    THEN \E raw \in RawRows : /\ raw.meta = f /\ Held(heap') = Held(h) \union {raw}
                              /\ RawRow(raw, rbuf'[f].buffer) = c[p]
    ELSE heap' = h

\* load_next() puts the next row of a file in the heap that lacks that file, or
\* leaves the heap alone at the end of the file; the other raw rows are good.
LEMMA Loads ==
    ASSUME input \in Inputs, rbuf \in [1..Len(input.files) -> ReadBuf],
           NEW h, NEW W, NEW s \in 0..Len(input.files), Shows(h, rbuf, W, s),
           NEW f \in 1..s, \A raw \in Held(h) : raw.meta # f,
           NEW p \in Nat \ {0}, p <= Len(input.contents[f]) + 1,
           Ready(input.rows, input.files[f], input.contents[f], rbuf[f], p),
           BeforeIn(W, f, p), LoadInto(h, f)
    PROVE  /\ pc' = pc /\ rbuf' \in [1..Len(input.files) -> ReadBuf]
           /\ \A g \in 1..Len(input.files) : g # f => rbuf'[g] = rbuf[g]
           /\ Shows(heap', rbuf', W, s) /\ LoadsNumber(h, f, p)
<1>. DEFINE n == Len(input.files)
            rows == input.rows
            file == input.files[f]
            c == input.contents[f]
            l == LoadNext(rbuf[f], rows, file)
            rb == [rbuf EXCEPT ![f] = l.rbuf]
            raw == RowToRaw(f, l.rbuf, rows)
<1>1. /\ n \in Nat /\ f \in 1..n /\ f \in Nat /\ rows \in Seq(Row) /\ c \in Seq(1..Len(rows)) /\ Len(c) \in Nat
      /\ HoldsContents(rows, file, c)
  <2>1. n \in Nat /\ rows \in Seq(Row)
    BY InputFacts
  <2>2. f \in 1..n /\ f \in Nat
    BY <2>1
  <2>3. c \in Seq(1..Len(rows)) /\ HoldsContents(rows, file, c)
    BY <2>2, InputFacts
  <2>. QED
    BY <2>1, <2>2, <2>3
<1>2. /\ rbuf' = rb /\ heap' = IF l.outcome = "row" THEN Insert(h, RowToRaw(f, rb[f], rows), rb) ELSE h
      /\ pc' = IF l.outcome = "fatal" THEN "fatal" ELSE pc
  BY DEF LoadInto
<1>. HIDE DEF l
<1>3. rb[f] = l.rbuf /\ \A g \in 1..n : g # f => rb[g] = rbuf[g]
  BY <1>1
<1>4. /\ h \in Seq(RawRows) /\ Once(h) /\ HeapOrder(h, Ranks(h, rbuf))
      /\ \A raw1, raw2 \in Held(h) : raw1 # raw2 => raw1.meta # raw2.meta
      /\ \A r \in Held(h) : r.meta \in 1..s /\ ShowsFile(h, rbuf, W, r)
  BY DEF Shows
<1>5. \A r \in Held(h) : r.meta \in 1..n /\ r.meta # f /\ rb[r.meta] = rbuf[r.meta]
  <2>1. \A r \in Held(h) : r.meta \in 1..n
    BY <1>1, <1>4
  <2>. QED
    BY <1>3, <2>1
<1>6. \A r \in Held(h) : ShowsFile(heap', rb, W, r)
  BY <1>4, <1>5 DEF ShowsFile
<1>7. CASE p <= Len(c)
  <2>. HIDE DEF rb, raw
  <2>1. /\ l.outcome = "row" /\ l.rbuf \in ReadBuf
        /\ raw \in RawRows /\ raw.meta = f /\ ShowsHead(input, l.rbuf, raw, p)
    <3>. DEFINE in == input
    <3>1. /\ in.rows \in Seq(Row) /\ in.contents[f] \in Seq(1..Len(in.rows))
          /\ HoldsContents(in.rows, in.files[f], in.contents[f])
          /\ p <= Len(in.contents[f])
          /\ Ready(in.rows, in.files[f], in.contents[f], rbuf[f], p)
      BY <1>1, <1>7
    <3>2. f \in Nat /\ p \in Nat \ {0}
      BY <1>1
    <3>. HIDE DEF in
    <3>3. LET m == LoadNext(rbuf[f], in.rows, in.files[f])
              r == RowToRaw(f, m.rbuf, in.rows)
          IN  /\ m.outcome = "row" /\ m.rbuf \in ReadBuf
              /\ r \in RawRows /\ r.meta = f /\ ShowsHead(in, m.rbuf, r, p)
      BY <3>1, <3>2, LoadsHead
    <3>. QED
      BY <3>3 DEF in, l, raw
  <2>2. raw \notin Held(h)
    BY <2>1
  <2>3. heap' = Insert(h, raw, rb)
    BY <1>2, <1>3, <2>1 DEF raw
  <2>4. /\ heap' \in Seq(RawRows) /\ Once(heap') /\ Held(heap') = Held(h) \union {raw}
        /\ HeapOrder(heap', Ranks(heap', rb))
    <3>1. LET g == Insert(h, raw, rb)
          IN  /\ g \in Seq(RawRows) /\ Once(g) /\ Held(g) = Held(h) \union {raw}
              /\ HeapOrder(g, Ranks(g, rb))
      BY <1>4, <1>5, <2>1, <2>2, InsertsRow
    <3>. QED
      BY <2>3, <3>1
  <2>5. ShowsFile(heap', rb, W, raw)
    <3>1. p \in 1..Len(c)
      BY <1>1, <1>7
    <3>. QED
      BY <1>3, <2>1, <3>1 DEF ShowsFile
  <2>6. \A raw1, raw2 \in Held(heap') : raw1 # raw2 => raw1.meta # raw2.meta
    BY <1>4, <1>5, <2>1, <2>4
  <2>7. Shows(heap', rb, W, s)
    BY <1>4, <1>6, <2>1, <2>4, <2>5, <2>6 DEF Shows
  <2>8. rb \in [1..n -> ReadBuf]
    BY <2>1 DEF rb
  <2>9. RawRow(raw, rb[f].buffer) = c[p]
    BY <1>3, <2>1 DEF ShowsHead
  <2>10. pc' = pc
    BY <1>2, <2>1
  <2>. QED
    BY <1>2, <1>3, <1>7, <2>1, <2>4, <2>7, <2>8, <2>9, <2>10 DEF LoadsNumber
<1>8. CASE ~(p <= Len(c))
  <2>. HIDE DEF rb
  <2>1. p = Len(c) + 1
    <3>1. p \in Nat /\ p <= Len(c) + 1
      OBVIOUS
    <3>. HIDE DEF c
    <3>. QED
      BY <1>1, <1>8, <3>1, SMTT(30)
  <2>2. l.outcome = "stop" /\ l.rbuf \in ReadBuf
    <3>1. Ready(rows, file, c, rbuf[f], Len(c) + 1)
      BY <2>1
    <3>. HIDE DEF rows, file, c
    <3>. QED
      BY <1>1, <3>1, LoadsNone DEF l
  <2>3. heap' = h /\ pc' = pc
    BY <1>2, <2>2
  <2>4. rb \in [1..n -> ReadBuf]
    BY <2>2 DEF rb
  <2>5. HeapOrder(h, Ranks(h, rb))
    <3>1. \A r \in Held(h) : Ranks(h, rbuf)[r] = Ranks(h, rb)[r]
      BY <1>5, RanksOf
    <3>. QED
      BY <1>4, <3>1, SameOrder
  <2>6. Shows(heap', rb, W, s)
    BY <1>4, <1>6, <2>3, <2>5 DEF Shows
  <2>. QED
    BY <1>2, <1>3, <1>8, <2>3, <2>4, <2>6 DEF LoadsNumber
<1>. QED
  BY <1>7, <1>8

-----------------------------------------------------------------------------
\* The other two parts of the invariant, likewise.
FilesAre(h, rb, W, s) ==
    \A f \in 1..Len(input.files) :
        /\ f > s => rb[f] = RbufInit
        /\ f <= s /\ (\A raw \in Held(h) : raw.meta # f)
             => BeforeIn(W, f, Len(input.contents[f]) + 1)

OutIs(h, rb, out) ==
    /\ out \in Seq(1..Len(input.rows)) /\ Once(out)
    /\ SortedFiles =>
         /\ \A i, j \in 1..Len(out) : i < j => RankOf(out[i]) <= RankOf(out[j])
         /\ \A k \in 1..Len(out), raw \in Held(h) :
              RankOf(out[k]) <= RankOf(RawRow(raw, rb[raw.meta].buffer))

\* What the invariant says of a state, in these terms.
LEMMA StateFacts ==
    ASSUME IInv
    PROVE  /\ input \in Inputs /\ rbuf \in [1..Len(input.files) -> ReadBuf]
           /\ seeded \in 0..Len(input.files) /\ seeded \in Nat /\ WholeOutput(input.rows, wbuf)
           /\ Shows(heap, rbuf, Written, seeded) /\ FilesAre(heap, rbuf, Written, seeded)
           /\ OutIs(heap, rbuf, RowsOut(wbuf))
<1>1. /\ input \in Inputs /\ rbuf \in [1..Len(input.files) -> ReadBuf] /\ heap \in Seq(RawRows)
      /\ seeded \in 0..Len(input.files) /\ WholeOutput(input.rows, wbuf)
  BY DEF IInv, Typed
<1>2. seeded \in Nat
  BY <1>1, InputFacts
<1>3. \A raw \in Held(heap) : raw.meta \in 1..seeded /\ ShowsFile(heap, rbuf, Written, raw)
  BY DEF IInv, HeadsInv, ShowsFile, BeforeIn, WrittenBefore
<1>4. Shows(heap, rbuf, Written, seeded)
  BY <1>1, <1>3 DEF IInv, HeapInv, Shows
<1>5. FilesAre(heap, rbuf, Written, seeded)
  BY DEF IInv, FilesInv, FilesAre, BeforeIn, WrittenBefore
<1>6. OutIs(heap, rbuf, RowsOut(wbuf))
  BY DEF IInv, OutInv, OutIs
<1>. QED
  BY <1>1, <1>2, <1>4, <1>5, <1>6

\* And what is to be shown of the state after a step.
LEMMA StateAfter ==
    ASSUME input' = input, Typed', PhaseInv',
           Shows(heap', rbuf', Held(RowsOut(wbuf')), seeded'),
           FilesAre(heap', rbuf', Held(RowsOut(wbuf')), seeded'),
           OutIs(heap', rbuf', RowsOut(wbuf'))
    PROVE  IInv'
<1>1. Written' = Held(RowsOut(wbuf'))
  BY DEF Written
<1>2. \A f, p : WrittenBefore(f, p)' <=> BeforeIn(Held(RowsOut(wbuf')), f, p)
  BY <1>1 DEF WrittenBefore, BeforeIn
<1>3. HeapInv'
  <2>1. Ranks(heap, rbuf)' = Ranks(heap', rbuf')
    BY DEF Ranks, RankOf
  <2>. QED
    BY <2>1 DEF HeapInv, Shows
<1>4. HeadsInv'
  BY <1>2 DEF HeadsInv, Shows, ShowsFile
<1>5. FilesInv'
  BY <1>2 DEF FilesInv, FilesAre
<1>6. OutInv'
  <2>1. \A i : RankOf(i)' = RankOf(i)
    BY DEF RankOf
  <2>2. SortedFiles' <=> SortedFiles
    BY DEF SortedFiles, RankOf
  <2>. QED
    BY <2>2 DEF OutInv, OutIs, RankOf
<1>. QED
  BY <1>3, <1>4, <1>5, <1>6 DEF IInv

\* At first the heap is empty, and nothing is read or written.
LEMMA Starts == Init => IInv
<1>. SUFFICES ASSUME Init PROVE IInv
  OBVIOUS
<1>. DEFINE n == Len(input.files)
<1>1. /\ input \in Inputs /\ rbuf = [f \in 1..n |-> RbufInit] /\ heap = << >> /\ wbuf = WbufInit
      /\ seeded = 0 /\ pc = "seed"
  BY DEF Init
<1>2. n \in Nat
  BY <1>1, InputFacts
<1>3. RowsOut(wbuf) = << >> /\ WholeOutput(input.rows, wbuf)
  BY <1>1, NothingOut
<1>4. RbufInit \in ReadBuf
  BY FormatAssumption DEF RbufInit, ReadBuf
<1>5. << >> \in Seq(RawRows) /\ Held(<< >>) = {} /\ Len(<< >>) = 0
  BY DEF Held
<1>. HIDE DEF n
<1>6. Typed
  BY <1>1, <1>2, <1>3, <1>4, <1>5 DEF Typed, n
<1>7. PhaseInv
  BY <1>1, <1>3 DEF PhaseInv
<1>8. HeapInv /\ HeadsInv
  BY <1>1, <1>5 DEF HeapInv, HeadsInv, Once, HeapOrder
<1>9. FilesInv
  <2>1. \A f \in 1..n : ~(f <= 0) /\ rbuf[f] = RbufInit
    BY <1>1, <1>2
  <2>. QED
    BY <1>1, <2>1 DEF FilesInv, n
<1>10. OutInv
  BY <1>1, <1>3, <1>5 DEF OutInv, Once
<1>. QED
  BY <1>6, <1>7, <1>8, <1>9, <1>10 DEF IInv

\* The first row of a file goes into the heap, if it has one.
LEMMA Seeds ==
    ASSUME IInv, Seed
    PROVE  IInv'
<1>. DEFINE n == Len(input.files)
            f == seeded + 1
            rows == input.rows
            c == input.contents[f]
<1>1. /\ input \in Inputs /\ rbuf \in [1..n -> ReadBuf]
      /\ seeded \in 0..n /\ seeded \in Nat /\ WholeOutput(rows, wbuf)
      /\ Shows(heap, rbuf, Written, seeded) /\ FilesAre(heap, rbuf, Written, seeded)
      /\ OutIs(heap, rbuf, RowsOut(wbuf))
  BY StateFacts
<1>2. /\ pc = "seed" /\ seeded < n /\ LoadInto(heap, f)
      /\ seeded' = f /\ input' = input /\ wbuf' = wbuf
  BY DEF Seed
<1>3. n \in Nat /\ f \in 1..n /\ f \in 0..n /\ f \in 1..f /\ f > seeded /\ f \in Nat
  <2>1. n \in Nat
    BY <1>1, InputFacts
  <2>. QED
    BY <1>1, <1>2, <2>1
<1>4. RowsOut(wbuf) = << >> /\ Written = {}
  BY <1>2 DEF IInv, PhaseInv, Written, Held
<1>5. /\ rows \in Seq(Row) /\ c \in Seq(1..Len(rows)) /\ Len(c) \in Nat
      /\ HoldsContents(rows, input.files[f], c)
  <2>1. rows \in Seq(Row) /\ c \in Seq(1..Len(rows)) /\ HoldsContents(rows, input.files[f], c)
    BY <1>1, <1>3, InputFacts
  <2>. QED
    BY <2>1
<1>. HIDE DEF f, c, n, rows
<1>6. rbuf[f] = RbufInit
  BY <1>1, <1>3 DEF FilesAre, n
<1>7. Ready(rows, input.files[f], c, rbuf[f], 1)
  BY <1>5, <1>6, ReadyAtFirst
<1>8. \A raw \in Held(heap) : raw.meta \in 1..seeded
  BY <1>1 DEF Shows
<1>9. \A raw \in Held(heap) : raw.meta # f /\ raw.meta \in 1..f
  BY <1>1, <1>3, <1>8
<1>10. Shows(heap, rbuf, Written, f)
  BY <1>1, <1>9 DEF Shows
<1>11. BeforeIn(Written, f, 1)
  BY <1>4, <1>5 DEF BeforeIn, c
<1>12. 1 \in Nat \ {0} /\ 1 <= Len(c) + 1
  BY <1>5
<1>13. /\ pc' = pc /\ rbuf' \in [1..n -> ReadBuf]
       /\ \A g \in 1..n : g # f => rbuf'[g] = rbuf[g]
       /\ Shows(heap', rbuf', Written, f) /\ LoadsNumber(heap, f, 1)
  BY <1>1, <1>2, <1>3, <1>7, <1>9, <1>10, <1>11, <1>12, Loads DEF c, n, rows
<1>14. Held(heap) \subseteq Held(heap')
  BY <1>13 DEF LoadsNumber
<1>15. FilesAre(heap', rbuf', Written, f)
  <2>. SUFFICES ASSUME NEW g \in 1..n
                PROVE  /\ g > f => rbuf'[g] = RbufInit
                       /\ g <= f /\ (\A raw \in Held(heap') : raw.meta # g)
                            => BeforeIn(Written, g, Len(input.contents[g]) + 1)
    BY DEF FilesAre, n
  <2>1. ASSUME g > f PROVE rbuf'[g] = RbufInit
    <3>1. g > seeded /\ g # f
      BY <1>1, <1>3, <2>1
    <3>. QED
      BY <1>1, <1>13, <3>1 DEF FilesAre, n
  <2>2. ASSUME g <= f, \A raw \in Held(heap') : raw.meta # g
        PROVE  BeforeIn(Written, g, Len(input.contents[g]) + 1)
    <3>1. CASE g = f
      <4>1. ~(1 <= Len(c))
        BY <1>13, <2>2, <3>1 DEF LoadsNumber, c
      <4>2. Len(c) + 1 = 1
        BY <1>5, <4>1
      <4>. QED
        BY <1>11, <3>1, <4>2 DEF c
    <3>2. CASE g # f
      <4>1. g <= seeded
        BY <1>1, <1>3, <2>2, <3>2 DEF f
      <4>. QED
        BY <1>1, <1>14, <2>2, <4>1 DEF FilesAre, n
    <3>. QED
      BY <3>1, <3>2
  <2>. QED
    BY <2>1, <2>2
<1>16. OutIs(heap', rbuf', RowsOut(wbuf))
  BY <1>1, <1>4 DEF OutIs
<1>17. heap' \in Seq(RawRows)
  BY <1>13 DEF Shows
<1>18. Typed'
  BY <1>1, <1>2, <1>3, <1>13, <1>17 DEF Typed, n, rows
<1>19. PhaseInv'
  <2>1. RowsOut(wbuf)' = << >>
    BY <1>2, <1>4
  <2>. QED
    BY <1>2, <1>13, <2>1 DEF PhaseInv
<1>. QED
  BY <1>2, <1>13, <1>15, <1>16, <1>18, <1>19, StateAfter DEF Written

\* The step from the first loop to the second, and the end.
LEMMA StartsMerging ==
    ASSUME IInv, Seeded
    PROVE  IInv'
<1>1. /\ pc = "seed" /\ seeded = Len(input.files) /\ pc' = "merge"
      /\ UNCHANGED <<input, rbuf, heap, wbuf, seeded>>
  BY DEF Seeded
<1>2. Typed' /\ PhaseInv'
  BY <1>1 DEF IInv, Typed, PhaseInv
<1>. QED
  BY <1>1, <1>2, StateFacts, StateAfter DEF Written

\* The last flush leaves the rows of the output as they are.
LEMMA Finishes ==
    ASSUME IInv, Finish
    PROVE  IInv'
<1>1. /\ pc = "merge" /\ heap = << >> /\ wbuf' = WriteFlush(wbuf) /\ pc' = "done"
      /\ UNCHANGED <<input, rbuf, heap, seeded>>
  BY DEF Finish
<1>2. WholeOutput(input.rows, wbuf') /\ wbuf'.buffer = << >>
  BY <1>1, FlushWholeRows DEF IInv, Typed
<1>3. RowsOut(wbuf') = RowsOut(wbuf)
  BY <1>1, FlushedRows DEF IInv, Typed, WholeOutput
<1>4. Typed' /\ PhaseInv'
  BY <1>1, <1>2 DEF IInv, Typed, PhaseInv
<1>. QED
  BY <1>1, <1>3, <1>4, StateFacts, StateAfter DEF Written

\* A step that changes nothing.
LEMMA Stutters ==
    ASSUME IInv, UNCHANGED vars
    PROVE  IInv'
<1>1. UNCHANGED <<input, rbuf, heap, wbuf, seeded, pc>>
  BY DEF vars
<1>2. Typed' /\ PhaseInv'
  BY <1>1 DEF IInv, Typed, PhaseInv
<1>. QED
  BY <1>1, <1>2, StateFacts, StateAfter DEF Written

-----------------------------------------------------------------------------
\* When row number p of a file is written the next one is the first that is
\* left of it, and nothing changes for the other files.
LEMMA OneWritten ==
    ASSUME input \in Inputs, NEW f \in 1..Len(input.files), NEW p \in 1..Len(input.contents[f]),
           NEW W, BeforeIn(W, f, p)
    PROVE  LET i == input.contents[f][p]
           IN  /\ i \in 1..Len(input.rows) /\ i \notin W /\ BeforeIn(W \union {i}, f, p + 1)
               /\ \A g \in 1..Len(input.files) : \A q :
                    g # f /\ BeforeIn(W, g, q) => BeforeIn(W \union {i}, g, q)
<1>. DEFINE c == input.contents[f]
            i == c[p]
            rows == input.rows
<1>1. /\ rows \in Seq(Row) /\ c \in Seq(1..Len(rows)) /\ Len(c) \in Nat
      /\ HoldsContents(rows, input.files[f], c)
  <2>1. rows \in Seq(Row) /\ c \in Seq(1..Len(rows)) /\ HoldsContents(rows, input.files[f], c)
    BY InputFacts
  <2>. QED
    BY <2>1
<1>2. p \in 1..Len(c)
  OBVIOUS
<1>3. i \in Held(c)
  BY <1>2 DEF Held
<1>4. \A k \in 1..Len(c) : c[k] \in W <=> k < p
  BY DEF BeforeIn
<1>5. ASSUME NEW g \in 1..Len(input.files), g # f, NEW q, BeforeIn(W, g, q)
      PROVE  BeforeIn(W \union {i}, g, q)
  <2>1. Held(input.contents[f]) \cap Held(input.contents[g]) = {}
    BY <1>5, InputFacts
  <2>2. \A k \in 1..Len(input.contents[g]) : input.contents[g][k] \in Held(input.contents[g])
    BY DEF Held
  <2>3. \A k \in 1..Len(input.contents[g]) : input.contents[g][k] # i
    BY <1>3, <2>1, <2>2
  <2>. QED
    BY <1>5, <2>3 DEF BeforeIn
<1>. HIDE DEF c, rows
<1>6. c # << >>
  BY <1>1, <1>2
<1>7. \A k \in 1..Len(c) : c[k] = c[1] + k - 1 /\ c[k] \in 1..Len(rows) /\ c[1] \in Nat
  BY <1>1, <1>6, ContentsFacts
<1>8. \A k \in 1..Len(c) : c[k] = i <=> k = p
  <2>. SUFFICES ASSUME NEW k \in 1..Len(c) PROVE c[k] = i <=> k = p
    OBVIOUS
  <2>1. c[k] = c[1] + k - 1 /\ i = c[1] + p - 1 /\ c[1] \in Nat
    BY <1>2, <1>7
  <2>. HIDE DEF i
  <2>2. CASE k = p
    BY <2>1, <2>2
  <2>3. CASE k # p
    BY <1>1, <1>2, <2>1, <2>3, SMTT(30)
  <2>. QED
    BY <2>2, <2>3 DEF i
<1>9. i \notin W
  BY <1>2, <1>4
<1>. HIDE DEF i
<1>10. \A k \in 1..Len(c) : c[k] \in W \union {i} <=> k < p + 1
  BY <1>1, <1>2, <1>4, <1>8
<1>11. BeforeIn(W \union {i}, f, p + 1)
  BY <1>10 DEF BeforeIn, c
<1>. QED
  BY <1>2, <1>5, <1>7, <1>9, <1>11 DEF c, i, rows

\* A row that was not written and does not rank before one that was, nor after
\* one that is shown, may be written next.
LEMMA OutAfter ==
    ASSUME input \in Inputs, NEW h, NEW rb, NEW out, OutIs(h, rb, out),
           NEW i \in 1..Len(input.rows), i \notin Held(out), NEW h2, NEW rb2,
           SortedFiles => \A k \in 1..Len(out) : RankOf(out[k]) <= RankOf(i),
           SortedFiles => \A raw \in Held(h2) : RankOf(i) <= RankOf(RawRow(raw, rb2[raw.meta].buffer))
    PROVE  OutIs(h2, rb2, Append(out, i))
<1>. DEFINE n == Len(out)
            out2 == Append(out, i)
            Shown(raw) == RankOf(RawRow(raw, rb2[raw.meta].buffer))
<1>1. out \in Seq(1..Len(input.rows)) /\ Once(out)
  BY DEF OutIs
<1>2. /\ out2 \in Seq(1..Len(input.rows)) /\ Len(out2) = n + 1 /\ n \in Nat
      /\ \A k \in 1..n : out2[k] = out[k]
      /\ out2[n + 1] = i /\ Once(out2)
  BY <1>1, HeldLast
<1>3. \A k : RankOf(k) \in Int
  BY InputFacts
<1>. HIDE DEF n, out2
<1>4. \A k \in 1..n + 1 : k \in 1..n \/ k = n + 1
  BY <1>2
<1>5. ASSUME SortedFiles
      PROVE  /\ \A j, k \in 1..n + 1 : j < k => RankOf(out2[j]) <= RankOf(out2[k])
             /\ \A k \in 1..n + 1, raw \in Held(h2) : RankOf(out2[k]) <= Shown(raw)
  <2>1. /\ \A j, k \in 1..n : j < k => RankOf(out[j]) <= RankOf(out[k])
        /\ \A k \in 1..n : RankOf(out[k]) <= RankOf(i)
        /\ \A raw \in Held(h2) : RankOf(i) <= Shown(raw)
    BY <1>5 DEF OutIs, n
  <2>2. \A raw : Shown(raw) \in Int
    BY <1>3
  <2>. HIDE DEF Shown
  <2>3. ASSUME NEW j \in 1..n + 1, NEW k \in 1..n + 1, j < k PROVE RankOf(out2[j]) <= RankOf(out2[k])
    <3>1. j \in 1..n
      BY <1>2, <2>3
    <3>2. CASE k \in 1..n
      BY <1>2, <2>1, <2>3, <3>1, <3>2
    <3>3. CASE k = n + 1
      BY <1>2, <2>1, <3>1, <3>3
    <3>. QED
      BY <1>4, <3>2, <3>3
  <2>4. ASSUME NEW k \in 1..n + 1, NEW raw \in Held(h2) PROVE RankOf(out2[k]) <= Shown(raw)
    <3>1. RankOf(out2[k]) <= RankOf(i)
      <4>1. CASE k \in 1..n
        BY <1>2, <2>1, <4>1
      <4>2. CASE k = n + 1
        BY <1>2, <1>3, <4>2
      <4>. QED
        BY <1>4, <4>1, <4>2
    <3>2. RankOf(i) <= Shown(raw)
      BY <2>1
    <3>3. RankOf(out2[k]) \in Int /\ RankOf(i) \in Int /\ Shown(raw) \in Int
      BY <1>3, <2>2
    <3>. QED
      BY <3>1, <3>2, <3>3
  <2>. QED
    BY <2>3, <2>4
<1>. QED
  BY <1>2, <1>5 DEF OutIs, out2

\* MergeRow writes row number p of file f, which the root of the heap shows,
\* and loads the next row of that file.
TakesRow(f, p) ==
    LET c == input.contents[f]
        i == c[p]
        h == Delete(heap, rbuf)
    IN  /\ f \in 1..seeded /\ f \in 1..Len(input.files) /\ p \in 1..Len(c)
        /\ BeforeIn(Written, f, p)
        /\ Held(h) \subseteq Held(heap) /\ \A raw \in Held(heap) : raw \in Held(h) <=> raw.meta # f
        /\ RowsOut(wbuf') = Append(RowsOut(wbuf), i) /\ WholeOutput(input.rows, wbuf')
        /\ pc' = pc /\ input' = input /\ seeded' = seeded
        /\ rbuf' \in [1..Len(input.files) -> ReadBuf]
        /\ \A g \in 1..Len(input.files) : g # f => rbuf'[g] = rbuf[g]
        /\ Shows(heap', rbuf', Written \union {i}, seeded) /\ LoadsNumber(h, f, p + 1)
        /\ \E raw \in Held(heap) : raw.meta = f /\ RawRow(raw, rbuf[f].buffer) = i
        /\ \A raw \in Held(heap) : RankOf(i) <= RankOf(RawRow(raw, rbuf[raw.meta].buffer))

\* MergeRow does what TakesRow() says, of the file that the root is of.
LEMMA Takes ==
    ASSUME IInv, MergeRow
    PROVE  \E f, p : TakesRow(f, p)
<1>. DEFINE n == Len(input.files)
            rows == input.rows
            top == heap[1]
            f == top.meta
            c == input.contents[f]
            h == Delete(heap, rbuf)
<1>1. /\ input \in Inputs /\ rbuf \in [1..n -> ReadBuf]
      /\ seeded \in 0..n /\ seeded \in Nat /\ WholeOutput(rows, wbuf)
      /\ Shows(heap, rbuf, Written, seeded)
  BY StateFacts
<1>2. /\ pc = "merge" /\ heap # << >> /\ wbuf' = DumpRaw(wbuf, top, rbuf[f].buffer)
      /\ LoadInto(h, f) /\ input' = input /\ seeded' = seeded
  BY DEF MergeRow
<1>3. /\ heap \in Seq(RawRows) /\ Once(heap) /\ HeapOrder(heap, Ranks(heap, rbuf))
      /\ \A raw1, raw2 \in Held(heap) : raw1 # raw2 => raw1.meta # raw2.meta
      /\ \A raw \in Held(heap) : raw.meta \in 1..seeded /\ ShowsFile(heap, rbuf, Written, raw)
  BY <1>1 DEF Shows
<1>4. /\ h \in Seq(RawRows) /\ Once(h) /\ Held(h) = Held(heap) \ {top}
      /\ HeapOrder(h, Ranks(h, rbuf)) /\ top \in Held(heap)
      /\ \A raw \in Held(heap) : Ranks(heap, rbuf)[top] <= Ranks(heap, rbuf)[raw]
  BY <1>1, <1>2, <1>3, DeletesRow
<1>5. PICK p \in 1..Len(c) : ShowsHead(input, rbuf[f], top, p) /\ BeforeIn(Written, f, p)
  BY <1>3, <1>4 DEF ShowsFile
<1>. DEFINE i == c[p]
            W == Written \union {i}
<1>6. n \in Nat /\ rows \in Seq(Row) /\ f \in 1..seeded /\ f \in 1..n
  <2>1. n \in Nat /\ rows \in Seq(Row)
    BY <1>1, InputFacts
  <2>2. f \in 1..seeded
    BY <1>3, <1>4
  <2>3. f \in 1..n
    BY <1>1, <2>1, <2>2
  <2>. QED
    BY <2>1, <2>2, <2>3
<1>7. c \in Seq(1..Len(rows)) /\ HoldsContents(rows, input.files[f], c) /\ Len(c) \in Nat
  <2>1. c \in Seq(1..Len(rows)) /\ HoldsContents(rows, input.files[f], c)
    BY <1>1, <1>6, InputFacts
  <2>. QED
    BY <2>1
<1>. HIDE DEF h, top, f
<1>8. /\ i \in 1..Len(rows) /\ i \notin Written /\ BeforeIn(W, f, p + 1)
      /\ \A g \in 1..n : \A q : g # f /\ BeforeIn(Written, g, q) => BeforeIn(W, g, q)
  BY <1>1, <1>5, <1>6, OneWritten
<1>9. /\ ShowsRow(top, rbuf[f].buffer, rows) /\ RawRow(top, rbuf[f].buffer) = i
      /\ ~rbuf[f].dead /\ rbuf[f].next \in 1..Len(input.files[f])
      /\ rbuf[f].buffer = input.files[f][rbuf[f].next]
      /\ UpcomingTo(rows, input.files[f], rbuf[f], c[Len(c)], i + 1)
  BY <1>5 DEF ShowsHead, f
<1>. HIDE DEF rows, n, c, i, W
<1>10. RowsOut(wbuf') = Append(RowsOut(wbuf), i) /\ WholeOutput(rows, wbuf')
  <2>. DEFINE buffer == rbuf[f].buffer
  <2>1. rows \in Seq(Row) /\ WholeOutput(rows, wbuf) /\ ShowsRow(top, buffer, rows)
    BY <1>1, <1>6, <1>9
  <2>. HIDE DEF buffer
  <2>2. LET v == DumpRaw(wbuf, top, buffer)
        IN  WholeOutput(rows, v) /\ RowsOut(v) = Append(RowsOut(wbuf), RawRow(top, buffer))
    BY <2>1, DumpRawResult
  <2>. QED
    BY <1>2, <1>9, <2>2 DEF buffer
<1>11. p \in Nat /\ p + 1 \in Nat \ {0} /\ p + 1 <= Len(c) + 1 /\ c # << >> /\ i + 1 = c[1] + (p + 1) - 1
  <2>1. p \in 1..Len(c) /\ c # << >>
    BY <1>5, <1>7
  <2>2. c[p] = c[1] + p - 1 /\ c[1] \in Nat
    BY <1>6, <1>7, <2>1, ContentsFacts
  <2>. QED
    BY <1>7, <2>1, <2>2 DEF i
<1>12. Ready(rows, input.files[f], c, rbuf[f], p + 1)
  <2>1. rbuf[f] \in ReadBuf /\ rbuf[f].next \in 0..Len(input.files[f])
    BY <1>1, <1>6, <1>9
  <2>. QED
    BY <1>9, <1>11, <2>1 DEF Ready
<1>13. \A raw \in Held(h) : raw \in Held(heap) /\ raw.meta # f
  BY <1>3, <1>4 DEF f
<1>14. Shows(h, rbuf, W, seeded)
  <2>1. ASSUME NEW raw \in Held(h) PROVE raw.meta \in 1..seeded /\ ShowsFile(h, rbuf, W, raw)
    <3>1. raw.meta \in 1..seeded /\ ShowsFile(heap, rbuf, Written, raw) /\ raw.meta # f
      BY <1>3, <1>13
    <3>2. raw.meta \in 1..n
      BY <1>1, <1>6, <3>1
    <3>. QED
      BY <1>8, <3>1, <3>2 DEF ShowsFile
  <2>2. \A raw1, raw2 \in Held(h) : raw1 # raw2 => raw1.meta # raw2.meta
    BY <1>3, <1>13
  <2>. QED
    BY <1>4, <2>1, <2>2 DEF Shows
<1>15. /\ pc' = pc /\ rbuf' \in [1..n -> ReadBuf]
       /\ \A g \in 1..n : g # f => rbuf'[g] = rbuf[g]
       /\ Shows(heap', rbuf', W, seeded) /\ LoadsNumber(h, f, p + 1)
  <2>. DEFINE q == p + 1
  <2>1. /\ rbuf \in [1..Len(input.files) -> ReadBuf] /\ seeded \in 0..Len(input.files)
        /\ q \in Nat \ {0} /\ q <= Len(input.contents[f]) + 1 /\ BeforeIn(W, f, q)
        /\ Ready(input.rows, input.files[f], input.contents[f], rbuf[f], q)
    BY <1>1, <1>8, <1>11, <1>12 DEF n, rows, c
  <2>. HIDE DEF q
  <2>2. /\ pc' = pc /\ rbuf' \in [1..Len(input.files) -> ReadBuf]
        /\ \A g \in 1..Len(input.files) : g # f => rbuf'[g] = rbuf[g]
        /\ Shows(heap', rbuf', W, seeded) /\ LoadsNumber(h, f, q)
    BY <1>1, <1>2, <1>6, <1>13, <1>14, <2>1, Loads
  <2>. QED
    BY <2>2 DEF q, n
<1>16. \A raw \in Held(heap) : RankOf(i) <= RankOf(RawRow(raw, rbuf[raw.meta].buffer))
  <2>0. input \in Inputs
    BY <1>1
  <2>1. \A raw \in Held(heap) : Ranks(heap, rbuf)[raw] = RankOf(RawRow(raw, rbuf[raw.meta].buffer))
    BY <2>0, RanksOf, SMTT(30)
  <2>2. Ranks(heap, rbuf)[top] = RankOf(i)
    BY <1>4, <1>9, <2>1, SMTT(30) DEF f
  <2>. QED
    BY <1>4, <2>1, <2>2
<1>17. /\ Held(h) \subseteq Held(heap) /\ \A raw \in Held(heap) : raw \in Held(h) <=> raw.meta # f
       /\ \E raw \in Held(heap) : raw.meta = f /\ RawRow(raw, rbuf[f].buffer) = i
  BY <1>3, <1>4, <1>9 DEF f
<1>18. TakesRow(f, p)
  BY <1>2, <1>5, <1>6, <1>10, <1>15, <1>16, <1>17 DEF TakesRow, n, rows, c, i, W, h
<1>. QED
  BY <1>18

\* It keeps the invariant.
LEMMA MergesRow ==
    ASSUME IInv, MergeRow
    PROVE  IInv'
<1>1. PICK f, p : TakesRow(f, p)
  BY Takes
<1>. DEFINE n == Len(input.files)
            rows == input.rows
            c == input.contents[f]
            i == c[p]
            h == Delete(heap, rbuf)
            out == RowsOut(wbuf)
            W == Written \union {i}
<1>2. /\ input \in Inputs /\ seeded \in 0..n /\ seeded \in Nat
      /\ FilesAre(heap, rbuf, Written, seeded) /\ OutIs(heap, rbuf, out)
  BY StateFacts
<1>3. /\ f \in 1..seeded /\ f \in 1..n /\ p \in 1..Len(c)
      /\ BeforeIn(Written, f, p)
      /\ Held(h) \subseteq Held(heap) /\ \A raw \in Held(heap) : raw \in Held(h) <=> raw.meta # f
      /\ RowsOut(wbuf') = Append(out, i) /\ WholeOutput(rows, wbuf')
      /\ pc' = pc /\ input' = input /\ seeded' = seeded
      /\ rbuf' \in [1..n -> ReadBuf]
      /\ \A g \in 1..n : g # f => rbuf'[g] = rbuf[g]
      /\ Shows(heap', rbuf', W, seeded) /\ LoadsNumber(h, f, p + 1)
      /\ \E raw \in Held(heap) : raw.meta = f /\ RawRow(raw, rbuf[f].buffer) = i
      /\ \A raw \in Held(heap) : RankOf(i) <= RankOf(RawRow(raw, rbuf[raw.meta].buffer))
  BY <1>1 DEF TakesRow
<1>4. pc = "merge" /\ heap # << >>
  BY DEF MergeRow
<1>. HIDE DEF h
<1>5. /\ i \in 1..Len(rows) /\ i \notin Written /\ BeforeIn(W, f, p + 1)
      /\ \A g \in 1..n : \A q : g # f /\ BeforeIn(Written, g, q) => BeforeIn(W, g, q)
  BY <1>2, <1>3, OneWritten
<1>6. n \in Nat /\ Len(c) \in Nat /\ p \in Nat
  <2>1. n \in Nat /\ c \in Seq(1..Len(rows))
    BY <1>2, <1>3, InputFacts
  <2>. QED
    BY <1>3, <2>1
<1>7. Held(h) \subseteq Held(heap')
  BY <1>3 DEF LoadsNumber
<1>. HIDE DEF n, rows, c, i, W, out
<1>8. Held(RowsOut(wbuf')) = W
  <2>1. out \in Seq(1..Len(rows)) /\ Written = Held(out)
    BY <1>2 DEF OutIs, Written, out, rows
  <2>2. Held(Append(out, i)) = Held(out) \union {i}
    BY <1>5, <2>1, HeldLast
  <2>. QED
    BY <1>3, <2>1, <2>2 DEF W
<1>9. FilesAre(heap', rbuf', W, seeded)
  <2>. SUFFICES ASSUME NEW g \in 1..n
                PROVE  /\ g > seeded => rbuf'[g] = RbufInit
                       /\ g <= seeded /\ (\A raw \in Held(heap') : raw.meta # g)
                            => BeforeIn(W, g, Len(input.contents[g]) + 1)
    BY DEF FilesAre, n
  <2>1. ASSUME g > seeded PROVE rbuf'[g] = RbufInit
    <3>1. g # f
      BY <1>2, <1>3, <2>1
    <3>. QED
      BY <1>2, <1>3, <2>1, <3>1 DEF FilesAre, n
  <2>2. ASSUME g <= seeded, \A raw \in Held(heap') : raw.meta # g
        PROVE  BeforeIn(W, g, Len(input.contents[g]) + 1)
    <3>1. CASE g = f
      <4>1. ~(p + 1 <= Len(c))
        BY <1>3, <2>2, <3>1 DEF LoadsNumber, c
      <4>2. Len(c) + 1 = p + 1
        <5>1. p <= Len(c)
          BY <1>3, <1>6
        <5>. QED
          BY <1>6, <4>1, <5>1
      <4>. QED
        BY <1>5, <3>1, <4>2 DEF c
    <3>2. CASE g # f
      <4>1. \A raw \in Held(heap) : raw.meta # g
        BY <1>3, <1>7, <2>2, <3>2
      <4>2. BeforeIn(Written, g, Len(input.contents[g]) + 1)
        BY <1>2, <2>2, <4>1 DEF FilesAre, n
      <4>. QED
        BY <1>5, <3>2, <4>2
    <3>. QED
      BY <3>1, <3>2
  <2>. QED
    BY <2>1, <2>2
<1>10. /\ SortedFiles => \A k \in 1..Len(out) : RankOf(out[k]) <= RankOf(i)
       /\ SortedFiles => \A raw \in Held(heap') : RankOf(i) <= RankOf(RawRow(raw, rbuf'[raw.meta].buffer))
  <2>. SUFFICES ASSUME SortedFiles
                PROVE  /\ \A k \in 1..Len(out) : RankOf(out[k]) <= RankOf(i)
                       /\ \A raw \in Held(heap') : RankOf(i) <= RankOf(RawRow(raw, rbuf'[raw.meta].buffer))
    OBVIOUS
  <2>1. \A k \in 1..Len(out) : RankOf(out[k]) <= RankOf(i)
    <3>1. PICK raw \in Held(heap) : raw.meta = f /\ RawRow(raw, rbuf[f].buffer) = i
      BY <1>3
    <3>. QED
      BY <1>2, <3>1 DEF OutIs
  <2>2. ASSUME NEW raw \in Held(heap') PROVE RankOf(i) <= RankOf(RawRow(raw, rbuf'[raw.meta].buffer))
    <3>1. CASE raw \in Held(h)
      <4>1. raw \in Held(heap) /\ raw.meta # f
        BY <1>3, <3>1
      <4>2. raw.meta \in 1..n
        <5>1. raw.meta \in 1..seeded
          BY <2>2, <1>3 DEF Shows
        <5>. QED
          BY <1>2, <1>6, <5>1
      <4>. QED
        BY <1>3, <4>1, <4>2
    <3>2. CASE raw \notin Held(h)
      <4>1. p + 1 <= Len(c)
        BY <1>3, <2>2, <3>2 DEF LoadsNumber, c
      <4>2. raw.meta = f /\ RawRow(raw, rbuf'[f].buffer) = c[p + 1]
        BY <1>3, <2>2, <3>2, <4>1 DEF LoadsNumber, c
      <4>3. p + 1 \in 1..Len(c) /\ p < p + 1 /\ p \in 1..Len(c)
        BY <1>3, <1>6, <4>1
      <4>4. f \in 1..Len(input.contents)
        BY <1>2, <1>3, InputFacts DEF n
      <4>5. RankOf(c[p]) <= RankOf(c[p + 1])
        BY <4>3, <4>4 DEF SortedFiles, c
      <4>. QED
        BY <4>2, <4>5 DEF i
    <3>. QED
      BY <3>1, <3>2
  <2>. QED
    BY <2>1, <2>2
<1>11. OutIs(heap', rbuf', RowsOut(wbuf'))
  <2>1. i \notin Held(out)
    BY <1>5 DEF Written, out
  <2>2. OutIs(heap, rbuf, out) /\ i \in 1..Len(input.rows)
    BY <1>2, <1>5 DEF rows
  <2>3. OutIs(heap', rbuf', Append(out, i))
    BY <1>2, <1>10, <2>1, <2>2, OutAfter
  <2>. QED
    BY <1>3, <2>3
<1>12. heap' \in Seq(RawRows)
  BY <1>3 DEF Shows
<1>13. Typed'
  BY <1>2, <1>3, <1>4, <1>12 DEF Typed, n, rows
<1>14. PhaseInv'
  BY <1>2, <1>3, <1>4 DEF IInv, PhaseInv, n
<1>. QED
  BY <1>3, <1>8, <1>9, <1>11, <1>13, <1>14, StateAfter

\* Every step of bmerge keeps the invariant.
LEMMA NextInvariant == IInv /\ [Next]_vars => IInv'
<1>. SUFFICES ASSUME IInv, [Next]_vars PROVE IInv'
  OBVIOUS
<1>1. CASE Seed
  BY <1>1, Seeds
<1>2. CASE Seeded
  BY <1>2, StartsMerging
<1>3. CASE MergeRow
  BY <1>3, MergesRow
<1>4. CASE Finish
  BY <1>4, Finishes
<1>5. CASE UNCHANGED vars
  BY <1>5, Stutters
<1>. QED
  BY <1>1, <1>2, <1>3, <1>4, <1>5 DEF Next, Terminated

\* The invariant holds from the beginning.
THEOREM Invariance == Spec => []IInv
<1>1. Init => IInv
  BY Starts
<1>2. IInv /\ [Next]_vars => IInv'
  BY NextInvariant
<1>. QED
  BY <1>1, <1>2, PTL DEF Spec

-----------------------------------------------------------------------------
\* Number p is the first row that is left of file f; if a raw row in the heap
\* is one of that file it shows that row, and if f was seeded there is one.
HeadAt(f, p) ==
    LET c == input.contents[f] IN
    /\ p \in Nat \ {0} /\ p <= Len(c) + 1 /\ BeforeIn(Written, f, p)
    /\ \A raw \in Held(heap) : raw.meta = f =>
         /\ p <= Len(c) /\ ShowsRow(raw, rbuf[f].buffer, input.rows)
         /\ RawRow(raw, rbuf[f].buffer) = c[p]
    /\ f <= seeded /\ p <= Len(c) => \E raw \in Held(heap) : raw.meta = f

\* Every file has such a number, the one past its end when it was all written.
LEMMA HeadOf ==
    ASSUME IInv, NEW f \in 1..Len(input.files)
    PROVE  \E p : HeadAt(f, p)
<1>. DEFINE c == input.contents[f]
            n == Len(input.files)
<1>1. /\ input \in Inputs /\ seeded \in 0..n /\ seeded \in Nat
      /\ Shows(heap, rbuf, Written, seeded) /\ FilesAre(heap, rbuf, Written, seeded)
  BY StateFacts
<1>2. c \in Seq(1..Len(input.rows)) /\ n \in Nat /\ f \in Nat
  BY <1>1, InputFacts
<1>3. Len(c) \in Nat
  BY <1>2
<1>4. /\ \A raw1, raw2 \in Held(heap) : raw1 # raw2 => raw1.meta # raw2.meta
      /\ \A raw \in Held(heap) : raw.meta \in 1..seeded /\ ShowsFile(heap, rbuf, Written, raw)
  BY <1>1 DEF Shows
<1>. HIDE DEF c
<1>5. ASSUME NEW raw \in Held(heap), raw.meta = f
      PROVE  \E p : HeadAt(f, p)
  <2>1. PICK p \in 1..Len(c) : ShowsHead(input, rbuf[f], raw, p) /\ BeforeIn(Written, f, p)
    BY <1>4, <1>5 DEF ShowsFile, c
  <2>2. ShowsRow(raw, rbuf[f].buffer, input.rows) /\ RawRow(raw, rbuf[f].buffer) = c[p]
    BY <1>5, <2>1 DEF ShowsHead, c
  <2>3. \A other \in Held(heap) : other.meta = f => other = raw
    BY <1>4, <1>5
  <2>4. p \in Nat \ {0} /\ p <= Len(c) /\ p <= Len(c) + 1
    BY <1>3
  <2>5. HeadAt(f, p)
    BY <1>5, <2>1, <2>2, <2>3, <2>4 DEF HeadAt, c
  <2>. QED
    BY <2>5
<1>6. ASSUME \A raw \in Held(heap) : raw.meta # f, f <= seeded
      PROVE  HeadAt(f, Len(c) + 1)
  <2>1. BeforeIn(Written, f, Len(c) + 1)
    BY <1>1, <1>6 DEF FilesAre, c
  <2>2. Len(c) + 1 \in Nat \ {0} /\ ~(Len(c) + 1 <= Len(c))
    BY <1>3
  <2>. QED
    BY <1>3, <1>6, <2>1, <2>2 DEF HeadAt, c
<1>7. ASSUME ~(f <= seeded)
      PROVE  HeadAt(f, 1)
  <2>1. pc = "seed"
    BY <1>1, <1>2, <1>7 DEF IInv, PhaseInv
  <2>2. Written = {}
    BY <2>1 DEF IInv, PhaseInv, Written, Held
  <2>3. BeforeIn(Written, f, 1)
    BY <1>3, <2>2 DEF BeforeIn, c
  <2>4. \A raw \in Held(heap) : raw.meta # f
    BY <1>1, <1>2, <1>4, <1>7
  <2>5. 1 \in Nat \ {0} /\ 1 <= Len(c) + 1
    BY <1>3
  <2>. QED
    BY <1>7, <2>3, <2>4, <2>5 DEF HeadAt, c
<1>. QED
  BY <1>5, <1>6, <1>7

\* What is left of file f then.
LEMMA LeftOf ==
    ASSUME IInv, NEW f \in 1..Len(input.files), NEW p, HeadAt(f, p)
    PROVE  LET c == input.contents[f]
           IN  /\ c \in Seq(1..Len(input.rows)) /\ Len(c) \in Nat
               /\ Left(f) \in Seq(1..Len(input.rows)) /\ Len(Left(f)) = Len(c) + 1 - p
               /\ \A k \in 1..Len(Left(f)) : Left(f)[k] = c[p + k - 1]
               /\ Left(f) = << >> <=> p = Len(c) + 1
<1>. DEFINE c == input.contents[f]
            S == 1..Len(input.rows)
<1>1. input \in Inputs
  BY StateFacts
<1>2. c \in Seq(S)
  BY <1>1, InputFacts
<1>3. /\ p \in Nat \ {0} /\ p <= Len(c) + 1
      /\ \A k \in 1..Len(c) : c[k] \in Written <=> k < p
  BY DEF HeadAt, BeforeIn
<1>4. Left(f) = Without(c, Written)
  BY DEF Left
<1>. HIDE DEF c, S
<1>5. Len(c) \in Nat
  BY <1>2
<1>6. LET s == Without(c, Written)
      IN  /\ s \in Seq(S) /\ Len(s) = Len(c) + 1 - p
          /\ \A k \in 1..Len(s) : s[k] = c[p + k - 1]
          /\ s = << >> <=> p = Len(c) + 1
  BY <1>2, <1>3, LeftStarts
<1>. QED
  BY <1>2, <1>4, <1>5, <1>6 DEF c, S

\* A file of which a row is left: p is the number of the first.
LEMMA FirstLeft ==
    ASSUME IInv, NEW f \in 1..Len(input.files), NEW p, HeadAt(f, p), p <= Len(input.contents[f])
    PROVE  Left(f) # << >> /\ Left(f)[1] = input.contents[f][p]
<1>. DEFINE c == input.contents[f]
<1>1. /\ Len(c) \in Nat /\ Len(Left(f)) = Len(c) + 1 - p
      /\ \A k \in 1..Len(Left(f)) : Left(f)[k] = c[p + k - 1]
      /\ Left(f) = << >> <=> p = Len(c) + 1
  BY LeftOf
<1>2. p \in Nat \ {0} /\ p <= Len(c)
  BY DEF HeadAt
<1>. HIDE DEF c
<1>3. p # Len(c) + 1 /\ 1 \in 1..Len(Left(f)) /\ p + 1 - 1 = p
  BY <1>1, <1>2
<1>4. Left(f)[1] = c[p + 1 - 1]
  BY <1>1, <1>3
<1>. QED
  BY <1>1, <1>3, <1>4 DEF c

\* No pointer in the heap is stale: load_next() at src/bmerge.c replaces only
\* what the row that left the heap pointed to, and no file is forgotten.
THEOREM HeadsShown == Spec => []HeapShowsHeads
<1>1. IInv => HeapShowsHeads
  <2>. SUFFICES ASSUME IInv PROVE HeapShowsHeads
    OBVIOUS
  <2>1. input \in Inputs /\ seeded \in 0..Len(input.files) /\ Shows(heap, rbuf, Written, seeded)
    BY StateFacts
  <2>2. Len(input.files) \in Nat
    BY <2>1, InputFacts
  <2>3. ASSUME NEW k \in 1..Len(heap)
        PROVE  LET f == heap[k].meta IN
               /\ ShowsRow(heap[k], rbuf[f].buffer, input.rows)
               /\ Left(f) # << >> /\ RawRow(heap[k], rbuf[f].buffer) = Left(f)[1]
    <3>. DEFINE raw == heap[k]
                f == raw.meta
    <3>1. raw \in Held(heap)
      BY DEF Held
    <3>2. f \in 1..seeded
      BY <2>1, <3>1 DEF Shows
    <3>3. f \in 1..Len(input.files)
      BY <2>1, <2>2, <3>2
    <3>. HIDE DEF raw
    <3>4. PICK p : HeadAt(f, p)
      BY <3>3, HeadOf
    <3>5. /\ p <= Len(input.contents[f]) /\ ShowsRow(raw, rbuf[f].buffer, input.rows)
          /\ RawRow(raw, rbuf[f].buffer) = input.contents[f][p]
      BY <3>1, <3>4 DEF HeadAt
    <3>. HIDE DEF f
    <3>6. Left(f) # << >> /\ Left(f)[1] = input.contents[f][p]
      BY <3>3, <3>4, <3>5, FirstLeft
    <3>. QED
      BY <3>5, <3>6 DEF f, raw
  <2>4. ASSUME NEW f \in 1..Len(input.files), f <= seeded, Left(f) # << >>
        PROVE  \E k \in 1..Len(heap) : heap[k].meta = f
    <3>1. PICK p : HeadAt(f, p)
      BY HeadOf
    <3>2. p # Len(input.contents[f]) + 1 /\ Len(input.contents[f]) \in Nat
      BY <2>4, <3>1, LeftOf
    <3>3. p \in Nat /\ p <= Len(input.contents[f]) + 1
      BY <3>1 DEF HeadAt
    <3>4. p <= Len(input.contents[f])
      BY <3>2, <3>3
    <3>5. \E raw \in Held(heap) : raw.meta = f
      BY <2>4, <3>1, <3>4 DEF HeadAt
    <3>. QED
      BY <3>5 DEF Held
  <2>. QED
    BY <2>3, <2>4 DEF HeapShowsHeads
<1>. QED
  BY <1>1, Invariance, PTL

\* dump_raw() writes whole rows, wherever its pointers point.
THEOREM WholeRowsWritten == Spec => []WritesWholeRows
<1>1. IInv => WritesWholeRows
  BY DEF IInv, Typed, WholeOutput, WritesWholeRows
<1>. QED
  BY <1>1, Invariance, PTL

\* At the end every row was written, and none twice.
LEMMA WritesAll ==
    ASSUME IInv, pc = "done"
    PROVE  LET out == RowsOut(wbuf) IN
           /\ wbuf.buffer = << >> /\ Len(out) = Len(input.rows)
           /\ \A i \in 1..Len(input.rows) : \E k \in 1..Len(out) : out[k] = i
<1>. DEFINE out == RowsOut(wbuf)
            m == Len(input.rows)
<1>1. /\ input \in Inputs /\ seeded \in 0..Len(input.files)
      /\ FilesAre(heap, rbuf, Written, seeded) /\ OutIs(heap, rbuf, out)
  BY StateFacts
<1>2. wbuf.buffer = << >> /\ heap = << >> /\ seeded = Len(input.files)
  BY DEF IInv, PhaseInv
<1>3. m \in Nat /\ out \in Seq(1..m) /\ Once(out) /\ Written = Held(out)
  BY <1>1, InputFacts DEF OutIs, Written
<1>. HIDE DEF m, out
<1>4. 1..m \subseteq Held(out)
  <2>. SUFFICES ASSUME NEW i \in 1..m PROVE i \in Written
    BY <1>3
  <2>1. PICK f \in 1..Len(input.files) : i \in Held(input.contents[f])
    BY <1>1, InputFacts DEF m
  <2>2. input.contents[f] \in Seq(1..m) /\ Len(input.files) \in Nat
    BY <1>1, InputFacts DEF m
  <2>3. PICK k \in 1..Len(input.contents[f]) : input.contents[f][k] = i
    BY <2>1 DEF Held
  <2>4. f <= seeded /\ \A raw \in Held(heap) : raw.meta # f
    BY <1>2, <2>2 DEF Held
  <2>5. BeforeIn(Written, f, Len(input.contents[f]) + 1)
    BY <1>1, <2>4 DEF FilesAre
  <2>6. k < Len(input.contents[f]) + 1
    BY <2>2
  <2>. QED
    BY <2>3, <2>5, <2>6 DEF BeforeIn
<1>5. Held(out) = 1..m
  BY <1>3, <1>4 DEF Held
<1>6. Len(out) = m
  <2>1. Cardinality(Held(out)) = Len(out) /\ Len(out) \in Nat
    BY <1>3, HeldOnce
  <2>2. Cardinality(1..m) = IF 1 > m THEN 0 ELSE m - 1 + 1
    BY <1>3, FS_Interval
  <2>3. Cardinality(1..m) = m
    BY <1>3, <2>2
  <2>. QED
    BY <1>5, <2>1, <2>3
<1>7. \A i \in 1..m : \E k \in 1..Len(out) : out[k] = i
  BY <1>5 DEF Held
<1>. QED
  BY <1>2, <1>6, <1>7 DEF m, out

\* "merge sorted files": of sorted files comes a sorted output, which has every
\* row of every file once when bmerge ends.
THEOREM Merges == Spec => []MergesSorted
<1>1. IInv => MergesSorted
  <2>. SUFFICES ASSUME IInv, SortedFiles PROVE MergesSorted
    BY DEF MergesSorted
  <2>1. OutIs(heap, rbuf, RowsOut(wbuf))
    BY StateFacts
  <2>2. \A i, j \in 1..Len(RowsOut(wbuf)) :
          i < j => RankOf(RowsOut(wbuf)[i]) <= RankOf(RowsOut(wbuf)[j])
    BY <2>1 DEF OutIs
  <2>. QED
    BY <2>2, WritesAll DEF MergesSorted
<1>. QED
  BY <1>1, Invariance, PTL

-----------------------------------------------------------------------------
\* Ranked() keeps the order of rows.
LEMMA RankedFacts ==
    ASSUME input \in Inputs, NEW s \in Seq(1..Len(input.rows))
    PROVE  /\ Ranked(s) \in Seq(Heads!Element) /\ Len(Ranked(s)) = Len(s) /\ Len(s) \in Nat
           /\ \A k \in 1..Len(s) : Ranked(s)[k] = [row |-> s[k], rank |-> RankOf(s[k])]
<1>1. Len(input.rows) \in Nat /\ \A i : RankOf(i) \in Int
  BY InputFacts
<1>2. \A k \in 1..Len(s) : s[k] \in Nat
  BY <1>1
<1>3. \A k \in 1..Len(s) : [row |-> s[k], rank |-> RankOf(s[k])] \in Heads!Element
  BY <1>1, <1>2 DEF Heads!Element
<1>. QED
  BY <1>3 DEF Ranked

\* Ranked() of what remains after the first row.
LEMMA RankedTail ==
    ASSUME input \in Inputs, NEW s \in Seq(1..Len(input.rows)), NEW t \in Seq(1..Len(input.rows)),
           s # << >>, Len(t) = Len(s) - 1, \A k \in 1..Len(t) : t[k] = s[k + 1]
    PROVE  Ranked(t) = Tail(Ranked(s))
<1>. DEFINE E == Heads!Element
            u == Ranked(s)
            v == Ranked(t)
            w == Tail(u)
<1>1. /\ u \in Seq(E) /\ Len(u) = Len(s) /\ Len(s) \in Nat
      /\ \A k \in 1..Len(s) : u[k] = [row |-> s[k], rank |-> RankOf(s[k])]
  BY RankedFacts
<1>2. /\ v \in Seq(E) /\ Len(v) = Len(t) /\ Len(t) \in Nat
      /\ \A k \in 1..Len(t) : v[k] = [row |-> t[k], rank |-> RankOf(t[k])]
  BY RankedFacts
<1>. HIDE DEF u, v, E
<1>3. u # << >>
  BY <1>1
<1>4. w \in Seq(E) /\ Len(w) = Len(u) - 1 /\ \A k \in 1..Len(w) : w[k] = u[k + 1]
  BY <1>1, <1>3
<1>. HIDE DEF w
<1>5. \A k \in 1..Len(v) : v[k] = w[k]
  <2>. SUFFICES ASSUME NEW k \in 1..Len(t) PROVE v[k] = w[k]
    BY <1>2
  <2>1. k + 1 \in 1..Len(s) /\ k \in 1..Len(w)
    <3>1. Len(s) \in Nat /\ Len(t) = Len(s) - 1 /\ Len(w) = Len(s) - 1
      BY <1>1, <1>4
    <3>. QED
      BY ONLY <3>1, k \in 1..Len(t)
  <2>. QED
    BY <1>1, <1>2, <1>4, <2>1
<1>6. Len(v) = Len(w)
  BY <1>1, <1>2, <1>4
<1>7. v = w
  BY <1>2, <1>4, <1>5, <1>6, SeqEqual
<1>. QED
  BY <1>7 DEF u, v, w

\* Ranked() of one more row.
LEMMA RankedLast ==
    ASSUME input \in Inputs, NEW s \in Seq(1..Len(input.rows)), NEW i \in 1..Len(input.rows)
    PROVE  Ranked(Append(s, i)) = Append(Ranked(s), [row |-> i, rank |-> RankOf(i)])
<1>. DEFINE E == Heads!Element
            S == 1..Len(input.rows)
            e == [row |-> i, rank |-> RankOf(i)]
            t == Append(s, i)
            n == Len(s)
            v == Ranked(t)
            w == Append(Ranked(s), e)
<1>1. t \in Seq(S) /\ Len(t) = n + 1 /\ n \in Nat /\ t[n + 1] = i /\ \A k \in 1..n : t[k] = s[k]
  BY HeldLast
<1>2. /\ Ranked(s) \in Seq(E) /\ Len(Ranked(s)) = n
      /\ \A k \in 1..n : Ranked(s)[k] = [row |-> s[k], rank |-> RankOf(s[k])]
  BY RankedFacts
<1>3. v \in Seq(E) /\ Len(v) = n + 1 /\ \A k \in 1..n + 1 : v[k] = [row |-> t[k], rank |-> RankOf(t[k])]
  <2>. HIDE DEF t
  <2>. QED
    BY <1>1, RankedFacts
<1>4. n + 1 \in 1..n + 1 /\ \A k \in 1..n : k \in 1..n + 1
  BY <1>1
<1>5. v[n + 1] = e /\ \A k \in 1..n : v[k] = Ranked(s)[k]
  BY <1>1, <1>2, <1>3, <1>4
<1>. HIDE DEF e, n, v, E
<1>6. e \in E
  BY <1>3, <1>4, <1>5
<1>7. /\ w \in Seq(E) /\ Len(w) = Len(Ranked(s)) + 1 /\ w[Len(Ranked(s)) + 1] = e
      /\ \A k \in 1..Len(Ranked(s)) : w[k] = Ranked(s)[k]
  BY <1>2, <1>6, HeldLast
<1>. HIDE DEF w
<1>8. \A k \in 1..n + 1 : v[k] = w[k]
  <2>1. \A k \in 1..n + 1 : k \in 1..n \/ k = n + 1
    BY <1>1 DEF n
  <2>. QED
    BY <1>2, <1>5, <1>7, <2>1
<1>9. v = w
  BY <1>2, <1>3, <1>7, <1>8, SeqEqual
<1>. QED
  BY <1>9 DEF v, w, e

\* What a step does to the abstract state depends on what it writes.
LEMMA AbstractAfter ==
    ASSUME input' = input
    PROVE  /\ Queues' = [f \in 1..Len(input.files) |->
                            Ranked(Without(input.contents[f], Held(RowsOut(wbuf'))))]
           /\ Ranked(RowsOut(wbuf))' = Ranked(RowsOut(wbuf'))
<1>1. Written' = Held(RowsOut(wbuf'))
  BY DEF Written
<1>2. Ranked(RowsOut(wbuf))' = Ranked(RowsOut(wbuf'))
  BY DEF Ranked, RankOf
<1>3. Queues' = [f \in 1..Len(input.files) |->
                   Ranked(Without(input.contents[f], Held(RowsOut(wbuf'))))]
  BY <1>1 DEF Queues, Left, Ranked, RankOf
<1>. QED
  BY <1>2, <1>3

\* Nothing changes when no row is written.
LEMMA SameAbstract ==
    ASSUME input' = input, RowsOut(wbuf') = RowsOut(wbuf)
    PROVE  UNCHANGED Heads!vars
<1>1. Queues' = Queues
  BY AbstractAfter DEF Queues, Left, Written
<1>2. Ranked(RowsOut(wbuf))' = Ranked(RowsOut(wbuf))
  BY AbstractAfter
<1>. QED
  BY <1>1, <1>2 DEF Heads!vars

\* What MergeRow does to what is left of the files.
LEMMA LeftAfter ==
    ASSUME IInv, NEW f, NEW p, TakesRow(f, p)
    PROVE  LET c == input.contents[f]
               W == Written \union {c[p]}
           IN  /\ c[p] \in 1..Len(input.rows) /\ Left(f) # << >> /\ Left(f)[1] = c[p]
               /\ Left(f) \in Seq(1..Len(input.rows)) /\ Without(c, W) \in Seq(1..Len(input.rows))
               /\ Len(Without(c, W)) = Len(Left(f)) - 1
               /\ \A k \in 1..Len(Without(c, W)) : Without(c, W)[k] = Left(f)[k + 1]
               /\ \A g \in 1..Len(input.files) : g # f => Without(input.contents[g], W) = Left(g)
<1>. DEFINE c == input.contents[f]
            S == 1..Len(input.rows)
            i == c[p]
            W == Written \union {i}
            s == Left(f)
            t == Without(c, W)
<1>1. input \in Inputs /\ f \in 1..Len(input.files) /\ p \in 1..Len(c) /\ BeforeIn(Written, f, p)
  BY StateFacts DEF TakesRow
<1>2. c \in Seq(S)
  BY <1>1, InputFacts
<1>3. /\ i \in S /\ BeforeIn(W, f, p + 1)
      /\ \A g \in 1..Len(input.files) : \A q :
           g # f /\ BeforeIn(Written, g, q) => BeforeIn(W, g, q)
  BY <1>1, OneWritten
<1>. HIDE DEF W
<1>4. ASSUME NEW g \in 1..Len(input.files), g # f PROVE Without(input.contents[g], W) = Left(g)
  <2>. DEFINE d == input.contents[g]
  <2>1. PICK q : HeadAt(g, q)
    BY HeadOf
  <2>2. d \in Seq(S)
    BY <1>1, InputFacts
  <2>3. q \in Nat \ {0} /\ BeforeIn(Written, g, q) /\ BeforeIn(W, g, q)
    BY <1>3, <1>4, <2>1 DEF HeadAt
  <2>4. /\ \A k \in 1..Len(d) : d[k] \in Written <=> k < q
        /\ \A k \in 1..Len(d) : d[k] \in W <=> k < q
    BY <2>3 DEF BeforeIn
  <2>5. Left(g) = Without(d, Written)
    BY DEF Left
  <2>. HIDE DEF d, S
  <2>6. Without(d, Written) = Rest(d, q, Len(d)) /\ Without(d, W) = Rest(d, q, Len(d))
    BY <2>2, <2>3, <2>4, RestIsLeft
  <2>. QED
    BY <2>5, <2>6 DEF d
<1>5. /\ \A k \in 1..Len(c) : c[k] \in Written <=> k < p
      /\ \A k \in 1..Len(c) : c[k] \in W <=> k < p + 1
  BY <1>1, <1>3 DEF BeforeIn
<1>6. s = Without(c, Written)
  BY DEF Left
<1>. HIDE DEF c, S, i, s, t
<1>7. Len(c) \in Nat /\ p \in Nat \ {0} /\ p + 1 \in Nat \ {0} /\ p <= Len(c) + 1 /\ p + 1 <= Len(c) + 1
      /\ p # Len(c) + 1
  <2>1. Len(c) \in Nat
    BY <1>2
  <2>. QED
    BY <1>1, <2>1
<1>8. /\ s \in Seq(S) /\ Len(s) = Len(c) + 1 - p /\ s # << >>
      /\ \A k \in 1..Len(s) : s[k] = c[p + k - 1]
  <2>1. \A k \in 1..Len(c) : c[k] \in Written <=> k < p
    BY <1>5
  <2>2. p \in Nat \ {0} /\ p <= Len(c) + 1
    BY <1>7
  <2>3. LET u == Without(c, Written)
        IN  u \in Seq(S) /\ Len(u) = Len(c) + 1 - p /\ \A k \in 1..Len(u) : u[k] = c[p + k - 1]
    BY <1>2, <2>1, <2>2, LeftStarts
  <2>4. s \in Seq(S) /\ Len(s) = Len(c) + 1 - p /\ \A k \in 1..Len(s) : s[k] = c[p + k - 1]
    BY <1>6, <2>3
  <2>5. Len(s) # 0
    BY <1>7, <2>4
  <2>6. s # << >>
    BY <2>5
  <2>. QED
    BY <2>4, <2>6
<1>9. /\ t \in Seq(S) /\ Len(t) = Len(c) + 1 - (p + 1)
      /\ \A k \in 1..Len(t) : t[k] = c[(p + 1) + k - 1]
  <2>. DEFINE q == p + 1
  <2>1. q \in Nat \ {0} /\ q <= Len(c) + 1 /\ \A k \in 1..Len(c) : c[k] \in W <=> k < q
    BY <1>5, <1>7
  <2>. HIDE DEF q
  <2>2. LET u == Without(c, W)
        IN  u \in Seq(S) /\ Len(u) = Len(c) + 1 - q /\ \A k \in 1..Len(u) : u[k] = c[q + k - 1]
    BY <1>2, <2>1, LeftStarts
  <2>. QED
    BY <2>2 DEF q, t
<1>10. s[1] = i
  <2>1. 1 \in 1..Len(s) /\ p + 1 - 1 = p
    BY <1>7, <1>8
  <2>2. s[1] = c[p + 1 - 1]
    BY <1>8, <2>1
  <2>. QED
    BY <2>1, <2>2 DEF i
<1>11. Len(t) = Len(s) - 1 /\ \A k \in 1..Len(t) : t[k] = s[k + 1]
  <2>1. Len(t) = Len(s) - 1
    BY <1>7, <1>8, <1>9
  <2>2. ASSUME NEW k \in 1..Len(t) PROVE t[k] = s[k + 1]
    <3>1. k + 1 \in 1..Len(s) /\ p + (k + 1) - 1 = (p + 1) + k - 1
      BY <1>7, <1>8, <2>1
    <3>2. s[k + 1] = c[p + (k + 1) - 1] /\ t[k] = c[(p + 1) + k - 1]
      BY <1>8, <1>9, <3>1
    <3>. QED
      BY <3>1, <3>2
  <2>. QED
    BY <2>1, <2>2
<1>. QED
  BY <1>3, <1>4, <1>8, <1>9, <1>10, <1>11 DEF c, i, S, W, s, t

\* MergeRow takes a least head.
LEMMA TakesLeast ==
    ASSUME IInv, MergeRow
    PROVE  Heads!Next
<1>1. PICK f, p : TakesRow(f, p)
  BY Takes
<1>. DEFINE n == Len(input.files)
            c == input.contents[f]
            i == c[p]
            out == RowsOut(wbuf)
            S == 1..Len(input.rows)
            W == Written \union {i}
            Q == Queues
<1>2. /\ input \in Inputs /\ seeded = n /\ n \in Nat /\ out \in Seq(S) /\ Written = Held(out)
  <2>1. input \in Inputs /\ OutIs(heap, rbuf, out)
    BY StateFacts
  <2>2. seeded = n
    BY DEF IInv, PhaseInv, MergeRow
  <2>. QED
    BY <2>1, <2>2, InputFacts DEF OutIs, Written
<1>3. /\ f \in 1..n /\ input' = input /\ RowsOut(wbuf') = Append(out, i)
      /\ \A raw \in Held(heap) : RankOf(i) <= RankOf(RawRow(raw, rbuf[raw.meta].buffer))
  BY <1>1 DEF TakesRow
<1>4. /\ i \in S /\ Left(f) # << >> /\ Left(f)[1] = i
      /\ Left(f) \in Seq(S) /\ Without(c, W) \in Seq(S)
      /\ Len(Without(c, W)) = Len(Left(f)) - 1
      /\ \A k \in 1..Len(Without(c, W)) : Without(c, W)[k] = Left(f)[k + 1]
      /\ \A g \in 1..n : g # f => Without(input.contents[g], W) = Left(g)
  BY <1>1, LeftAfter
<1>5. Held(RowsOut(wbuf')) = W
  <2>1. Held(Append(out, i)) = Held(out) \union {i}
    BY <1>2, <1>4, HeldLast
  <2>. QED
    BY <1>2, <1>3, <2>1
<1>6. DOMAIN Q = 1..n /\ \A g \in 1..n : Q[g] = Ranked(Left(g))
  BY DEF Queues
<1>7. /\ Queues' = [g \in 1..n |-> Ranked(Without(input.contents[g], W))]
      /\ Ranked(RowsOut(wbuf))' = Ranked(RowsOut(wbuf'))
  BY <1>3, <1>5, AbstractAfter
<1>. HIDE DEF n, c, i, out, W, Q
<1>8. Q[f] # << >> /\ Q[f][1] = [row |-> i, rank |-> RankOf(i)]
  <2>1. /\ Len(Q[f]) = Len(Left(f)) /\ Len(Left(f)) \in Nat
        /\ \A k \in 1..Len(Left(f)) : Q[f][k] = [row |-> Left(f)[k], rank |-> RankOf(Left(f)[k])]
    BY <1>2, <1>3, <1>4, <1>6, RankedFacts
  <2>2. 1 \in 1..Len(Left(f))
    BY <1>4, <2>1
  <2>3. Len(Q[f]) # 0
    BY <2>1, <2>2
  <2>. QED
    BY <1>4, <2>1, <2>2, <2>3
<1>9. ASSUME NEW g \in 1..n, Q[g] # << >> PROVE Q[f][1].rank <= Q[g][1].rank
  <2>1. PICK q : HeadAt(g, q)
    BY HeadOf DEF n
  <2>2. /\ Len(input.contents[g]) \in Nat /\ Left(g) \in Seq(S)
        /\ Left(g) = << >> <=> q = Len(input.contents[g]) + 1
    BY <2>1, LeftOf DEF n
  <2>. HIDE DEF S
  <2>3. /\ Len(Ranked(Left(g))) = Len(Left(g)) /\ Len(Left(g)) \in Nat
        /\ \A k \in 1..Len(Left(g)) : Ranked(Left(g))[k] = [row |-> Left(g)[k], rank |-> RankOf(Left(g)[k])]
        /\ Ranked(Left(g)) \in Seq(Heads!Element)
    BY <1>2, <2>2, RankedFacts DEF S
  <2>4. Left(g) # << >>
    <3>. SUFFICES ASSUME Left(g) = << >> PROVE FALSE
      OBVIOUS
    <3>1. Len(Ranked(Left(g))) = 0
      BY <2>3
    <3>2. Ranked(Left(g)) = << >>
      BY <2>3, <3>1
    <3>. QED
      BY <1>6, <1>9, <3>2
  <2>5. q \in Nat /\ q <= Len(input.contents[g]) + 1 /\ q # Len(input.contents[g]) + 1
    BY <2>1, <2>2, <2>4 DEF HeadAt
  <2>6. q <= Len(input.contents[g])
    BY <2>2, <2>5
  <2>7. Left(g)[1] = input.contents[g][q]
    BY <2>1, <2>6, FirstLeft DEF n
  <2>8. PICK raw \in Held(heap) : raw.meta = g
    BY <1>2, <2>1, <2>6 DEF HeadAt
  <2>9. RawRow(raw, rbuf[raw.meta].buffer) = Left(g)[1]
    BY <2>1, <2>7, <2>8 DEF HeadAt
  <2>10. RankOf(i) <= RankOf(Left(g)[1])
    BY <1>3, <2>8, <2>9
  <2>11. 1 \in 1..Len(Left(g))
    BY <2>2, <2>4
  <2>12. Q[g][1] = [row |-> Left(g)[1], rank |-> RankOf(Left(g)[1])]
    BY <1>6, <2>3, <2>11
  <2>. QED
    BY <1>8, <2>10, <2>12
<1>10. Queues' = [Q EXCEPT ![f] = Tail(Q[f])]
  <2>1. Ranked(Without(c, W)) = Tail(Ranked(Left(f)))
    BY <1>2, <1>4, RankedTail
  <2>2. \A g \in 1..n : Ranked(Without(input.contents[g], W)) = [Q EXCEPT ![f] = Tail(Q[f])][g]
    BY <1>3, <1>4, <1>6, <2>1 DEF c
  <2>3. [Q EXCEPT ![f] = Tail(Q[f])] = [g \in 1..n |-> [Q EXCEPT ![f] = Tail(Q[f])][g]]
    BY <1>6
  <2>4. Queues' = [g \in 1..n |-> [Q EXCEPT ![f] = Tail(Q[f])][g]]
    BY <1>7, <2>2
  <2>. QED
    BY <2>3, <2>4
<1>11. Ranked(RowsOut(wbuf))' = Append(Ranked(RowsOut(wbuf)), Q[f][1])
  <2>1. Ranked(Append(out, i)) = Append(Ranked(out), [row |-> i, rank |-> RankOf(i)])
    BY <1>2, <1>4, RankedLast
  <2>. QED
    BY <1>3, <1>7, <1>8, <2>1 DEF out
<1>12. Heads!Take(f)
  BY <1>6, <1>8, <1>9, <1>10, <1>11 DEF Heads!Take, Q
<1>. QED
  BY <1>3, <1>6, <1>12 DEF Heads!Next, Q

\* At first every file is a queue of its rows.
LEMMA StartsQueues ==
    ASSUME Init
    PROVE  Heads!Init
<1>1. IInv /\ RowsOut(wbuf) = << >>
  BY Starts, NothingOut DEF Init
<1>2. input \in Inputs
  BY DEF Init
<1>3. ASSUME NEW f \in 1..Len(input.files) PROVE Ranked(Left(f)) \in Seq(Heads!Element)
  <2>1. PICK p : HeadAt(f, p)
    BY <1>1, HeadOf
  <2>2. Left(f) \in Seq(1..Len(input.rows))
    BY <1>1, <2>1, LeftOf
  <2>. QED
    BY <1>2, <2>2, RankedFacts
<1>4. Queues \in [DOMAIN Queues -> Seq(Heads!Element)]
  BY <1>3 DEF Queues
<1>5. Ranked(RowsOut(wbuf)) = << >>
  BY <1>1 DEF Ranked
<1>. QED
  BY <1>4, <1>5 DEF Heads!Init

\* bmerge implements LeastHead, whatever the order of the rows in its files:
\* each row that it writes is a first one of least rank.
THEOREM TakesHeads == Spec => Heads!Spec
<1>1. Init => Heads!Init
  BY StartsQueues
<1>2. IInv /\ [Next]_vars => [Heads!Next]_(Heads!vars)
  <2>. SUFFICES ASSUME IInv, [Next]_vars PROVE [Heads!Next]_(Heads!vars)
    OBVIOUS
  <2>1. CASE MergeRow
    BY <2>1, TakesLeast
  <2>2. CASE Finish
    <3>1. input' = input /\ wbuf' = WriteFlush(wbuf) /\ wbuf \in WriteBuf
      BY <2>2 DEF Finish, IInv, Typed, WholeOutput
    <3>2. RowsOut(wbuf') = RowsOut(wbuf)
      BY <3>1, FlushedRows
    <3>. QED
      BY <3>1, <3>2, SameAbstract
  <2>3. CASE input' = input /\ wbuf' = wbuf
    <3>1. RowsOut(wbuf') = RowsOut(wbuf)
      BY <2>3
    <3>. QED
      BY <2>3, <3>1, SameAbstract
  <2>4. Seed \/ Seeded \/ UNCHANGED vars => input' = input /\ wbuf' = wbuf
    BY DEF Seed, Seeded, vars
  <2>. QED
    BY <2>1, <2>2, <2>3, <2>4 DEF Next, Terminated
<1>. QED
  BY <1>1, <1>2, Invariance, PTL DEF Spec, Heads!Spec
=============================================================================
