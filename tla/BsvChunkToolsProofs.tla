------------------------ MODULE BsvChunkToolsProofs -------------------------
(***************************************************************************)
(* IInv is an inductive invariant of BsvChunkTools for every buffer size,  *)
(* every sorted stream and every number that the uninitialized size may    *)
(* hold; what the tools promise follows from it.                           *)
(***************************************************************************)
EXTENDS BsvChunkTools, BsvRowProofs, FiniteSetTheorems

\* What the assumptions say of the input and of its rows.
LEMMA InputFacts ==
    ASSUME stdin \in Streams
    PROVE  /\ WholeFile(rows, stdin.file) /\ rows \in Seq(Row) /\ Len(rows) \in Nat
           /\ stdin.file \in Seq(Seq(Cell)) /\ Len(stdin.file) \in Nat
           /\ \A i \in 1..Len(rows) : rows[i].before \in BOOLEAN /\ RowSize(rows[i]) <= BUFFER_SIZE
           /\ \A i \in 1..Len(rows) - 1 : rows[i + 1].before => rows[i].before
<1>1. IsStream(stdin)
  BY ChunkToolsAssumption
<1>2. WholeFile(rows, stdin.file) /\ \A i \in 1..Len(rows) - 1 : rows[i + 1].before => rows[i].before
  BY <1>1 DEF IsStream, rows
<1>3. rows \in Seq(Row) /\ stdin.file \in Seq(Seq(Cell))
  BY <1>2 DEF WholeFile, HoldsRows
<1>4. ASSUME NEW i \in 1..Len(rows) PROVE rows[i].before \in BOOLEAN /\ RowSize(rows[i]) <= BUFFER_SIZE
  <2>1. rows[i] \in Row /\ RowSize(rows[i]) \in Nat /\ BUFFER_SIZE \in Nat
    BY <1>3, RowSizePositive, FormatAssumption
  <2>2. rows[i].before \in BOOLEAN /\ ~DumpDies(rows[i])
    BY <2>1, ChunkToolsAssumption
  <2>3. ~(RowSize(rows[i]) > BUFFER_SIZE)
    BY <2>2 DEF DumpDies, DumpDiesEarly, WriteStartDies
  <2>. QED
    BY <2>1, <2>2, <2>3
<1>. QED
  BY <1>2, <1>3, <1>4

\* Cut divides the rows before the value from the others.
CutDivides ==
    /\ Cut \in 0..Len(rows)
    /\ \A i \in 1..Len(rows) : rows[i].before <=> i <= Cut

\* Rows that are in order are cut in two by the value.
LEMMA CutMeaning == stdin \in Streams => CutDivides
<1>. SUFFICES ASSUME stdin \in Streams PROVE CutDivides
  OBVIOUS
<1>. DEFINE n == Len(rows)
            f == [i \in 1..n |-> IF rows[i].before THEN 0 ELSE 1]
            T == {i \in 1..n + 1 : i = n + 1 \/ ~rows[i].before}
            B == {i \in 1..n : rows[i].before}
<1>1. n \in Nat /\ \A i \in 1..n - 1 : rows[i + 1].before => rows[i].before
  BY InputFacts
<1>. HIDE DEF n
<1>2. ASSUME NEW i \in 1..n, NEW j \in 1..n, i <= j, ~rows[i].before PROVE ~rows[j].before
  <2>1. \A k \in 1..n : f[k] \in Int
    OBVIOUS
  <2>2. \A k \in 1..n : k + 1 \in 1..n => f[k] <= f[k + 1]
    <3>1. \A k \in 1..n : k + 1 \in 1..n => k \in 1..n - 1
      BY <1>1
    <3>. QED
      BY <1>1, <3>1
  <2>. HIDE DEF f
  <2>3. f[i] <= f[j]
    BY <1>1, <1>2, <2>1, <2>2, RisesThroughout
  <2>4. f[i] = 1 /\ (rows[j].before => f[j] = 0)
    BY <1>2 DEF f
  <2>. QED
    BY <2>3, <2>4
<1>3. PICK m \in T : \A k \in T : m <= k
  <2>1. T \subseteq Nat
    BY <1>1
  <2>2. n + 1 \in T
    BY <1>1
  <2>. HIDE DEF T
  <2>. QED
    BY <2>1, <2>2, LeastElement
<1>4. m \in 1..n + 1 /\ m - 1 \in 0..n
  BY <1>1, <1>3
<1>5. \A i \in 1..n : rows[i].before <=> i <= m - 1
  <2>. SUFFICES ASSUME NEW i \in 1..n PROVE rows[i].before <=> i <= m - 1
    OBVIOUS
  <2>1. CASE i <= m - 1
    <3>1. i \notin T
      BY <1>1, <1>3, <1>4, <2>1
    <3>. QED
      BY <1>1, <2>1, <3>1
  <2>2. CASE ~(i <= m - 1)
    <3>1. m \in 1..n /\ m <= i
      BY <1>1, <1>4, <2>2
    <3>2. ~rows[m].before
      BY <1>1, <1>3, <3>1
    <3>. QED
      BY <1>2, <2>2, <3>1, <3>2
  <2>. QED
    BY <2>1, <2>2
<1>6. B = 1..m - 1
  BY <1>1, <1>4, <1>5
<1>7. Cardinality(1..m - 1) = m - 1
  <2>. DEFINE k == m - 1
  <2>1. k \in Nat
    BY <1>1, <1>4
  <2>. HIDE DEF k
  <2>2. Cardinality(1..k) = IF 1 > k THEN 0 ELSE k - 1 + 1
    BY <2>1, FS_Interval
  <2>3. Cardinality(1..k) = k
    BY <2>1, <2>2
  <2>. QED
    BY <2>3 DEF k
<1>8. Cut = m - 1
  BY <1>6, <1>7 DEF Cut, n
<1>. QED
  BY <1>4, <1>5, <1>8 DEF CutDivides, n

-----------------------------------------------------------------------------
\* What swap() exchanges, and what it leaves alone.
LEMMA SwapResult ==
    ASSUME NEW a \in ReadAheadBuf
    PROVE  LET s == Swap(a)
           IN  /\ s \in ReadAheadBuf /\ s.has_nexted = a.has_nexted
               /\ s.rb.offset = a.rb.offset /\ s.rb.next = a.rb.next /\ s.rb.dead = a.rb.dead
               /\ s.rb.buffer = a.last_buffer /\ s.last_buffer = a.rb.buffer
               /\ s.rb.chunk_size = a.last_chunk_size /\ s.last_chunk_size = a.rb.chunk_size
               /\ s.cap = a.last_cap /\ s.last_cap = a.cap
<1>1. /\ a.rb \in ReadBuf /\ a.cap \in Nat /\ a.last_cap \in Nat /\ a.last_buffer \in Seq(Cell)
      /\ a.last_chunk_size \in Int /\ a.rb.buffer \in Seq(Cell) /\ a.rb.chunk_size \in Int
  BY DEF ReadAheadBuf, ReadBuf
<1>. QED
  BY <1>1 DEF Swap, ReadAheadBuf, ReadBuf

\* Setting the offset changes nothing else.
LEMMA SetOffsetResult ==
    ASSUME NEW a \in ReadAheadBuf, NEW offset \in Int
    PROVE  LET s == SetOffset(a, offset)
           IN  /\ s \in ReadAheadBuf /\ s.has_nexted = a.has_nexted
               /\ s.rb.offset = offset /\ s.rb.next = a.rb.next /\ s.rb.dead = a.rb.dead
               /\ s.rb.buffer = a.rb.buffer /\ s.last_buffer = a.last_buffer
               /\ s.rb.chunk_size = a.rb.chunk_size /\ s.last_chunk_size = a.last_chunk_size
               /\ s.cap = a.cap /\ s.last_cap = a.last_cap
<1>1. a.rb \in ReadBuf
  BY DEF ReadAheadBuf
<1>. QED
  BY <1>1 DEF SetOffset, ReadAheadBuf, ReadBuf

\* Growing the buffer gives a buffer of the new size.
LEMMA ReallocResult ==
    ASSUME NEW s \in ReadAheadBuf, NEW b \in Seq(Cell), NEW size \in Nat
    PROVE  LET g == Realloc(s, size, size, b)
           IN  /\ g \in ReadAheadBuf /\ g.cap = size /\ g.rb.chunk_size = size /\ g.rb.buffer = b
               /\ g.rb.offset = s.rb.offset /\ g.rb.next = s.rb.next /\ g.rb.dead = s.rb.dead
               /\ g.last_buffer = s.last_buffer /\ g.last_cap = s.last_cap
<1>. DEFINE q == s.rb
            r == [q EXCEPT !.chunk_size = size, !.buffer = b]
            g == [s EXCEPT !.cap = size, !.rb = r]
<1>1. q \in ReadBuf /\ size \in Int
  BY DEF ReadAheadBuf
<1>. HIDE DEF q
<1>2. /\ r \in ReadBuf /\ r.chunk_size = size /\ r.buffer = b /\ r.offset = q.offset
      /\ r.next = q.next /\ r.dead = q.dead
  BY <1>1 DEF ReadBuf
<1>. HIDE DEF r
<1>3. /\ g \in ReadAheadBuf /\ g.cap = size /\ g.rb = r
      /\ g.last_buffer = s.last_buffer /\ g.last_cap = s.last_cap
  BY <1>2 DEF ReadAheadBuf
<1>4. Realloc(s, size, size, b) = g
  BY DEF Realloc, r, q
<1>. HIDE DEF g
<1>. QED
  BY <1>2, <1>3, <1>4 DEF q

\* The buffers after going on to the next chunk ...
LEMMA GotoNextResult ==
    ASSUME NEW a \in ReadAheadBuf
    PROVE  LET g == GotoNextChunk(a)
           IN  /\ g \in ReadAheadBuf /\ g.has_nexted = TRUE
               /\ g.rb.offset = g.rb.chunk_size
               /\ g.rb.next = a.rb.next /\ g.rb.dead = a.rb.dead
               /\ g.rb.buffer = a.last_buffer /\ g.last_buffer = a.rb.buffer
               /\ g.last_chunk_size = a.rb.chunk_size
               /\ g.cap = a.last_cap /\ g.last_cap = a.cap
<1>. DEFINE s == Swap(a)
            t == SetOffset(s, s.rb.chunk_size)
<1>1. /\ s \in ReadAheadBuf /\ s.rb.next = a.rb.next /\ s.rb.dead = a.rb.dead
      /\ s.rb.buffer = a.last_buffer /\ s.last_buffer = a.rb.buffer
      /\ s.last_chunk_size = a.rb.chunk_size /\ s.cap = a.last_cap /\ s.last_cap = a.cap
  BY SwapResult
<1>. HIDE DEF s
<1>2. s.rb.chunk_size \in Int
  BY <1>1 DEF ReadAheadBuf, ReadBuf
<1>3. /\ t \in ReadAheadBuf /\ t.rb.offset = t.rb.chunk_size /\ t.rb.next = s.rb.next
      /\ t.rb.dead = s.rb.dead /\ t.rb.buffer = s.rb.buffer /\ t.last_buffer = s.last_buffer
      /\ t.last_chunk_size = s.last_chunk_size /\ t.cap = s.cap /\ t.last_cap = s.last_cap
  BY <1>1, <1>2, SetOffsetResult
<1>4. GotoNextChunk(a) = [t EXCEPT !.has_nexted = TRUE]
  BY DEF GotoNextChunk, s
<1>. HIDE DEF t
<1>. QED
  BY <1>1, <1>3, <1>4 DEF ReadAheadBuf

\* ... after going back when there is no chunk before the one held ...
LEMMA GotoLastFirst ==
    ASSUME NEW a \in ReadAheadBuf, ~a.has_nexted
    PROVE  LET g == GotoLastChunk(a)
           IN  /\ g \in ReadAheadBuf /\ g.rb.offset = 0
               /\ g.rb.next = a.rb.next /\ g.rb.dead = a.rb.dead
               /\ g.rb.buffer = a.rb.buffer /\ g.last_buffer = a.last_buffer
               /\ g.rb.chunk_size = a.rb.chunk_size
               /\ g.cap = a.cap /\ g.last_cap = a.last_cap
<1>1. GotoLastChunk(a) = SetOffset(a, 0)
  BY DEF GotoLastChunk
<1>. QED
  BY <1>1, SetOffsetResult

\* ... and after going back to the chunk before: the two are joined.
LEMMA GotoLastJoins ==
    ASSUME NEW a \in ReadAheadBuf, a.has_nexted, a.last_chunk_size = Len(a.last_buffer),
           a.rb.chunk_size \in 0..Len(a.rb.buffer)
    PROVE  LET g == GotoLastChunk(a)
               read == SubSeq(a.rb.buffer, 1, a.rb.chunk_size)
           IN  /\ g \in ReadAheadBuf /\ g.rb.offset = 0
               /\ g.rb.next = a.rb.next /\ g.rb.dead = a.rb.dead
               /\ g.rb.buffer = a.last_buffer \o read /\ g.last_buffer = a.rb.buffer
               /\ g.rb.chunk_size = Len(g.rb.buffer)
               /\ g.cap = Len(g.rb.buffer) /\ g.last_cap = a.cap
<1>. DEFINE b == a.rb.buffer
            n == a.rb.chunk_size
            last == a.last_buffer
            read == SubSeq(b, 1, n)
            joined == last \o read
            size == Len(last) + n
            t == SetOffset(a, 0)
            s == Swap(t)
<1>1. /\ last \in Seq(Cell) /\ b \in Seq(Cell) /\ n \in Nat /\ n <= Len(b) /\ Len(last) \in Nat
  <2>1. last \in Seq(Cell) /\ b \in Seq(Cell)
    BY DEF ReadAheadBuf, ReadBuf
  <2>. QED
    BY <2>1
<1>2. /\ t \in ReadAheadBuf /\ t.has_nexted = a.has_nexted /\ t.rb.offset = 0
      /\ t.rb.next = a.rb.next /\ t.rb.dead = a.rb.dead /\ t.rb.buffer = b /\ t.last_buffer = last
      /\ t.rb.chunk_size = n /\ t.last_chunk_size = Len(last) /\ t.cap = a.cap
  <2>1. 0 \in Int
    OBVIOUS
  <2>2. /\ t \in ReadAheadBuf /\ t.has_nexted = a.has_nexted /\ t.rb.offset = 0
        /\ t.rb.next = a.rb.next /\ t.rb.dead = a.rb.dead /\ t.rb.buffer = a.rb.buffer
        /\ t.last_buffer = a.last_buffer /\ t.rb.chunk_size = a.rb.chunk_size
        /\ t.last_chunk_size = a.last_chunk_size /\ t.cap = a.cap
    BY <2>1, SetOffsetResult
  <2>. HIDE DEF t
  <2>. QED
    BY <2>2
<1>. HIDE DEF t, b, n, last
<1>3. /\ s \in ReadAheadBuf /\ s.rb.offset = 0
      /\ s.rb.next = a.rb.next /\ s.rb.dead = a.rb.dead /\ s.rb.buffer = last /\ s.last_buffer = b
      /\ s.rb.chunk_size = Len(last) /\ s.last_chunk_size = n /\ s.last_cap = a.cap
  BY <1>2, SwapResult
<1>4. read \in Seq(Cell) /\ Len(read) = n
  BY <1>1
<1>. HIDE DEF read
<1>5. joined \in Seq(Cell) /\ Len(joined) = size /\ size \in Nat
  <2>1. joined \in Seq(Cell) /\ Len(joined) = Len(last) + Len(read)
    <3>1. last \in Seq(Cell) /\ read \in Seq(Cell)
      BY <1>1, <1>4
    <3>2. last \o read \in Seq(Cell) /\ Len(last \o read) = Len(last) + Len(read)
      BY <3>1, ConcatProperties
    <3>. QED
      BY <3>2
  <2>2. size \in Nat
    BY <1>1
  <2>. QED
    BY <1>4, <2>1, <2>2
<1>6. SubSeq(last, 1, Len(last)) = last
  BY <1>1
<1>. HIDE DEF s, joined, size
<1>7. JoinLast(s) = Realloc(s, size, size, joined)
  <2>1. Joined(s) = joined /\ s.rb.chunk_size + s.last_chunk_size = size
    BY <1>3, <1>6 DEF Joined, joined, read, size
  <2>. QED
    BY <2>1 DEF JoinLast
<1>8. GotoLastChunk(a) = JoinLast(s)
  BY DEF GotoLastChunk, s, t
<1>. DEFINE g == GotoLastChunk(a)
<1>9. /\ g \in ReadAheadBuf /\ g.cap = size /\ g.rb.chunk_size = size /\ g.rb.buffer = joined
      /\ g.rb.offset = s.rb.offset /\ g.rb.next = s.rb.next /\ g.rb.dead = s.rb.dead
      /\ g.last_buffer = s.last_buffer /\ g.last_cap = s.last_cap
  <2>1. s \in ReadAheadBuf /\ joined \in Seq(Cell) /\ size \in Nat
    BY <1>3, <1>5
  <2>2. g = Realloc(s, size, size, joined)
    BY <1>7, <1>8
  <2>3. LET h == Realloc(s, size, size, joined)
        IN  /\ h \in ReadAheadBuf /\ h.cap = size /\ h.rb.chunk_size = size /\ h.rb.buffer = joined
            /\ h.rb.offset = s.rb.offset /\ h.rb.next = s.rb.next /\ h.rb.dead = s.rb.dead
            /\ h.last_buffer = s.last_buffer /\ h.last_cap = s.last_cap
    BY <2>1, ReallocResult, SMTT(60)
  <2>. HIDE DEF g
  <2>. QED
    BY <2>2, <2>3
<1>. HIDE DEF g
<1>10. /\ g \in ReadAheadBuf /\ g.rb.offset = 0 /\ g.rb.next = a.rb.next /\ g.rb.dead = a.rb.dead
       /\ g.rb.buffer = joined /\ g.last_buffer = b /\ g.rb.chunk_size = Len(g.rb.buffer)
       /\ g.cap = Len(g.rb.buffer) /\ g.last_cap = a.cap
  BY <1>3, <1>5, <1>9
<1>. QED
  BY <1>10, Zenon DEF g, joined, read, b, n, last

-----------------------------------------------------------------------------
\* A prefix of a file, extended by the element after it.
LEMMA ExtendSubSeq ==
    ASSUME NEW S, NEW file \in Seq(S), NEW i \in Nat \ {0}, NEW k \in Nat,
           i <= k + 1, k + 1 <= Len(file)
    PROVE  Append(SubSeq(file, i, k), file[k + 1]) = SubSeq(file, i, k + 1)
OBVIOUS

\* The chunks before chunk k are written chunks, up to the row before its first.
LEMMA ChunksBefore ==
    ASSUME NEW table, NEW file, WholeFile(table, file), NEW k \in 1..Len(file)
    PROVE  LET f == SubSeq(file, 1, k - 1)
           IN  /\ f \in Seq(Seq(Cell)) /\ FileRun(table, f, 1)
               /\ FileEnd(f, 1) = FirstRow(file[k]) - 1
               /\ Packed(table, file) => Packed(table, f) /\ NoRoomFor(table, f, FirstRow(file[k]))
<1>. DEFINE f == SubSeq(file, 1, k - 1)
            n == Len(file)
<1>1. file \in Seq(Seq(Cell)) /\ FileRun(table, file, 1) /\ table \in Seq(Row)
  BY DEF WholeFile, HoldsRows
<1>2. n \in Nat /\ k \in 1..n /\ k - 1 \in Nat
  BY <1>1
<1>3. /\ f \in Seq(Seq(Cell)) /\ Len(f) = k - 1 /\ \A c \in 1..k - 1 : f[c] = file[c]
  BY <1>1, <1>2
<1>4. f # << >> <=> k # 1
  BY <1>2, <1>3
<1>. HIDE DEF f
<1>5. FileRun(table, f, 1)
  <2>1. \A c \in 1..k - 1 : c \in 1..n
    BY <1>2
  <2>2. \A c \in 1..Len(f) : Chunk(table, f[c])
    BY <1>1, <1>3, <2>1 DEF FileRun
  <2>3. f # << >> => FirstRow(f[1]) = 1
    BY <1>1, <1>2, <1>3, <1>4 DEF FileRun
  <2>4. \A c \in 1..Len(f) - 1 : FirstRow(f[c + 1]) = LastRow(f[c]) + 1
    <3>1. \A c \in 1..Len(f) - 1 : c \in 1..n - 1 /\ f[c] = file[c] /\ f[c + 1] = file[c + 1]
      BY <1>2, <1>3
    <3>. QED
      BY <1>1, <3>1 DEF FileRun
  <2>. QED
    BY <2>2, <2>3, <2>4 DEF FileRun
<1>6. FileEnd(f, 1) = FirstRow(file[k]) - 1
  <2>1. CASE k = 1
    <3>1. f = << >> /\ FirstRow(file[1]) = 1
      BY <1>1, <1>2, <1>4, <2>1 DEF FileRun
    <3>. QED
      BY <2>1, <3>1 DEF FileEnd
  <2>2. CASE k # 1
    <3>1. k - 1 \in 1..n - 1 /\ (k - 1) + 1 = k /\ f[Len(f)] = file[k - 1]
      BY <1>2, <1>3, <2>2
    <3>2. FirstRow(file[k]) = LastRow(file[k - 1]) + 1
      BY <1>1, <3>1 DEF FileRun
    <3>3. LastRow(file[k - 1]) \in Int
      <4>1. file[k - 1] \in Seq(Cell) /\ Chunk(table, file[k - 1])
        BY <1>2, <3>1, WholeFileParts
      <4>. QED
        BY <1>1, <4>1, BlockRows DEF Chunk
    <3>4. FileEnd(f, 1) = LastRow(file[k - 1])
      BY <1>4, <2>2, <3>1 DEF FileEnd
    <3>. QED
      BY <3>2, <3>3, <3>4
  <2>. QED
    BY <2>1, <2>2
<1>7. ASSUME Packed(table, file) PROVE Packed(table, f) /\ NoRoomFor(table, f, FirstRow(file[k]))
  <2>1. \A c \in 1..Len(f) - 1 : c \in 1..n - 1 /\ f[c] = file[c] /\ f[c + 1] = file[c + 1]
    BY <1>2, <1>3
  <2>2. Packed(table, f)
    BY <1>7, <2>1 DEF Packed
  <2>3. NoRoomFor(table, f, FirstRow(file[k]))
    <3>. SUFFICES ASSUME f # << >>
                  PROVE  Len(f[Len(f)]) + RowSize(table[FirstRow(file[k])]) > BUFFER_SIZE
      BY DEF NoRoomFor
    <3>1. k - 1 \in 1..n - 1 /\ (k - 1) + 1 = k /\ f[Len(f)] = file[k - 1]
      BY <1>2, <1>3, <1>4
    <3>. QED
      BY <1>7, <3>1 DEF Packed
  <2>. QED
    BY <2>2, <2>3
<1>. QED
  BY <1>3, <1>5, <1>6, <1>7 DEF f

\* A writer that has dumped nothing has written nothing.
LEMMA NothingWritten ==
    ASSUME NEW table \in Seq(Row), NEW w \in WriteBuf, NEW lo \in Nat \ {0},
           WriterRun(table, w, lo, lo - 1)
    PROVE  w.file = << >>
<1>. SUFFICES ASSUME w.file # << >> PROVE FALSE
  OBVIOUS
<1>. DEFINE m == Len(w.file)
<1>1. w.file \in Seq(Seq(Cell)) /\ m \in Nat \ {0} /\ w.file[1] \in Seq(Cell) /\ FileRun(table, w.file, lo)
  BY DEF WriteBuf, WriterRun
<1>2. FileEnd(w.file, lo) = LastRow(w.file[m]) /\ FirstRow(w.file[1]) = lo /\ Chunk(table, w.file[1])
  BY <1>1 DEF FileEnd, FileRun
<1>3. LastRow(w.file[1]) <= LastRow(w.file[m])
  <2>1. 1 \in 1..m /\ m \in 1..m /\ 1 <= m
    BY <1>1
  <2>. QED
    BY <1>1, <2>1, LastRowsRise
<1>4. LastRow(w.file[1]) \in Nat /\ lo <= LastRow(w.file[1])
  BY <1>1, <1>2, BlockRows DEF Chunk
<1>5. FileEnd(w.file, lo) \in Nat /\ FileEnd(w.file, lo) <= lo - 1
  <2>1. lo - 1 \in Nat
    OBVIOUS
  <2>. QED
    BY <2>1, FlushedWasDumped
<1>. QED
  BY <1>2, <1>3, <1>4, <1>5

\* Division by chunks_per_file: a file is full at its multiples.
LEMMA FullFiles ==
    ASSUME NEW m \in Nat, NEW per \in Nat \ {0}, NEW f \in Nat \ {0},
           m \in (f - 1) * per + 1 .. f * per
    PROVE  m % per = 0 <=> m = f * per
<1>. DEFINE q == m \div per
            r == m % per
<1>1. q \in Int /\ m = per * q + r /\ r \in 0..per - 1
  OBVIOUS
<1>. HIDE DEF q, r
<1>2. ~(q >= f + 1)
  <2>. SUFFICES ASSUME q >= f + 1 PROVE FALSE
    OBVIOUS
  <2>1. per * q >= per * (f + 1) /\ per * (f + 1) = per * f + per
    BY <1>1
  <2>. QED
    BY <1>1, <2>1
<1>3. ~(q <= f - 2)
  <2>. SUFFICES ASSUME q <= f - 2 PROVE FALSE
    OBVIOUS
  <2>1. per * q <= per * (f - 2)
    BY <1>1
  <2>2. per * (f - 2) = (f - 1) * per - per
    OBVIOUS
  <2>. QED
    BY <1>1, <2>1, <2>2
<1>4. r = 0 <=> m = f * per
  <2>1. q = f \/ q = f - 1
    BY <1>1, <1>2, <1>3
  <2>2. (f - 1) * per = f * per - per /\ f * per = per * f /\ (f - 1) * per = per * (f - 1)
    OBVIOUS
  <2>. QED
    BY <1>1, <2>1, <2>2
<1>. QED
  BY <1>4 DEF r

-----------------------------------------------------------------------------
\* The read buffer after load_next(); the rest is as before.
LEMMA LoadingResult ==
    ASSUME ra \in ReadAheadBuf, NEW l, l.rbuf \in ReadBuf
    PROVE  LET a == Loading(l)
           IN  /\ a \in ReadAheadBuf /\ a.rb = l.rbuf /\ a.has_nexted = ra.has_nexted
               /\ a.last_buffer = ra.last_buffer /\ a.last_chunk_size = ra.last_chunk_size
               /\ a.cap = ra.cap /\ a.last_cap = ra.last_cap
BY DEF Loading, ReadAheadBuf

\* What the invariant says of a program that skips by chunks.
LEMMA SkipFacts ==
    ASSUME Typed, SkipInv, pc = "run", ~done_skipping
    PROVE  /\ stdin \in Streams /\ ra \in ReadAheadBuf /\ ra.rb \in ReadBuf /\ ~ra.rb.dead
           /\ ra.rb.next \in 0..Len(stdin.file) /\ ra.rb.next \in Nat /\ BetweenChunks /\ ~matched
           /\ Len(ra.last_buffer) <= BUFFER_SIZE
           /\ \A c \in 1..Len(stdin.file) : stdin.file[c] \in Seq(Cell) /\ Chunk(rows, stdin.file[c])
<1>1. /\ stdin \in Streams /\ ra \in ReadAheadBuf /\ ~ra.rb.dead
      /\ ra.rb.next \in 0..Len(stdin.file) /\ BetweenChunks /\ ~matched
  BY DEF Typed, SkipInv
<1>2. ra.rb \in ReadBuf /\ ra.rb.next \in Nat
  BY <1>1 DEF ReadAheadBuf, ReadBuf
<1>3. \A c \in 1..Len(stdin.file) : stdin.file[c] \in Seq(Cell) /\ Chunk(rows, stdin.file[c])
  BY <1>1, InputFacts, WholeFileParts
<1>4. Len(ra.last_buffer) <= BUFFER_SIZE
  <2>1. CASE ra.rb.next = 0
    BY <1>1, <2>1, FormatAssumption DEF BetweenChunks
  <2>2. CASE ra.rb.next # 0
    <3>1. ra.rb.next \in 1..Len(stdin.file) /\ ra.last_buffer = stdin.file[ra.rb.next]
      BY <1>1, <1>2, <2>2, InputFacts DEF BetweenChunks
    <3>. QED
      BY <1>3, <3>1 DEF Chunk
  <2>. QED
    BY <2>1, <2>2
<1>. QED
  BY <1>1, <1>2, <1>3, <1>4

\* A program that skips reads the first row of the next chunk, if there is one.
LEMMA SkipLoads ==
    ASSUME Typed, SkipInv, pc = "run", ~done_skipping, ra.rb.next # Len(stdin.file)
    PROVE  LET k == ra.rb.next + 1
               c == stdin.file[k]
               a == Loading(Next1)
           IN  /\ k \in 1..Len(stdin.file) /\ c \in Seq(Cell) /\ Chunk(rows, c)
               /\ Next1.outcome = "row" /\ Next1.row = FirstRow(c) /\ FirstRow(c) \in 1..Len(rows)
               /\ a \in ReadAheadBuf /\ ~a.rb.dead /\ a.rb.next = k
               /\ a.rb.buffer = c /\ a.rb.chunk_size = Len(c)
               /\ a.has_nexted = ra.has_nexted /\ a.last_buffer = ra.last_buffer
               /\ a.last_chunk_size = ra.last_chunk_size
               /\ a.cap = ra.cap /\ a.last_cap = ra.last_cap
<1>. DEFINE k == ra.rb.next + 1
            c == stdin.file[k]
            l == Next1
<1>1. k \in 1..Len(stdin.file) /\ c \in Seq(Cell) /\ Chunk(rows, c)
  <2>1. k \in 1..Len(stdin.file)
    BY SkipFacts, InputFacts
  <2>. HIDE DEF k
  <2>. QED
    BY <2>1, SkipFacts
<1>2. /\ l.outcome = "row" /\ l.row = FirstRow(c) /\ l.row \in 1..Len(rows)
      /\ l.rbuf \in ReadBuf /\ ~l.rbuf.dead /\ l.rbuf.next = k
      /\ l.rbuf.buffer = c /\ l.rbuf.chunk_size = Len(c)
  <2>1. ra.rb.offset = ra.rb.chunk_size
    BY SkipFacts DEF BetweenChunks
  <2>2. /\ WholeFile(rows, stdin.file) /\ ra.rb \in ReadBuf /\ ~ra.rb.dead
        /\ ra.rb.next \in 0..Len(stdin.file)
    BY SkipFacts, InputFacts
  <2>. QED
    BY <2>1, <2>2, LoadFetches DEF Next1
<1>3. /\ Loading(l) \in ReadAheadBuf /\ Loading(l).rb = l.rbuf /\ Loading(l).has_nexted = ra.has_nexted
      /\ Loading(l).last_buffer = ra.last_buffer /\ Loading(l).last_chunk_size = ra.last_chunk_size
      /\ Loading(l).cap = ra.cap /\ Loading(l).last_cap = ra.last_cap
  <2>1. ra \in ReadAheadBuf
    BY SkipFacts
  <2>. HIDE DEF l
  <2>. QED
    BY <1>2, <2>1, LoadingResult
<1>. HIDE DEF l
<1>. QED
  BY <1>1, <1>2, <1>3 DEF l

\* After the last chunk it reads nothing more.
LEMMA SkipStops ==
    ASSUME Typed, SkipInv, pc = "run", ~done_skipping, ra.rb.next = Len(stdin.file)
    PROVE  LET a == Loading(Next1)
           IN  /\ Next1.outcome = "stop"
               /\ a \in ReadAheadBuf /\ ~a.rb.dead /\ a.rb.next = ra.rb.next
               /\ a.rb.buffer = ra.rb.buffer /\ a.rb.chunk_size = 0 /\ a.rb.offset = 0
               /\ a.has_nexted = ra.has_nexted /\ a.last_buffer = ra.last_buffer
               /\ a.last_chunk_size = ra.last_chunk_size
               /\ a.cap = ra.cap /\ a.last_cap = ra.last_cap
<1>. DEFINE l == Next1
<1>1. /\ WholeFile(rows, stdin.file) /\ ra.rb \in ReadBuf /\ ~ra.rb.dead
      /\ ra.rb.next \in 0..Len(stdin.file) /\ Upcoming(rows, stdin.file, ra.rb, Len(rows) + 1)
  BY SkipFacts, InputFacts DEF BetweenChunks, Upcoming, UpcomingTo
<1>2. l = Loaded(ReadEof(ra.rb), 0, "stop")
  BY <1>1, LoadStops DEF Next1
<1>3. l.outcome = "stop" /\ l.rbuf = ReadEof(ra.rb)
  BY <1>2 DEF Loaded
<1>4. /\ l.rbuf \in ReadBuf /\ l.rbuf.chunk_size = 0 /\ l.rbuf.offset = 0
      /\ l.rbuf.next = ra.rb.next /\ ~l.rbuf.dead /\ l.rbuf.buffer = ra.rb.buffer
  BY <1>1, <1>3, ReadEofType
<1>5. /\ Loading(l) \in ReadAheadBuf /\ Loading(l).rb = l.rbuf /\ Loading(l).has_nexted = ra.has_nexted
      /\ Loading(l).last_buffer = ra.last_buffer /\ Loading(l).last_chunk_size = ra.last_chunk_size
      /\ Loading(l).cap = ra.cap /\ Loading(l).last_cap = ra.last_cap
  <2>1. ra \in ReadAheadBuf
    BY SkipFacts
  <2>. HIDE DEF l
  <2>. QED
    BY <1>4, <2>1, LoadingResult
<1>. HIDE DEF l
<1>. QED
  BY <1>3, <1>4, <1>5 DEF l

-----------------------------------------------------------------------------
\* After GotoNextChunk the program is between chunks again, one chunk on.
LEMMA SkipsOn ==
    ASSUME Typed, SkipInv, pc = "run", ~done_skipping, ra.rb.next # Len(stdin.file),
           ra' = GotoNextChunk(Loading(Next1)), UNCHANGED args
    PROVE  BetweenChunks' /\ ra' \in ReadAheadBuf /\ ra'.rb.next = ra.rb.next + 1 /\ ~ra'.rb.dead
<1>. DEFINE k == ra.rb.next + 1
            c == stdin.file[k]
            a == Loading(Next1)
            g == GotoNextChunk(a)
<1>1. /\ a \in ReadAheadBuf /\ ~a.rb.dead /\ a.rb.next = k
      /\ a.rb.buffer = c /\ a.rb.chunk_size = Len(c) /\ a.last_buffer = ra.last_buffer
      /\ a.cap = ra.cap /\ a.last_cap = ra.last_cap
  BY SkipLoads
<1>2. /\ ra.rb.next \in Nat /\ ra.cap = BUFFER_SIZE /\ ra.last_cap = BUFFER_SIZE
      /\ Len(ra.last_buffer) <= BUFFER_SIZE
  BY SkipFacts DEF BetweenChunks
<1>. HIDE DEF a
<1>3. /\ g \in ReadAheadBuf /\ g.has_nexted = TRUE /\ g.rb.offset = g.rb.chunk_size
      /\ g.rb.next = a.rb.next /\ g.rb.dead = a.rb.dead
      /\ g.rb.buffer = a.last_buffer /\ g.last_buffer = a.rb.buffer
      /\ g.last_chunk_size = a.rb.chunk_size /\ g.cap = a.last_cap /\ g.last_cap = a.cap
  BY <1>1, GotoNextResult
<1>4. ra' = g /\ stdin' = stdin
  BY DEF a, args
<1>. HIDE DEF g
<1>5. ra'.rb.next = k /\ k # 0
  BY <1>1, <1>2, <1>3, <1>4
<1>6. /\ ra'.rb.offset = ra'.rb.chunk_size /\ Len(ra'.rb.buffer) <= BUFFER_SIZE
      /\ ra'.cap = BUFFER_SIZE /\ ra'.last_cap = BUFFER_SIZE /\ ra'.has_nexted
      /\ ra'.last_buffer = stdin'.file[k] /\ ra'.last_chunk_size = Len(ra'.last_buffer)
  BY <1>1, <1>2, <1>3, <1>4
<1>7. BetweenChunks'
  BY <1>5, <1>6 DEF BetweenChunks
<1>. QED
  BY <1>1, <1>3, <1>4, <1>5, <1>7

\* The row that going back leads to: the first of the last chunk.
BackTo == IF ra.rb.next = 0 THEN 1 ELSE FirstRow(stdin.file[ra.rb.next])

\* What FitsInv says of the read and read ahead buffers a.
Roomy(a) ==
    Packed(rows, stdin.file) =>
        /\ Len(a.rb.buffer) <= a.cap /\ Len(a.last_buffer) <= a.last_cap
        /\ a.rb.next # Len(stdin.file) => a.cap >= BUFFER_SIZE

\* What going back establishes of them.
WentBack(a) ==
    /\ a \in ReadAheadBuf /\ ~a.rb.dead /\ a.rb.next \in 0..Len(stdin.file)
    /\ BackTo \in 1..Len(rows) + 1 /\ Upcoming(rows, stdin.file, a.rb, BackTo)
    /\ Roomy(a)

\* The first cell of a block is that of its first row, which is upcoming there.
LEMMA BlockUpcoming ==
    ASSUME NEW table \in Seq(Row), NEW file, NEW rb \in ReadBuf, ~rb.dead, Block(table, rb.buffer),
           rb.offset = 0, rb.chunk_size = Len(rb.buffer), rb.next # 0,
           LastRow(rb.buffer) = LastRow(file[rb.next])
    PROVE  Upcoming(table, file, rb, FirstRow(rb.buffer))
<1>1. rb.buffer \in Seq(Cell)
  BY DEF ReadBuf
<1>2. Len(rb.buffer) \in Nat \ {0} /\ rb.buffer[1] = [row |-> FirstRow(rb.buffer), byte |-> 1]
  BY <1>1, BlockEnds
<1>3. HeldRow(table, rb, FirstRow(rb.buffer))
  BY <1>2 DEF HeldRow
<1>4. rb.offset # rb.chunk_size
  BY <1>2
<1>. QED
  BY <1>3, <1>4 DEF Upcoming, UpcomingTo

\* Gone too far: the last chunk and the one just read are joined.
LEMMA GoesBack ==
    ASSUME Typed, SkipInv, pc = "run", ~done_skipping, ra.rb.next # Len(stdin.file)
    PROVE  WentBack(GotoLastChunk(Loading(Next1)))
<1>. DEFINE m == ra.rb.next
            k == m + 1
            c == stdin.file[k]
            a == Loading(Next1)
            g == GotoLastChunk(a)
<1>1. /\ k \in 1..Len(stdin.file) /\ c \in Seq(Cell) /\ Chunk(rows, c) /\ FirstRow(c) \in 1..Len(rows)
      /\ a \in ReadAheadBuf /\ ~a.rb.dead /\ a.rb.next = k
      /\ a.rb.buffer = c /\ a.rb.chunk_size = Len(c) /\ a.has_nexted = ra.has_nexted
      /\ a.last_buffer = ra.last_buffer /\ a.last_chunk_size = ra.last_chunk_size
      /\ a.cap = ra.cap /\ a.last_cap = ra.last_cap
  BY SkipLoads
<1>2. /\ m \in Nat /\ ra.cap = BUFFER_SIZE /\ ra.last_cap = BUFFER_SIZE /\ (ra.has_nexted <=> m # 0)
      /\ IF m = 0 THEN ra.last_buffer = << >>
         ELSE ra.last_buffer = stdin.file[m] /\ ra.last_chunk_size = Len(ra.last_buffer)
      /\ stdin \in Streams /\ Len(ra.last_buffer) <= BUFFER_SIZE
  BY SkipFacts DEF BetweenChunks
<1>3. /\ rows \in Seq(Row) /\ Len(rows) \in Nat /\ WholeFile(rows, stdin.file) /\ Len(stdin.file) \in Nat
  BY <1>2, InputFacts
<1>4. Block(rows, c) /\ Len(c) <= BUFFER_SIZE /\ Len(c) \in Nat
  BY <1>1 DEF Chunk
<1>. HIDE DEF a
<1>5. CASE m = 0
  <2>1. /\ g \in ReadAheadBuf /\ g.rb.offset = 0 /\ g.rb.next = 1 /\ ~g.rb.dead
        /\ g.rb.buffer = c /\ g.last_buffer = << >> /\ g.rb.chunk_size = Len(c)
        /\ g.cap = BUFFER_SIZE /\ g.last_cap = BUFFER_SIZE
    <3>1. ~a.has_nexted
      BY <1>1, <1>2, <1>5
    <3>2. /\ g \in ReadAheadBuf /\ g.rb.offset = 0
          /\ g.rb.next = a.rb.next /\ g.rb.dead = a.rb.dead
          /\ g.rb.buffer = a.rb.buffer /\ g.last_buffer = a.last_buffer
          /\ g.rb.chunk_size = a.rb.chunk_size /\ g.cap = a.cap /\ g.last_cap = a.last_cap
      BY <1>1, <3>1, GotoLastFirst
    <3>. HIDE DEF g
    <3>. QED
      BY <1>1, <1>2, <1>5, <3>2
  <2>. HIDE DEF g
  <2>2. g.rb \in ReadBuf
    BY <2>1 DEF ReadAheadBuf
  <2>3. k = 1 /\ FirstRow(c) = 1 /\ BackTo = 1
    <3>1. stdin.file # << >>
      BY <1>1, <1>3
    <3>. QED
      BY <1>3, <1>5, <3>1, WholeFileParts DEF BackTo
  <2>4. Upcoming(rows, stdin.file, g.rb, 1)
    <3>1. LastRow(g.rb.buffer) = LastRow(stdin.file[g.rb.next])
      BY <2>1, <2>3
    <3>2. /\ rows \in Seq(Row) /\ ~g.rb.dead /\ Block(rows, g.rb.buffer) /\ g.rb.offset = 0
          /\ g.rb.chunk_size = Len(g.rb.buffer) /\ g.rb.next # 0 /\ FirstRow(g.rb.buffer) = 1
      BY <1>3, <1>4, <2>1, <2>3
    <3>3. Upcoming(rows, stdin.file, g.rb, FirstRow(g.rb.buffer))
      BY <2>2, <3>1, <3>2, BlockUpcoming
    <3>. QED
      BY <3>2, <3>3
  <2>5. Len(g.rb.buffer) <= g.cap /\ Len(g.last_buffer) <= g.last_cap /\ g.cap >= BUFFER_SIZE
    BY <1>4, <2>1, FormatAssumption
  <2>6. 1 \in 1..Len(rows) + 1 /\ 1 \in 0..Len(stdin.file)
    BY <1>1, <1>3, <2>3
  <2>. QED
    BY <2>1, <2>3, <2>4, <2>5, <2>6 DEF WentBack, Roomy, g, a
<1>6. CASE m # 0
  <2>. DEFINE last == stdin.file[m]
              joined == last \o c
  <2>1. m \in 1..Len(stdin.file) /\ m # Len(stdin.file)
    BY <1>1, <1>2, <1>3, <1>6
  <2>2. last \in Seq(Cell) /\ Chunk(rows, last) /\ FirstRow(c) = LastRow(last) + 1
    BY <1>3, <2>1, WholeFileParts
  <2>3. FirstRow(last) \in 1..Len(rows) /\ BackTo = FirstRow(last)
    <3>1. FirstRow(last) \in 1..Len(rows)
      BY <1>3, <2>2, BlockRows DEF Chunk
    <3>. QED
      BY <1>6, <3>1 DEF BackTo
  <2>4. ra.last_buffer = last /\ ra.last_chunk_size = Len(last)
    BY <1>2, <1>6
  <2>. HIDE DEF last
  <2>5. /\ joined \in Seq(Cell) /\ Len(joined) = Len(last) + Len(c) /\ Block(rows, joined)
        /\ FirstRow(joined) = FirstRow(last) /\ LastRow(joined) = LastRow(c)
    BY <1>1, <1>3, <1>4, <2>2, JoinBlocks, SMTT(30) DEF Chunk
  <2>6. /\ g \in ReadAheadBuf /\ g.rb.offset = 0 /\ g.rb.next = k /\ ~g.rb.dead
        /\ g.rb.buffer = joined /\ g.last_buffer = c /\ g.rb.chunk_size = Len(g.rb.buffer)
        /\ g.cap = Len(g.rb.buffer) /\ g.last_cap = BUFFER_SIZE
    <3>1. a.has_nexted /\ a.last_chunk_size = Len(a.last_buffer)
      BY <1>1, <1>2, <1>6
    <3>2. a.rb.chunk_size \in 0..Len(a.rb.buffer)
      BY <1>1, <1>4, SMTT(30)
    <3>3. /\ g \in ReadAheadBuf /\ g.rb.offset = 0
          /\ g.rb.next = a.rb.next /\ g.rb.dead = a.rb.dead
          /\ g.rb.buffer = a.last_buffer \o SubSeq(a.rb.buffer, 1, a.rb.chunk_size)
          /\ g.last_buffer = a.rb.buffer /\ g.rb.chunk_size = Len(g.rb.buffer)
          /\ g.cap = Len(g.rb.buffer) /\ g.last_cap = a.cap
      BY <1>1, <3>1, <3>2, GotoLastJoins
    <3>. HIDE DEF g
    <3>4. SubSeq(a.rb.buffer, 1, a.rb.chunk_size) = c
      BY <1>1
    <3>. QED
      BY <1>1, <1>2, <2>4, <3>3, <3>4
  <2>. HIDE DEF g, joined
  <2>7. g.rb \in ReadBuf
    BY <2>6 DEF ReadAheadBuf
  <2>8. Upcoming(rows, stdin.file, g.rb, BackTo)
    <3>1. LastRow(g.rb.buffer) = LastRow(stdin.file[g.rb.next]) /\ g.rb.next # 0
      BY <1>1, <2>5, <2>6
    <3>2. Block(rows, g.rb.buffer) /\ FirstRow(g.rb.buffer) = BackTo
      BY <2>3, <2>5, <2>6
    <3>. QED
      BY <1>3, <2>6, <2>7, <3>1, <3>2, BlockUpcoming
  <2>9. Packed(rows, stdin.file) => g.cap >= BUFFER_SIZE
    <3>. SUFFICES ASSUME Packed(rows, stdin.file) PROVE Len(joined) > BUFFER_SIZE
      BY <2>5, <2>6, FormatAssumption
    <3>. DEFINE size == RowSize(rows[FirstRow(c)])
    <3>1. Len(last) + size > BUFFER_SIZE
      <4>1. m \in 1..Len(stdin.file) - 1
        BY <1>3, <2>1
      <4>. QED
        BY <4>1 DEF Packed, last
    <3>2. size \in Nat /\ size <= Len(c)
      <4>1. c[1] = [row |-> FirstRow(c), byte |-> 1] /\ Len(c) \in Nat \ {0} /\ FirstRow(c) \in Nat
        <5>1. rows \in Seq(Row) /\ c \in Seq(Cell) /\ Block(rows, c)
          BY <1>1, <1>3, <1>4
        <5>. HIDE DEF c
        <5>2. c[1] = [row |-> FirstRow(c), byte |-> 1] /\ Len(c) \in Nat \ {0}
          BY <5>1, BlockEnds
        <5>. QED
          BY <1>1, <1>3, <5>2
      <4>2. RowAt(rows, c, 0, FirstRow(c))
        <5>1. 0 \in 0..Len(c) - 1 /\ 0 + 1 = 1
          BY <4>1
        <5>. QED
          BY <1>1, <1>3, <1>4, <4>1, <5>1, RowInBlock
      <4>3. size \in Nat
        BY <1>1, <1>3, RowSizePositive
      <4>. QED
        BY <4>2, <4>3 DEF RowAt
    <3>. HIDE DEF size
    <3>. QED
      BY <1>4, <2>2, <2>5, <3>1, <3>2, FormatAssumption
  <2>10. Len(g.rb.buffer) <= g.cap /\ Len(g.last_buffer) <= g.last_cap
    BY <1>4, <2>5, <2>6
  <2>. QED
    BY <1>1, <1>3, <2>3, <2>6, <2>8, <2>9, <2>10 DEF WentBack, Roomy, g, a
<1>. QED
  BY <1>5, <1>6

\* The end was reached by skipping: back to the start of the last chunk.
LEMMA GoesBackAtEnd ==
    ASSUME Typed, SkipInv, pc = "run", ~done_skipping, ra.rb.next = Len(stdin.file)
    PROVE  WentBack(GotoLastChunk(Loading(Next1)))
<1>. DEFINE m == ra.rb.next
            b == ra.rb.buffer
            a == Loading(Next1)
            g == GotoLastChunk(a)
<1>1. /\ a \in ReadAheadBuf /\ ~a.rb.dead /\ a.rb.next = m
      /\ a.rb.buffer = b /\ a.rb.chunk_size = 0 /\ a.rb.offset = 0
      /\ a.has_nexted = ra.has_nexted /\ a.last_buffer = ra.last_buffer
      /\ a.last_chunk_size = ra.last_chunk_size /\ a.cap = ra.cap /\ a.last_cap = ra.last_cap
  BY SkipStops
<1>2. /\ m \in Nat /\ m = Len(stdin.file)
      /\ ra.cap = BUFFER_SIZE /\ ra.last_cap = BUFFER_SIZE /\ (ra.has_nexted <=> m # 0)
      /\ IF m = 0 THEN ra.last_buffer = << >>
         ELSE ra.last_buffer = stdin.file[m] /\ ra.last_chunk_size = Len(ra.last_buffer)
      /\ stdin \in Streams /\ Len(ra.last_buffer) <= BUFFER_SIZE
      /\ b \in Seq(Cell) /\ Len(b) <= BUFFER_SIZE
  BY SkipFacts DEF BetweenChunks, ReadBuf
<1>3. /\ rows \in Seq(Row) /\ Len(rows) \in Nat /\ WholeFile(rows, stdin.file)
      /\ Len(stdin.file) \in Nat /\ stdin.file \in Seq(Seq(Cell))
  BY <1>2, InputFacts
<1>4. m \in 0..Len(stdin.file)
  BY <1>2
<1>. HIDE DEF a, b, m
<1>5. CASE m = 0
  <2>1. /\ g \in ReadAheadBuf /\ g.rb.offset = 0 /\ g.rb.next = m /\ ~g.rb.dead
        /\ g.rb.buffer = b /\ g.last_buffer = << >> /\ g.rb.chunk_size = 0
        /\ g.cap = BUFFER_SIZE /\ g.last_cap = BUFFER_SIZE
    <3>1. ~a.has_nexted
      BY <1>1, <1>2, <1>5
    <3>2. /\ g \in ReadAheadBuf /\ g.rb.offset = 0
          /\ g.rb.next = a.rb.next /\ g.rb.dead = a.rb.dead
          /\ g.rb.buffer = a.rb.buffer /\ g.last_buffer = a.last_buffer
          /\ g.rb.chunk_size = a.rb.chunk_size /\ g.cap = a.cap /\ g.last_cap = a.last_cap
      BY <1>1, <3>1, GotoLastFirst
    <3>. HIDE DEF g
    <3>. QED
      BY <1>1, <1>2, <1>5, <3>2
  <2>. HIDE DEF g
  <2>2. Len(rows) = 0 /\ BackTo = 1
    <3>1. stdin.file \in Seq(Seq(Cell)) /\ Len(stdin.file) = 0
      BY <1>2, <1>3, <1>5
    <3>2. stdin.file = << >>
      BY <3>1
    <3>. QED
      BY <1>3, <1>5, <3>2, WholeFileParts DEF BackTo, m
  <2>3. Upcoming(rows, stdin.file, g.rb, 1)
    BY <1>2, <2>1, <2>2 DEF Upcoming, UpcomingTo
  <2>4. Len(g.rb.buffer) <= g.cap /\ Len(g.last_buffer) <= g.last_cap
    BY <1>2, <2>1, FormatAssumption
  <2>. QED
    BY <1>2, <1>4, <2>1, <2>2, <2>3, <2>4 DEF WentBack, Roomy, g, a
<1>6. CASE m # 0
  <2>. DEFINE last == stdin.file[m]
  <2>1. m \in 1..Len(stdin.file)
    BY <1>2, <1>6
  <2>2. last \in Seq(Cell) /\ Chunk(rows, last)
    BY <1>3, <2>1, WholeFileParts
  <2>3. FirstRow(last) \in 1..Len(rows) /\ BackTo = FirstRow(last)
    <3>1. FirstRow(last) \in 1..Len(rows)
      BY <1>3, <2>2, BlockRows DEF Chunk
    <3>. QED
      BY <1>6, <3>1 DEF BackTo, m
  <2>4. ra.last_buffer = last /\ ra.last_chunk_size = Len(last)
    BY <1>2, <1>6
  <2>. HIDE DEF last
  <2>5. /\ g \in ReadAheadBuf /\ g.rb.offset = 0 /\ g.rb.next = m /\ ~g.rb.dead
        /\ g.rb.buffer = last /\ g.last_buffer = b /\ g.rb.chunk_size = Len(g.rb.buffer)
        /\ g.cap = Len(g.rb.buffer) /\ g.last_cap = BUFFER_SIZE
    <3>1. a.has_nexted /\ a.last_chunk_size = Len(a.last_buffer)
      BY <1>1, <1>2, <1>6
    <3>2. a.rb.chunk_size \in 0..Len(a.rb.buffer)
      BY <1>1, <1>2
    <3>3. /\ g \in ReadAheadBuf /\ g.rb.offset = 0
          /\ g.rb.next = a.rb.next /\ g.rb.dead = a.rb.dead
          /\ g.rb.buffer = a.last_buffer \o SubSeq(a.rb.buffer, 1, a.rb.chunk_size)
          /\ g.last_buffer = a.rb.buffer /\ g.rb.chunk_size = Len(g.rb.buffer)
          /\ g.cap = Len(g.rb.buffer) /\ g.last_cap = a.cap
      BY <1>1, <3>1, <3>2, GotoLastJoins
    <3>. HIDE DEF g
    <3>4. last \o SubSeq(b, 1, 0) = last
      BY <1>2, <2>2
    <3>. QED
      BY <1>1, <1>2, <2>4, <3>3, <3>4
  <2>. HIDE DEF g
  <2>6. g.rb \in ReadBuf
    BY <2>5 DEF ReadAheadBuf
  <2>7. Upcoming(rows, stdin.file, g.rb, BackTo)
    <3>1. LastRow(g.rb.buffer) = LastRow(stdin.file[g.rb.next]) /\ g.rb.next # 0
      BY <1>6, <2>5 DEF last
    <3>2. Block(rows, g.rb.buffer) /\ FirstRow(g.rb.buffer) = BackTo
      BY <2>2, <2>3, <2>5 DEF Chunk
    <3>. QED
      BY <1>3, <2>5, <2>6, <3>1, <3>2, BlockUpcoming
  <2>8. Len(g.rb.buffer) <= g.cap /\ Len(g.last_buffer) <= g.last_cap
    BY <1>2, <2>2, <2>5
  <2>. QED
    BY <1>2, <1>3, <1>4, <2>3, <2>5, <2>7, <2>8 DEF WentBack, Roomy, g, a
<1>. QED
  BY <1>5, <1>6

\* What is written when the program turns from skipping to reading row BackTo.
LEMMA TurnsToReading ==
    ASSUME Typed, SkipInv, pc = "run", ~done_skipping, tool # "bsplit",
           WentBack(ra'), done_skipping', UNCHANGED <<args, wbuf, matched>>
    PROVE  ReadInv'
<1>. DEFINE m == ra.rb.next
<1>. PICK n : n = BackTo
  OBVIOUS
<1>1. /\ stdin \in Streams /\ m \in 0..Len(stdin.file) /\ m \in Nat /\ matched = FALSE
      /\ wbuf.buffer = << >> /\ \A c \in 1..m : rows[FirstRow(stdin.file[c])].before
      /\ wbuf.file = IF tool = "btakeuntil" THEN SubSeq(stdin.file, 1, m - 1) ELSE << >>
  BY SkipFacts DEF SkipInv
<1>2. rows \in Seq(Row) /\ Len(rows) \in Nat /\ WholeFile(rows, stdin.file) /\ CutDivides
  BY <1>1, InputFacts, CutMeaning
<1>3. Cut \in Nat
  BY <1>2 DEF CutDivides
<1>4. n \in 1..Len(rows) + 1 /\ n \in Nat /\ Upcoming(rows, stdin.file, ra'.rb, n)
  BY <1>2 DEF WentBack
<1>5. n <= Cut + 1 /\ n - 1 \in Nat
  <2>1. CASE m = 0
    BY <1>3, <2>1 DEF BackTo
  <2>2. CASE m # 0
    <3>1. m \in 1..m /\ m \in 1..Len(stdin.file) /\ n = FirstRow(stdin.file[m])
      BY <1>1, <2>2 DEF BackTo
    <3>2. rows[n].before
      BY <1>1, <3>1
    <3>3. n \in 1..Len(rows)
      BY <1>2, <3>1, WholeFileParts, BlockRows DEF Chunk
    <3>. QED
      BY <1>2, <1>3, <3>2, <3>3 DEF CutDivides
  <2>. QED
    BY <2>1, <2>2
<1>6. tool = "bdropuntil" => WriterRun(rows, wbuf, Cut + 1, Cut)
  <2>. SUFFICES ASSUME tool = "bdropuntil" PROVE WriterRun(rows, wbuf, Cut + 1, Cut)
    OBVIOUS
  <2>1. wbuf.file = << >> /\ wbuf.buffer = << >>
    BY <1>1
  <2>. QED
    BY <1>3, <2>1 DEF WriterRun, FileRun, FileEnd
<1>7. /\ tool = "btakeuntil" => WriterRun(rows, wbuf, 1, n - 1)
      /\ Packed(rows, stdin.file) => PacksSoFar(rows, wbuf) /\ NoRoomFor(rows, wbuf.file, n)
  <2>1. CASE wbuf.file = << >> /\ (tool = "btakeuntil" => n = 1)
    <3>1. tool = "btakeuntil" => WriterRun(rows, wbuf, 1, n - 1)
      BY <1>1, <2>1 DEF WriterRun, FileRun, FileEnd
    <3>2. wbuf.file = << >> /\ wbuf.buffer = << >>
      BY <1>1, <2>1
    <3>3. PacksSoFar(rows, wbuf) /\ NoRoomFor(rows, wbuf.file, n)
      BY <3>2 DEF PacksSoFar, Packed, NoRoomFor
    <3>. QED
      BY <3>1, <3>3
  <2>2. CASE tool = "btakeuntil" /\ m # 0
    <3>1. m \in 1..Len(stdin.file) /\ n = FirstRow(stdin.file[m])
      BY <1>1, <2>2 DEF BackTo
    <3>. DEFINE f == SubSeq(stdin.file, 1, m - 1)
    <3>2. wbuf.file = f
      BY <1>1, <2>2
    <3>3. /\ FileRun(rows, f, 1) /\ FileEnd(f, 1) = n - 1
          /\ Packed(rows, stdin.file) => Packed(rows, f) /\ NoRoomFor(rows, f, n)
      BY <1>2, <3>1, ChunksBefore
    <3>. HIDE DEF f
    <3>4. WriterRun(rows, wbuf, 1, n - 1)
      BY <1>1, <3>2, <3>3 DEF WriterRun
    <3>5. Packed(rows, stdin.file) => PacksSoFar(rows, wbuf) /\ NoRoomFor(rows, wbuf.file, n)
      BY <1>1, <3>2, <3>3 DEF PacksSoFar
    <3>. QED
      BY <3>4, <3>5
  <2>3. \/ wbuf.file = << >> /\ (tool = "btakeuntil" => n = 1)
        \/ tool = "btakeuntil" /\ m # 0
    <3>1. CASE m = 0
      <4>1. n = 1 /\ SubSeq(stdin.file, 1, m - 1) = << >>
        BY <1>1, <3>1, InputFacts DEF BackTo
      <4>. QED
        BY <1>1, <4>1
    <3>2. CASE m # 0
      BY <1>1, <3>2
    <3>. QED
      BY <3>1, <3>2
  <2>. QED
    BY <2>1, <2>2, <2>3
<1>8. rows' = rows /\ stdin' = stdin /\ tool' = tool /\ wbuf' = wbuf /\ matched' = FALSE /\ Cut' = Cut
  BY <1>1 DEF args, rows, Cut
<1>9. WrittenBefore(n)'
  <2>1. matched <=> n > Cut + 1
    <3>1. ~(n > Cut + 1)
      BY <1>3, <1>4, <1>5
    <3>. QED
      BY <1>1, <3>1, Zenon
  <2>2. tool = "bdropuntil" => WriterRun(rows, wbuf, Cut + 1, IF matched THEN n - 1 ELSE Cut)
    BY <1>1, <1>6
  <2>3. Packed(rows, stdin.file) => PacksSoFar(rows, wbuf) /\ ReadyFor(rows, wbuf, n)
    BY <1>7 DEF ReadyFor
  <2>4. WrittenBefore(n)
    BY <1>5, <1>7, <2>1, <2>2, <2>3 DEF WrittenBefore
  <2>5. matched' = matched
    BY <1>1, <1>8
  <2>. QED
    BY <1>8, <2>4, <2>5 DEF WrittenBefore
<1>10. n \in (1..Len(rows) + 1)' /\ Upcoming(rows, stdin.file, ra.rb, n)' /\ tool' # "bsplit"
  <2>1. (Len(rows))' = Len(rows)
    BY <1>8
  <2>. QED
    BY <1>4, <1>8, <2>1
<1>. QED
  BY <1>9, <1>10 DEF ReadInv

-----------------------------------------------------------------------------
\* A program that reads row by row reads row n, where row n is upcoming ...
LEMMA Reads ==
    ASSUME Typed, NEW n \in 1..Len(rows), Upcoming(rows, stdin.file, ra.rb, n), FitsInv,
           pc = "run", done_skipping
    PROVE  LET a == Loading(Next1)
           IN  /\ Next1.outcome = "row" /\ Next1.row = n
               /\ a \in ReadAheadBuf /\ ~a.rb.dead /\ a.rb.next \in 0..Len(stdin.file)
               /\ Upcoming(rows, stdin.file, a.rb, n + 1) /\ Roomy(a)
<1>. DEFINE l == Next1
            a == Loading(Next1)
            file == stdin.file
<1>1. /\ WholeFile(rows, file) /\ ra \in ReadAheadBuf /\ ra.rb \in ReadBuf /\ ~ra.rb.dead
      /\ ra.rb.next \in 0..Len(file) /\ Len(file) \in Nat
  BY InputFacts DEF Typed, ReadAheadBuf
<1>2. /\ l.outcome = "row" /\ l.row = n
      /\ l.rbuf \in ReadBuf /\ ~l.rbuf.dead /\ l.rbuf.next \in 0..Len(file)
      /\ Upcoming(rows, file, l.rbuf, n + 1)
      /\ \/ l.rbuf.buffer = ra.rb.buffer /\ l.rbuf.next = ra.rb.next
         \/ ra.rb.next # Len(file) /\ l.rbuf.buffer = file[ra.rb.next + 1]
  BY <1>1, LoadUpcoming DEF Next1
<1>. HIDE DEF l
<1>3. /\ Loading(l) \in ReadAheadBuf /\ Loading(l).rb = l.rbuf
      /\ Loading(l).last_buffer = ra.last_buffer
      /\ Loading(l).cap = ra.cap /\ Loading(l).last_cap = ra.last_cap
  BY <1>1, <1>2, LoadingResult
<1>4. a = Loading(l)
  BY DEF l
<1>. HIDE DEF a
<1>5. Roomy(a)
  <2>. SUFFICES ASSUME Packed(rows, file)
                PROVE  /\ Len(a.rb.buffer) <= a.cap /\ Len(a.last_buffer) <= a.last_cap
                       /\ a.rb.next # Len(file) => a.cap >= BUFFER_SIZE
    BY DEF Roomy
  <2>1. /\ Len(ra.rb.buffer) <= ra.cap /\ Len(ra.last_buffer) <= ra.last_cap
        /\ ra.rb.next # Len(file) => ra.cap >= BUFFER_SIZE
    BY DEF FitsInv, ChunkFitsBuffer
  <2>2. CASE l.rbuf.buffer = ra.rb.buffer /\ l.rbuf.next = ra.rb.next
    BY <1>3, <1>4, <2>1, <2>2
  <2>3. CASE ra.rb.next # Len(file) /\ l.rbuf.buffer = file[ra.rb.next + 1]
    <3>. DEFINE k == ra.rb.next + 1
    <3>1. k \in 1..Len(file)
      BY <1>1, <2>3
    <3>. HIDE DEF k
    <3>2. file[k] \in Seq(Cell) /\ Len(file[k]) <= BUFFER_SIZE
      BY <1>1, <3>1, WholeFileParts DEF Chunk
    <3>3. ra.cap \in Nat
      BY <1>1 DEF ReadAheadBuf
    <3>4. a.rb.buffer = file[k]
      BY <1>3, <1>4, <2>3 DEF k
    <3>5. Len(file[k]) \in Nat
      BY <3>2
    <3>. QED
      BY <1>3, <1>4, <2>1, <2>3, <3>2, <3>3, <3>4, <3>5, FormatAssumption, SMTT(30)
  <2>. QED
    BY <1>2, <2>2, <2>3
<1>6. /\ a \in ReadAheadBuf /\ ~a.rb.dead /\ a.rb.next \in 0..Len(file)
      /\ Upcoming(rows, file, a.rb, n + 1)
  BY <1>2, <1>3, <1>4
<1>. QED
  BY <1>2, <1>5, <1>6 DEF l, a

\* ... and stops where none is.
LEMMA ReadsNoMore ==
    ASSUME Typed, Upcoming(rows, stdin.file, ra.rb, Len(rows) + 1), FitsInv,
           pc = "run", done_skipping
    PROVE  LET a == Loading(Next1)
           IN  /\ Next1.outcome = "stop"
               /\ a \in ReadAheadBuf /\ ~a.rb.dead /\ a.rb.next \in 0..Len(stdin.file) /\ Roomy(a)
<1>. DEFINE l == Next1
            a == Loading(Next1)
<1>1. /\ WholeFile(rows, stdin.file) /\ ra \in ReadAheadBuf /\ ra.rb \in ReadBuf /\ ~ra.rb.dead
      /\ ra.rb.next \in 0..Len(stdin.file)
  BY InputFacts DEF Typed, ReadAheadBuf
<1>2. l = Loaded(ReadEof(ra.rb), 0, "stop")
  BY <1>1, LoadStops DEF Next1
<1>3. l.outcome = "stop" /\ l.rbuf = ReadEof(ra.rb)
  BY <1>2 DEF Loaded
<1>4. /\ l.rbuf \in ReadBuf /\ ~l.rbuf.dead
      /\ l.rbuf.next = ra.rb.next /\ l.rbuf.buffer = ra.rb.buffer
  BY <1>1, <1>3, ReadEofType
<1>. HIDE DEF l
<1>5. /\ Loading(l) \in ReadAheadBuf /\ Loading(l).rb = l.rbuf
      /\ Loading(l).last_buffer = ra.last_buffer
      /\ Loading(l).cap = ra.cap /\ Loading(l).last_cap = ra.last_cap
  BY <1>1, <1>4, LoadingResult
<1>6. a = Loading(l)
  BY DEF l
<1>. HIDE DEF a
<1>7. Roomy(a)
  BY <1>4, <1>5, <1>6 DEF Roomy, FitsInv, ChunkFitsBuffer
<1>. QED
  BY <1>1, <1>3, <1>4, <1>5, <1>6, <1>7 DEF l, a

\* What keeps the input keeps its facts.
LEMMA SameInput ==
    ASSUME UNCHANGED args
    PROVE  /\ rows' = rows /\ stdin' = stdin /\ tool' = tool /\ per_file' = per_file /\ Cut' = Cut
           /\ (Len(rows))' = Len(rows) /\ (Len(stdin.file))' = Len(stdin.file)
BY DEF args, rows, Cut

\* The files of bsplit are as before.
LEMMA SplitKept ==
    ASSUME SplitInv, tool # "bsplit", UNCHANGED <<args, splitVars>>
    PROVE  SplitInv'
<1>1. stdin' = stdin /\ tool' = tool /\ per_file' = per_file /\ files' = files /\ moved' = moved
  BY SameInput DEF splitVars
<1>2. Splits'
  BY <1>1 DEF SplitInv, Splits
<1>. QED
  BY <1>1, <1>2 DEF SplitInv

-----------------------------------------------------------------------------
\* A row was looked at, and what it called for was written.
LEMMA ReadStep ==
    ASSUME IInv, pc = "run", done_skipping, NEW n \in 1..Len(rows),
           Upcoming(rows, stdin.file, ra.rb, n), ra' = Loading(Next1),
           UNCHANGED <<args, done_skipping, splitVars, pc>>,
           wbuf' \in WriteBuf, matched' \in BOOLEAN, WrittenBefore(n + 1)'
    PROVE  IInv'
<1>1. Typed /\ FitsInv /\ tool # "bsplit"
  BY DEF IInv, ReadInv
<1>2. /\ rows' = rows /\ stdin' = stdin /\ tool' = tool /\ per_file' = per_file
      /\ (Len(rows))' = Len(rows) /\ (Len(stdin.file))' = Len(stdin.file)
      /\ files' = files /\ moved' = moved /\ done_skipping' = done_skipping /\ pc' = pc
  BY SameInput DEF splitVars
<1>3. /\ ra' \in ReadAheadBuf /\ ~ra'.rb.dead /\ ra'.rb.next \in 0..Len(stdin.file)
      /\ Upcoming(rows, stdin.file, ra'.rb, n + 1) /\ Roomy(ra')
  BY <1>1, Reads
<1>4. Typed'
  BY <1>1, <1>2, <1>3 DEF Typed
<1>5. SkipInv'
  BY <1>2 DEF SkipInv
<1>6. ReadInv'
  <2>1. Len(rows) \in Nat
    BY <1>1, InputFacts DEF Typed
  <2>2. n + 1 \in 1..Len(rows) + 1
    BY <2>1
  <2>3. (n + 1) \in (1..Len(rows) + 1)' /\ Upcoming(rows, stdin.file, ra.rb, n + 1)' /\ tool' # "bsplit"
    BY <1>1, <1>2, <1>3, <2>2
  <2>. QED
    BY <2>3 DEF ReadInv
<1>7. FitsInv'
  BY <1>2, <1>3 DEF FitsInv, ChunkFitsBuffer, Roomy
<1>8. SplitInv'
  BY <1>1, SplitKept DEF IInv
<1>9. DoneInv'
  BY <1>2 DEF DoneInv
<1>. QED
  BY <1>4, <1>5, <1>6, <1>7, <1>8, <1>9 DEF IInv

\* Skipping gave way to reading row by row.
LEMMA BackStep ==
    ASSUME IInv, pc = "run", ~done_skipping, tool # "bsplit", WentBack(ra'),
           done_skipping' = TRUE, UNCHANGED <<args, wbuf, matched, splitVars, pc>>
    PROVE  IInv'
<1>1. Typed /\ SkipInv
  BY DEF IInv
<1>2. /\ stdin' = stdin /\ tool' = tool /\ per_file' = per_file /\ wbuf' = wbuf /\ matched' = matched
      /\ rows' = rows /\ (Len(stdin.file))' = Len(stdin.file)
      /\ files' = files /\ moved' = moved /\ pc' = pc
  BY SameInput DEF splitVars
<1>3. Typed'
  BY <1>1, <1>2 DEF Typed, WentBack
<1>4. SkipInv'
  BY DEF SkipInv
<1>5. ReadInv'
  BY <1>1, TurnsToReading
<1>6. FitsInv'
  BY <1>2 DEF FitsInv, ChunkFitsBuffer, WentBack, Roomy
<1>7. SplitInv'
  BY SplitKept DEF IInv
<1>8. DoneInv'
  BY <1>2 DEF DoneInv
<1>. QED
  BY <1>3, <1>4, <1>5, <1>6, <1>7, <1>8 DEF IInv

\* A chunk was skipped, taken or moved.
LEMMA SkipStep ==
    ASSUME IInv, pc = "run", ~done_skipping, ra.rb.next # Len(stdin.file),
           ra' = GotoNextChunk(Loading(Next1)), UNCHANGED <<args, skipVars, pc>>,
           tool # "bsplit" => rows[FirstRow(stdin.file[ra.rb.next + 1])].before,
           wbuf' \in WriteBuf, wbuf'.buffer = << >>,
           wbuf'.file = IF tool = "btakeuntil" THEN SubSeq(stdin.file, 1, ra.rb.next) ELSE << >>,
           files' \in Seq(Seq(Seq(Cell))), moved' \in Nat, SplitInv'
    PROVE  IInv'
<1>. DEFINE k == ra.rb.next + 1
<1>1. Typed /\ SkipInv
  BY DEF IInv
<1>2. /\ rows' = rows /\ stdin' = stdin /\ tool' = tool /\ per_file' = per_file
      /\ (Len(stdin.file))' = Len(stdin.file)
      /\ matched' = matched /\ done_skipping' = done_skipping /\ pc' = pc
  BY SameInput DEF skipVars
<1>3. /\ ra.rb.next \in Nat /\ ~matched /\ ra.rb.next \in 0..Len(stdin.file) /\ Len(stdin.file) \in Nat
      /\ stdin \in Streams
  BY <1>1, SkipFacts, InputFacts
<1>4. k \in 0..Len(stdin.file) /\ k \in Nat /\ k - 1 = ra.rb.next
  BY <1>3
<1>5. BetweenChunks' /\ ra' \in ReadAheadBuf /\ ra'.rb.next = k /\ ~ra'.rb.dead
  BY <1>1, SkipsOn
<1>. HIDE DEF k
<1>6. Typed'
  BY <1>1, <1>2, <1>3, <1>4, <1>5 DEF Typed
<1>7. SkipInv'
  <2>1. tool # "bsplit" => \A c \in 1..k : rows[FirstRow(stdin.file[c])].before
    <3>1. tool # "bsplit" => \A c \in 1..ra.rb.next : rows[FirstRow(stdin.file[c])].before
      BY <1>1 DEF SkipInv
    <3>2. \A c \in 1..k : c \in 1..ra.rb.next \/ c = k
      BY <1>3 DEF k
    <3>3. tool # "bsplit" => rows[FirstRow(stdin.file[k])].before
      BY DEF k
    <3>. QED
      BY <3>1, <3>2, <3>3
  <2>2. wbuf'.file = IF tool = "btakeuntil" THEN SubSeq(stdin.file, 1, k - 1) ELSE << >>
    BY <1>4
  <2>. QED
    BY <1>2, <1>3, <1>5, <2>1, <2>2 DEF SkipInv
<1>8. ReadInv'
  BY <1>2 DEF ReadInv
<1>9. FitsInv'
  <2>1. ChunkFitsBuffer'
    <3>1. stdin' \in Streams
      BY <1>2, <1>3
    <3>2. /\ ra'.cap = BUFFER_SIZE /\ ra'.last_cap = BUFFER_SIZE /\ Len(ra'.rb.buffer) <= BUFFER_SIZE
          /\ ra'.last_buffer = stdin.file[k]
      BY <1>2, <1>3, <1>5 DEF BetweenChunks, k
    <3>3. k \in 1..Len(stdin.file)
      BY <1>3, <1>4 DEF k
    <3>4. Len(stdin.file[k]) <= BUFFER_SIZE
      BY <1>3, <3>3, InputFacts, WholeFileParts DEF Chunk
    <3>. QED
      BY <3>2, <3>4 DEF ChunkFitsBuffer
  <2>. QED
    BY <1>2, <2>1 DEF FitsInv
<1>10. DoneInv'
  BY <1>2 DEF DoneInv
<1>. QED
  BY <1>6, <1>7, <1>8, <1>9, <1>10 DEF IInv

\* The rest is flushed: row n was not to be written, or there is none.
LEMMA FinishStep ==
    ASSUME IInv, pc = "run", done_skipping, NEW n \in 1..Len(rows) + 1, WrittenBefore(n),
           n = Len(rows) + 1 \/ (tool = "btakeuntil" /\ n = Cut + 1),
           ra' \in ReadAheadBuf, ~ra'.rb.dead, ra'.rb.next \in 0..Len(stdin.file), Roomy(ra'),
           wbuf' = WriteFlush(wbuf), pc' = "done", UNCHANGED <<args, skipVars, splitVars>>
    PROVE  IInv'
<1>1. Typed /\ tool # "bsplit" /\ stdin \in Streams /\ wbuf \in WriteBuf /\ matched \in BOOLEAN
  BY DEF IInv, ReadInv, Typed
<1>2. /\ rows' = rows /\ stdin' = stdin /\ tool' = tool /\ per_file' = per_file /\ Cut' = Cut
      /\ (Len(rows))' = Len(rows) /\ (Len(stdin.file))' = Len(stdin.file)
      /\ matched' = matched /\ done_skipping' = done_skipping /\ files' = files /\ moved' = moved
  BY SameInput DEF skipVars, splitVars
<1>3. /\ rows \in Seq(Row) /\ Len(rows) \in Nat /\ Cut \in 0..Len(rows) /\ Cut \in Nat
      /\ n \in Nat /\ n - 1 \in Nat
  BY <1>1, InputFacts, CutMeaning DEF CutDivides
<1>. DEFINE v == WriteFlush(wbuf)
<1>4. v \in WriteBuf
  <2>1. wbuf.buffer \in Seq(Cell) /\ wbuf.file \in Seq(Seq(Cell))
    BY <1>1 DEF WriteBuf
  <2>2. Append(wbuf.file, wbuf.buffer) \in Seq(Seq(Cell))
    BY <2>1
  <2>. QED
    BY <1>1, <2>1, <2>2 DEF WriteFlush, WriteBuf
<1>. HIDE DEF v
<1>5. tool = "bdropuntil" => Holds(v.file, Cut + 1, Len(rows))
  <2>. SUFFICES ASSUME tool = "bdropuntil" PROVE Holds(v.file, Cut + 1, Len(rows))
    OBVIOUS
  <2>1. WriterRun(rows, wbuf, Cut + 1, Len(rows))
    <3>1. n = Len(rows) + 1 /\ (matched <=> n > Cut + 1)
      BY DEF WrittenBefore
    <3>2. WriterRun(rows, wbuf, Cut + 1, IF matched THEN n - 1 ELSE Cut)
      BY DEF WrittenBefore
    <3>3. CASE matched
      <4>1. n - 1 = Len(rows)
        BY <1>3, <3>1
      <4>. QED
        BY <3>2, <3>3, <4>1
    <3>4. CASE ~matched
      <4>1. Cut = Len(rows)
        BY <1>3, <3>1, <3>4
      <4>. QED
        BY <3>2, <3>4, <4>1
    <3>. QED
      BY <3>3, <3>4
  <2>2. WriterRun(rows, v, Cut + 1, Len(rows)) /\ v.buffer = << >>
    <3>1. Cut + 1 \in Nat
      BY <1>3
    <3>2. LET u == WriteFlush(wbuf) IN WriterRun(rows, u, Cut + 1, Len(rows)) /\ u.buffer = << >>
      BY <1>1, <1>3, <2>1, <3>1, FlushState
    <3>. QED
      BY <3>2 DEF v
  <2>. QED
    BY <2>2 DEF WriterRun, Holds
<1>6. tool = "btakeuntil" => Holds(v.file, 1, Cut)
  <2>. SUFFICES ASSUME tool = "btakeuntil" PROVE Holds(v.file, 1, Cut)
    OBVIOUS
  <2>1. n - 1 = Cut /\ WriterRun(rows, wbuf, 1, n - 1)
    <3>1. n <= Cut + 1 /\ WriterRun(rows, wbuf, 1, n - 1)
      BY DEF WrittenBefore
    <3>. QED
      BY <1>3, <3>1
  <2>2. WriterRun(rows, v, 1, Cut) /\ v.buffer = << >>
    <3>1. WriterRun(rows, wbuf, 1, Cut)
      BY <2>1
    <3>. QED
      BY <1>1, <1>3, <3>1, FlushState DEF v
  <2>. QED
    BY <2>2 DEF WriterRun, Holds
<1>7. Packed(rows, stdin.file) => Packed(rows, v.file)
  <2>. SUFFICES ASSUME Packed(rows, stdin.file) PROVE Packed(rows, v.file)
    OBVIOUS
  <2>1. PacksSoFar(rows, wbuf)
    BY DEF WrittenBefore
  <2>2. CASE tool = "bdropuntil"
    <3>1. WriterRun(rows, wbuf, Cut + 1, IF matched THEN n - 1 ELSE Cut)
      BY <2>2 DEF WrittenBefore
    <3>2. (IF matched THEN n - 1 ELSE Cut) \in Nat
      BY <1>3
    <3>3. PacksSoFar(rows, v)
      BY <1>1, <1>3, <2>1, <3>1, <3>2, FlushState DEF v
    <3>. QED
      BY <3>3 DEF PacksSoFar
  <2>3. CASE tool = "btakeuntil"
    <3>1. WriterRun(rows, wbuf, 1, n - 1)
      BY <2>3 DEF WrittenBefore
    <3>2. PacksSoFar(rows, v)
      BY <1>1, <1>3, <2>1, <3>1, FlushState DEF v
    <3>. QED
      BY <3>2 DEF PacksSoFar
  <2>. QED
    BY <1>1, <2>2, <2>3 DEF Typed
<1>8. Typed'
  BY <1>1, <1>2, <1>4 DEF Typed, v
<1>9. SkipInv' /\ ReadInv'
  BY DEF SkipInv, ReadInv
<1>10. FitsInv'
  BY <1>2 DEF FitsInv, ChunkFitsBuffer, Roomy
<1>11. SplitInv'
  BY <1>1, SplitKept DEF IInv
<1>12. DropsUntil'
  <2>1. tool = "bdropuntil" => HoldsUpTo(v.file, Cut + 1, Len(rows))
    BY <1>3, <1>5 DEF Holds, HoldsUpTo
  <2>2. wbuf' = v
    BY DEF v
  <2>. QED
    BY <1>2, <1>5, <2>1, <2>2 DEF DropsUntil, Holds, HoldsUpTo
<1>13. TakesUntil'
  <2>1. tool = "btakeuntil" => HoldsUpTo(v.file, 1, Cut)
    BY <1>3, <1>6 DEF Holds, HoldsUpTo
  <2>2. wbuf' = v
    BY DEF v
  <2>. QED
    BY <1>2, <1>6, <2>1, <2>2 DEF TakesUntil, Holds, HoldsUpTo
<1>14. StaysPacked'
  BY <1>2, <1>7 DEF StaysPacked, v
<1>. QED
  BY <1>8, <1>9, <1>10, <1>11, <1>12, <1>13, <1>14 DEF IInv, DoneInv

-----------------------------------------------------------------------------
\* bsplit adds the next chunk to the file that is open, or to a new one.
LEMMA MovesOn ==
    ASSUME Typed, SkipInv, SplitInv, pc = "run", tool = "bsplit", ~done_skipping,
           ra.rb.next # Len(stdin.file), MoveChunk(Next1)
    PROVE  SplitInv' /\ files' \in Seq(Seq(Seq(Cell))) /\ moved' \in Nat
<1>. DEFINE file == stdin.file
            F == Len(files)
            start == (F - 1) * per_file + 1
            k == moved + 1
            c == file[k]
<1>1. /\ files \in Seq(Seq(Seq(Cell))) /\ F \in Nat /\ moved \in Nat /\ per_file \in Nat \ {0}
      /\ stdin \in Streams /\ file \in Seq(Seq(Cell)) /\ Len(file) \in Nat
  BY InputFacts DEF Typed
<1>2. /\ moved = ra.rb.next /\ (is_open <=> moved % per_file # 0)
      /\ \A f \in 1..F : files[f] = SubSeq(file, (f - 1) * per_file + 1, IF f = F THEN moved ELSE f * per_file)
      /\ IF files = << >> THEN moved = 0 ELSE moved \in start .. F * per_file
  BY DEF SplitInv, Splits
<1>3. k \in 1..Len(file) /\ c \in Seq(Cell)
  BY <1>2, SkipLoads
<1>4. /\ files' = IF is_open THEN [files EXCEPT ![F] = Append(@, c)] ELSE Append(files, <<c>>)
      /\ moved' = k /\ is_open' = (k % per_file # 0)
  <2>. DEFINE r == Loading(Next1)
              chunk == SubSeq(r.rb.buffer, 1, r.rb.chunk_size)
  <2>1. r.rb.buffer = c /\ r.rb.chunk_size = Len(c)
    BY <1>2, SkipLoads
  <2>. HIDE DEF r
  <2>2. chunk = c
    BY <1>3, <2>1
  <2>3. /\ files' = IF is_open THEN [files EXCEPT ![F] = Append(@, chunk)] ELSE Append(files, <<chunk>>)
        /\ moved' = k /\ is_open' = (moved' % per_file # 0)
    BY DEF MoveChunk, r
  <2>. HIDE DEF chunk
  <2>. QED
    BY <2>2, <2>3
<1>5. UNCHANGED args /\ pc' = "run" /\ ra' = GotoNextChunk(Loading(Next1))
  BY DEF MoveChunk
<1>6. stdin' = stdin /\ tool' = tool /\ per_file' = per_file
  BY <1>5, SameInput
<1>7. ra'.rb.next = k
  BY <1>2, <1>5, SkipsOn
<1>. HIDE DEF file, c, F
<1>8. /\ files' \in Seq(Seq(Seq(Cell)))
      /\ \A f \in 1..Len(files') :
            files'[f] = SubSeq(file, (f - 1) * per_file + 1, IF f = Len(files') THEN k ELSE f * per_file)
      /\ files' # << >> /\ k \in (Len(files') - 1) * per_file + 1 .. Len(files') * per_file
  <2>1. CASE is_open
    <3>1. moved # 0
      <4>1. 0 % per_file = 0
        BY <1>1
      <4>. QED
        BY <1>2, <2>1, <4>1
    <3>2. files # << >> /\ F \in Nat \ {0} /\ moved \in start .. F * per_file
      BY <1>1, <1>2, <3>1 DEF F
    <3>3. moved # F * per_file
      BY <1>1, <1>2, <2>1, <3>2, FullFiles
    <3>4. start \in Nat \ {0}
      <4>1. F - 1 \in Nat
        BY <3>2
      <4>2. (F - 1) * per_file \in Nat
        BY <1>1, <4>1
      <4>. QED
        BY <4>2
    <3>5. F * per_file \in Nat
      BY <1>1
    <3>6. F \in 1..F /\ files[F] = SubSeq(file, start, moved)
      BY <1>2, <3>2
    <3>. DEFINE g == Append(files[F], c)
    <3>7. g = SubSeq(file, start, k)
      <4>1. start <= moved + 1 /\ moved + 1 <= Len(file)
        BY <1>1, <1>3, <3>2, <3>4
      <4>. HIDE DEF start
      <4>. QED
        BY <1>1, <3>4, <3>6, <4>1, ExtendSubSeq DEF c
    <3>8. g \in Seq(Seq(Cell))
      <4>1. files[F] \in Seq(Seq(Cell))
        <5>1. files \in Seq(Seq(Seq(Cell))) /\ F \in 1..Len(files)
          BY <1>1, <3>6 DEF F
        <5>. QED
          BY <5>1
      <4>. DEFINE h == files[F]
      <4>. HIDE DEF h
      <4>2. h \in Seq(Seq(Cell)) /\ c \in Seq(Cell)
        BY <1>3, <4>1 DEF h
      <4>3. Append(h, c) \in Seq(Seq(Cell))
        BY <4>2, AppendProperties
      <4>. QED
        BY <4>3 DEF h
    <3>. HIDE DEF g
    <3>9. /\ files' \in Seq(Seq(Seq(Cell))) /\ Len(files') = F /\ files'[F] = g
          /\ \A f \in 1..F : f # F => files'[f] = files[f]
      <4>1. files' = [files EXCEPT ![F] = g]
        BY <1>4, <2>1 DEF g
      <4>. QED
        BY <1>1, <3>6, <3>8, <4>1 DEF F
    <3>10. k \in start .. F * per_file
      <4>. HIDE DEF start
      <4>. QED
        BY <1>1, <3>2, <3>3, <3>4, <3>5
    <3>11. files' # << >>
      BY <3>2, <3>9
    <3>. QED
      BY <1>2, <3>7, <3>9, <3>10, <3>11
  <2>2. CASE ~is_open
    <3>. DEFINE g == <<c>>
    <3>1. moved = F * per_file
      <4>1. CASE files = << >>
        <5>1. moved = 0 /\ F = 0
          BY <1>2, <4>1 DEF F
        <5>. QED
          BY <1>1, <5>1
      <4>2. CASE files # << >>
        <5>1. F \in Nat \ {0} /\ moved \in start .. F * per_file
          BY <1>1, <1>2, <4>2 DEF F
        <5>. QED
          BY <1>1, <1>2, <2>2, <5>1, FullFiles
      <4>. QED
        BY <4>1, <4>2
    <3>2. g \in Seq(Seq(Cell)) /\ g = SubSeq(file, k, k)
      BY <1>1, <1>3 DEF c
    <3>. HIDE DEF g
    <3>3. /\ files' \in Seq(Seq(Seq(Cell))) /\ Len(files') = F + 1 /\ files'[F + 1] = g
          /\ \A f \in 1..F : files'[f] = files[f]
      <4>1. files' = Append(files, g)
        BY <1>4, <2>2 DEF g
      <4>2. files \in Seq(Seq(Seq(Cell))) /\ g \in Seq(Seq(Cell))
        BY <1>1, <3>2
      <4>3. /\ Append(files, g) \in Seq(Seq(Seq(Cell))) /\ Len(Append(files, g)) = Len(files) + 1
            /\ Append(files, g)[Len(files) + 1] = g
            /\ \A f \in 1..Len(files) : Append(files, g)[f] = files[f]
        BY <4>2, AppendProperties
      <4>. QED
        BY <4>1, <4>3 DEF F
    <3>4. ((F + 1) - 1) * per_file + 1 = k /\ (F + 1) * per_file = F * per_file + per_file
      BY <1>1, <3>1
    <3>5. k \in ((F + 1) - 1) * per_file + 1 .. (F + 1) * per_file
      BY <1>1, <3>1, <3>4
    <3>6. ASSUME NEW f \in 1..F + 1
          PROVE  files'[f] = SubSeq(file, (f - 1) * per_file + 1, IF f = F + 1 THEN k ELSE f * per_file)
      <4>1. CASE f = F + 1
        BY <3>2, <3>3, <3>4, <4>1
      <4>2. CASE f # F + 1
        <5>1. f \in 1..F /\ (IF f = F THEN moved ELSE f * per_file) = f * per_file
          <6>1. f \in 1..F
            BY <1>1, <4>2
          <6>2. f = F => moved = f * per_file
            BY <3>1
          <6>. QED
            BY <6>1, <6>2
        <5>. QED
          BY <1>2, <3>3, <4>2, <5>1
      <4>. QED
        BY <4>1, <4>2
    <3>7. files' # << >>
      BY <1>1, <3>3
    <3>. QED
      BY <3>3, <3>5, <3>6, <3>7
  <2>. QED
    BY <2>1, <2>2
<1>9. Splits'
  BY <1>4, <1>5, <1>6, <1>8 DEF Splits, file
<1>10. SplitInv'
  BY <1>4, <1>6, <1>7, <1>9 DEF SplitInv
<1>. QED
  BY <1>1, <1>4, <1>8, <1>10

\* bsplit has no more input.
LEMMA CloseStep ==
    ASSUME IInv, pc = "run", tool = "bsplit", CloseLast(Next1)
    PROVE  IInv'
<1>1. Typed /\ SkipInv /\ SplitInv /\ ~done_skipping
  BY DEF IInv, ReadInv
<1>2. ra.rb.next = Len(stdin.file)
  BY <1>1, SkipLoads DEF CloseLast
<1>3. /\ Next1.outcome = "stop" /\ ra' \in ReadAheadBuf /\ ~ra'.rb.dead /\ ra'.rb.next = ra.rb.next
      /\ ra'.rb.buffer = ra.rb.buffer /\ ra'.last_buffer = ra.last_buffer
      /\ ra'.cap = ra.cap /\ ra'.last_cap = ra.last_cap
  BY <1>1, <1>2, SkipStops DEF CloseLast
<1>4. pc' = "done" /\ UNCHANGED <<args, wbuf, skipVars, files, moved>>
  BY <1>3 DEF CloseLast, Outcome
<1>5. /\ rows' = rows /\ stdin' = stdin /\ tool' = tool /\ per_file' = per_file
      /\ wbuf' = wbuf /\ matched' = matched /\ done_skipping' = done_skipping
      /\ files' = files /\ moved' = moved /\ (Len(stdin.file))' = Len(stdin.file)
  BY <1>4, SameInput DEF skipVars
<1>6. Typed'
  BY <1>1, <1>3, <1>4, <1>5 DEF Typed
<1>7. SkipInv' /\ ReadInv'
  BY <1>4 DEF SkipInv, ReadInv
<1>8. FitsInv'
  <2>1. /\ Len(ra.rb.buffer) <= BUFFER_SIZE /\ Len(ra.last_buffer) <= BUFFER_SIZE
        /\ ra.cap = BUFFER_SIZE /\ ra.last_cap = BUFFER_SIZE
    BY <1>1, SkipFacts DEF BetweenChunks
  <2>. QED
    BY <1>3, <1>4, <2>1 DEF FitsInv, ChunkFitsBuffer
<1>9. SplitInv'
  <2>1. moved = Len(stdin.file)
    BY <1>1, <1>2 DEF SplitInv
  <2>2. Splits'
    BY <1>1, <1>5, <2>1 DEF SplitInv, Splits
  <2>. QED
    BY <1>4, <1>5, <2>2 DEF SplitInv
<1>10. DoneInv'
  <2>1. wbuf.file = << >>
    BY <1>1 DEF SkipInv
  <2>2. StaysPacked'
    BY <1>5, <2>1 DEF StaysPacked, Packed
  <2>. QED
    BY <1>5, <2>2 DEF DoneInv, DropsUntil, TakesUntil
<1>. QED
  BY <1>6, <1>7, <1>8, <1>9, <1>10 DEF IInv

-----------------------------------------------------------------------------
\* The first state is one between chunks.
LEMMA Starts == Init => IInv
<1>. SUFFICES ASSUME Init PROVE IInv
  OBVIOUS
<1>1. /\ tool \in {"bdropuntil", "btakeuntil", "bsplit"} /\ stdin \in Streams
      /\ wbuf = WbufInit /\ matched = FALSE /\ done_skipping = FALSE
      /\ files = << >> /\ is_open = FALSE /\ moved = 0 /\ pc = "run"
  BY DEF Init
<1>2. per_file \in Nat \ {0}
  BY ChunkToolsAssumption DEF Init
<1>3. BUFFER_SIZE \in Nat /\ Len(stdin.file) \in Nat /\ stdin.file \in Seq(Seq(Cell))
  BY <1>1, FormatAssumption, InputFacts
<1>4. /\ ra \in ReadAheadBuf /\ ~ra.rb.dead /\ ra.rb.next = 0 /\ ra.rb.offset = ra.rb.chunk_size
      /\ ra.rb.buffer = << >> /\ ra.last_buffer = << >>
      /\ ra.cap = BUFFER_SIZE /\ ra.last_cap = BUFFER_SIZE /\ ra.has_nexted = FALSE
  <2>1. PICK g \in Garbage : ra = RabufInit(g)
    BY DEF Init
  <2>2. g \in Int
    BY ChunkToolsAssumption
  <2>. DEFINE r == RbufInit
  <2>3. /\ r \in ReadBuf /\ ~r.dead /\ r.next = 0 /\ r.offset = r.chunk_size /\ r.buffer = << >>
    BY <1>3 DEF RbufInit, ReadBuf
  <2>. HIDE DEF r
  <2>. QED
    BY <1>3, <2>1, <2>2, <2>3 DEF RabufInit, ReadAheadBuf, r
<1>5. wbuf \in WriteBuf /\ wbuf.buffer = << >> /\ wbuf.file = << >>
  BY <1>1 DEF WbufInit, WriteBuf
<1>6. Typed
  <2>1. files \in Seq(Seq(Seq(Cell))) /\ moved \in Nat
    BY <1>1
  <2>2. matched \in BOOLEAN /\ done_skipping \in BOOLEAN
    BY <1>1
  <2>3. ra.rb.next \in 0..Len(stdin.file)
    BY <1>3, <1>4
  <2>. QED
    BY <1>1, <1>2, <1>4, <1>5, <2>1, <2>2, <2>3 DEF Typed
<1>7. SkipInv
  <2>1. BetweenChunks
    <3>1. Len(ra.rb.buffer) <= BUFFER_SIZE
      BY <1>3, <1>4
    <3>. QED
      BY <1>4, <3>1 DEF BetweenChunks
  <2>2. SubSeq(stdin.file, 1, 0 - 1) = << >>
    BY <1>3
  <2>. QED
    BY <1>1, <1>4, <1>5, <2>1, <2>2 DEF SkipInv
<1>8. ReadInv
  BY <1>1 DEF ReadInv
<1>9. FitsInv
  BY <1>1, <1>3, <1>4 DEF FitsInv, ChunkFitsBuffer
<1>10. SplitInv
  <2>1. 0 % per_file = 0
    BY <1>2
  <2>2. Splits
    BY <1>1 DEF Splits
  <2>. QED
    BY <1>1, <1>4, <2>1, <2>2 DEF SplitInv
<1>11. DoneInv
  BY <1>1 DEF DoneInv
<1>. QED
  BY <1>6, <1>7, <1>8, <1>9, <1>10, <1>11 DEF IInv

\* What is known of a row that is looked at.
LEMMA RowLookedAt ==
    ASSUME IInv, NEW n \in 1..Len(rows)
    PROVE  /\ rows \in Seq(Row) /\ RowSize(rows[n]) <= BUFFER_SIZE /\ rows[n].before \in BOOLEAN
           /\ n \in Nat /\ n - 1 \in Nat /\ (n - 1) + 1 = n /\ n + 1 \in Nat /\ (n + 1) - 1 = n
           /\ Cut \in Nat /\ (rows[n].before <=> n <= Cut)
           /\ wbuf \in WriteBuf
<1>1. stdin \in Streams /\ wbuf \in WriteBuf
  BY DEF IInv, Typed
<1>2. CutDivides /\ rows \in Seq(Row) /\ Len(rows) \in Nat
  BY <1>1, InputFacts, CutMeaning
<1>. QED
  BY <1>1, <1>2, InputFacts DEF CutDivides

\* Dumping row n, where what is to be written starts with row lo.
LEMMA DumpsRow ==
    ASSUME IInv, NEW n \in 1..Len(rows), NEW lo \in Nat, WriterRun(rows, wbuf, lo, n - 1)
    PROVE  LET v == Dump(wbuf, n, rows[n])
           IN  /\ v \in WriteBuf /\ v.buffer # << >> /\ WriterRun(rows, v, lo, n)
               /\ PacksSoFar(rows, wbuf) /\ ReadyFor(rows, wbuf, n) => PacksSoFar(rows, v)
<1>. DEFINE m == n - 1
            v == Dump(wbuf, m + 1, rows[m + 1])
<1>1. m \in Nat /\ m + 1 = n /\ rows \in Seq(Row) /\ wbuf \in WriteBuf /\ RowSize(rows[n]) <= BUFFER_SIZE
  BY RowLookedAt
<1>2. WriterRun(rows, wbuf, lo, m)
  OBVIOUS
<1>. HIDE DEF m
<1>3. /\ v \in WriteBuf /\ v.buffer # << >> /\ WriterRun(rows, v, lo, m + 1)
      /\ PacksSoFar(rows, wbuf) /\ ReadyFor(rows, wbuf, m + 1) => PacksSoFar(rows, v)
  <2>1. m + 1 \in 1..Len(rows) /\ RowSize(rows[m + 1]) <= BUFFER_SIZE
    BY <1>1
  <2>. QED
    BY <1>1, <1>2, <2>1, DumpState
<1>. QED
  BY <1>1, <1>3

\* bdropuntil drops row n, which is before the value.
LEMMA DropRowWrites ==
    ASSUME IInv, NEW n \in 1..Len(rows), WrittenBefore(n), tool = "bdropuntil",
           rows[n].before, ~matched, UNCHANGED <<args, wbuf, matched>>
    PROVE  WrittenBefore(n + 1)'
<1>1. /\ rows' = rows /\ stdin' = stdin /\ tool' = tool /\ Cut' = Cut /\ wbuf' = wbuf /\ matched' = matched
  BY SameInput
<1>2. /\ n \in Nat /\ Cut \in Nat /\ n <= Cut /\ rows \in Seq(Row) /\ wbuf \in WriteBuf
  BY RowLookedAt
<1>3. WriterRun(rows, wbuf, Cut + 1, Cut)
  BY DEF WrittenBefore
<1>4. wbuf.file = << >>
  <2>1. (Cut + 1) - 1 = Cut /\ Cut + 1 \in Nat \ {0}
    BY <1>2
  <2>. DEFINE lo == Cut + 1
  <2>2. lo \in Nat \ {0} /\ WriterRun(rows, wbuf, lo, lo - 1)
    BY <1>3, <2>1
  <2>. HIDE DEF lo
  <2>. QED
    BY <1>2, <2>2, NothingWritten
<1>5. ReadyFor(rows, wbuf, n + 1)
  BY <1>4 DEF ReadyFor, NoRoomFor
<1>6. ~matched /\ ~(n + 1 > Cut + 1)
  BY <1>2
<1>7. Packed(rows, stdin.file) => PacksSoFar(rows, wbuf)
  BY DEF WrittenBefore
<1>8. WrittenBefore(n + 1)
  BY <1>3, <1>5, <1>6, <1>7 DEF WrittenBefore
<1>. QED
  BY <1>1, <1>8 DEF WrittenBefore

\* bdropuntil dumps row n, the first that is not before the value or a later one.
LEMMA DropDumpWrites ==
    ASSUME IInv, NEW n \in 1..Len(rows), WrittenBefore(n), tool = "bdropuntil",
           matched \/ ~rows[n].before, wbuf' = Dump(wbuf, n, rows[n]), matched' = TRUE, UNCHANGED args
    PROVE  wbuf' \in WriteBuf /\ WrittenBefore(n + 1)'
<1>. DEFINE v == Dump(wbuf, n, rows[n])
<1>1. /\ rows' = rows /\ stdin' = stdin /\ tool' = tool /\ Cut' = Cut
  BY SameInput
<1>2. /\ n \in Nat /\ n - 1 \in Nat /\ (n + 1) - 1 = n /\ Cut \in Nat /\ (rows[n].before <=> n <= Cut)
  BY RowLookedAt
<1>3. (matched <=> n > Cut + 1) /\ WriterRun(rows, wbuf, Cut + 1, IF matched THEN n - 1 ELSE Cut)
  BY DEF WrittenBefore
<1>4. n > Cut /\ WriterRun(rows, wbuf, Cut + 1, n - 1)
  <2>1. CASE matched
    BY <1>2, <1>3, <2>1
  <2>2. CASE ~matched
    <3>1. n - 1 = Cut /\ n > Cut
      BY <1>2, <1>3, <2>2
    <3>. QED
      BY <1>3, <2>2, <3>1
  <2>. QED
    BY <2>1, <2>2
<1>5. /\ v \in WriteBuf /\ v.buffer # << >> /\ WriterRun(rows, v, Cut + 1, n)
      /\ PacksSoFar(rows, wbuf) /\ ReadyFor(rows, wbuf, n) => PacksSoFar(rows, v)
  <2>1. Cut + 1 \in Nat
    BY <1>2
  <2>. QED
    BY <1>4, <2>1, DumpsRow
<1>6. Packed(rows, stdin.file) => PacksSoFar(rows, v) /\ ReadyFor(rows, v, n + 1)
  <2>1. ReadyFor(rows, v, n + 1)
    BY <1>5 DEF ReadyFor
  <2>2. n <= Len(rows)
    OBVIOUS
  <2>. QED
    BY <1>5, <2>1, <2>2 DEF WrittenBefore
<1>7. v = wbuf'
  OBVIOUS
<1>. HIDE DEF v
<1>8. n + 1 > Cut + 1
  BY <1>2, <1>4
<1>9. WriterRun(rows, v, Cut + 1, (n + 1) - 1)
  BY <1>2, <1>5
<1>. QED
  BY <1>1, <1>5, <1>6, <1>7, <1>8, <1>9 DEF WrittenBefore

\* btakeuntil dumps row n, which is before the value.
LEMMA TakeDumpWrites ==
    ASSUME IInv, NEW n \in 1..Len(rows), WrittenBefore(n), tool = "btakeuntil",
           rows[n].before, wbuf' = Dump(wbuf, n, rows[n]), UNCHANGED args
    PROVE  wbuf' \in WriteBuf /\ WrittenBefore(n + 1)'
<1>. DEFINE v == Dump(wbuf, n, rows[n])
<1>1. /\ rows' = rows /\ stdin' = stdin /\ tool' = tool /\ Cut' = Cut
  BY SameInput
<1>2. /\ n \in Nat /\ n - 1 \in Nat /\ (n + 1) - 1 = n /\ Cut \in Nat /\ n <= Cut
  BY RowLookedAt
<1>3. WriterRun(rows, wbuf, 1, n - 1)
  BY DEF WrittenBefore
<1>4. /\ v \in WriteBuf /\ v.buffer # << >> /\ WriterRun(rows, v, 1, n)
      /\ PacksSoFar(rows, wbuf) /\ ReadyFor(rows, wbuf, n) => PacksSoFar(rows, v)
  BY <1>3, DumpsRow
<1>5. Packed(rows, stdin.file) => PacksSoFar(rows, v) /\ ReadyFor(rows, v, n + 1)
  <2>1. ReadyFor(rows, v, n + 1)
    BY <1>4 DEF ReadyFor
  <2>2. n <= Len(rows)
    OBVIOUS
  <2>. QED
    BY <1>4, <2>1, <2>2 DEF WrittenBefore
<1>6. v = wbuf'
  OBVIOUS
<1>. HIDE DEF v
<1>7. n + 1 <= Cut + 1
  BY <1>2
<1>8. WriterRun(rows, v, 1, (n + 1) - 1)
  BY <1>2, <1>4
<1>. QED
  BY <1>1, <1>4, <1>5, <1>6, <1>7, <1>8 DEF WrittenBefore

\* btakeuntil copies the last chunk to its output.
LEMMA TakeChunkWrites ==
    ASSUME IInv, pc = "run", ~done_skipping, tool = "btakeuntil", ra.rb.next # Len(stdin.file),
           TakeChunk(Next1)
    PROVE  /\ wbuf' \in WriteBuf /\ wbuf'.buffer = << >>
           /\ wbuf'.file = SubSeq(stdin.file, 1, ra.rb.next)
<1>. DEFINE m == ra.rb.next
            file == stdin.file
            r == Loading(Next1)
            last == ra.last_buffer
<1>1. Typed /\ SkipInv
  BY DEF IInv
<1>2. /\ m \in Nat /\ m \in 0..Len(file) /\ (ra.has_nexted <=> m # 0)
      /\ m # 0 => last = file[m] /\ ra.last_chunk_size = Len(last)
      /\ wbuf \in WriteBuf /\ wbuf.buffer = << >> /\ wbuf.file = SubSeq(file, 1, m - 1)
      /\ stdin \in Streams
  BY <1>1, SkipFacts DEF BetweenChunks, Typed, SkipInv
<1>3. file \in Seq(Seq(Cell)) /\ Len(file) \in Nat
  BY <1>2, InputFacts
<1>4. /\ r.has_nexted = ra.has_nexted /\ r.last_buffer = last /\ r.last_chunk_size = ra.last_chunk_size
  BY <1>1, SkipLoads
<1>. HIDE DEF r
<1>5. wbuf' = IF r.has_nexted
              THEN WriteFlush([wbuf EXCEPT !.buffer = SubSeq(r.last_buffer, 1, r.last_chunk_size)])
              ELSE wbuf
  BY DEF TakeChunk, r
<1>6. CASE m = 0
  <2>1. wbuf' = wbuf
    BY <1>2, <1>4, <1>5, <1>6
  <2>2. SubSeq(file, 1, m - 1) = << >> /\ SubSeq(file, 1, m) = << >>
    BY <1>3, <1>6
  <2>. QED
    BY <1>2, <2>1, <2>2
<1>7. CASE m # 0
  <2>1. m \in 1..Len(file)
    BY <1>2, <1>7
  <2>2. last = file[m] /\ last \in Seq(Cell) /\ last # << >>
    <3>1. last = file[m]
      BY <1>2, <1>7
    <3>2. file[m] \in Seq(Cell) /\ file[m] # << >>
      BY <1>2, <2>1, InputFacts, WholeFileParts DEF Chunk, Block
    <3>. QED
      BY <3>1, <3>2
  <2>3. SubSeq(r.last_buffer, 1, r.last_chunk_size) = last
    BY <1>2, <1>4, <1>7, <2>2
  <2>. DEFINE w == [wbuf EXCEPT !.buffer = last]
  <2>4. w \in WriteBuf /\ w.buffer = last /\ w.file = SubSeq(file, 1, m - 1)
    BY <1>2, <2>2 DEF WriteBuf
  <2>5. wbuf' = WriteFlush(w)
    BY <1>2, <1>4, <1>5, <1>7, <2>3
  <2>. HIDE DEF w
  <2>6. wbuf' = [buffer |-> << >>, file |-> Append(SubSeq(file, 1, m - 1), last)]
    BY <2>2, <2>4, <2>5 DEF WriteFlush
  <2>7. Append(SubSeq(file, 1, m - 1), last) = SubSeq(file, 1, m)
    <3>. DEFINE k == m - 1
    <3>1. k \in Nat /\ 1 <= k + 1 /\ k + 1 <= Len(file) /\ k + 1 = m
      BY <1>2, <1>3, <2>1
    <3>. HIDE DEF k
    <3>2. Append(SubSeq(file, 1, k), file[k + 1]) = SubSeq(file, 1, k + 1)
      BY <1>3, <3>1, ExtendSubSeq
    <3>. QED
      BY <2>2, <3>1, <3>2 DEF k
  <2>8. SubSeq(file, 1, m) \in Seq(Seq(Cell))
    BY <1>2, <1>3
  <2>9. wbuf' = [buffer |-> << >>, file |-> SubSeq(file, 1, m)]
    BY <2>6, <2>7, Zenon
  <2>10. << >> \in Seq(Cell)
    OBVIOUS
  <2>. DEFINE f == SubSeq(file, 1, m)
  <2>. HIDE DEF f
  <2>11. wbuf' = [buffer |-> << >>, file |-> f] /\ f \in Seq(Seq(Cell))
    BY <2>8, <2>9 DEF f
  <2>12. wbuf' \in WriteBuf /\ wbuf'.buffer = << >> /\ wbuf'.file = f
    BY <2>10, <2>11 DEF WriteBuf
  <2>. QED
    BY <2>12 DEF f
<1>. QED
  BY <1>6, <1>7

-----------------------------------------------------------------------------
\* The ways through the loop of a program that skips; l is what it loaded.
LEMMA SkippingStep ==
    ASSUME IInv, pc = "run", ~done_skipping, NEW l, l = Next1,
           \/ tool = "bdropuntil" /\ (GoBackAtEnd(l) \/ FinishAtEnd(l) \/ DropSkip(l) \/ GoBack(l))
           \/ tool = "btakeuntil" /\ (GoBackAtEnd(l) \/ FinishAtEnd(l) \/ TakeChunk(l) \/ GoBack(l))
    PROVE  IInv'
<1>1. Typed /\ SkipInv /\ tool # "bsplit"
  BY DEF IInv
<1>2. CASE ra.rb.next = Len(stdin.file)
  <2>1. l.outcome = "stop"
    BY <1>1, <1>2, SkipStops
  <2>2. GoBackAtEnd(l)
    BY <2>1 DEF FinishAtEnd, DropSkip, TakeChunk, GoBack
  <2>3. WentBack(ra') /\ done_skipping' = TRUE /\ UNCHANGED <<args, wbuf, matched, splitVars, pc>>
    BY <1>1, <1>2, <2>2, GoesBackAtEnd DEF GoBackAtEnd
  <2>. QED
    BY <1>1, <2>3, BackStep
<1>3. CASE ra.rb.next # Len(stdin.file)
  <2>1. l.outcome = "row" /\ l.row = FirstRow(stdin.file[ra.rb.next + 1])
    BY <1>1, <1>3, SkipLoads
  <2>2. CASE GoBack(l)
    <3>1. WentBack(ra') /\ done_skipping' = TRUE /\ UNCHANGED <<args, wbuf, matched, splitVars, pc>>
      BY <1>1, <1>3, <2>2, GoesBack DEF GoBack
    <3>. QED
      BY <1>1, <3>1, BackStep
  <2>3. CASE tool = "bdropuntil" /\ DropSkip(l)
    <3>1. /\ ra' = GotoNextChunk(Loading(Next1)) /\ rows[l.row].before
          /\ UNCHANGED <<args, wbuf, skipVars, splitVars, pc>>
      BY <2>3 DEF DropSkip
    <3>2. /\ wbuf' \in WriteBuf /\ wbuf'.buffer = << >> /\ wbuf'.file = << >>
          /\ files' \in Seq(Seq(Seq(Cell))) /\ moved' \in Nat
      BY <1>1, <2>3, <3>1 DEF Typed, SkipInv, splitVars
    <3>3. SplitInv'
      BY <1>1, <3>1, SplitKept DEF IInv
    <3>4. wbuf'.file = IF tool = "btakeuntil" THEN SubSeq(stdin.file, 1, ra.rb.next) ELSE << >>
      BY <2>3, <3>2
    <3>. QED
      BY <1>3, <2>1, <3>1, <3>2, <3>3, <3>4, SkipStep
  <2>4. CASE tool = "btakeuntil" /\ TakeChunk(l)
    <3>1. /\ ra' = GotoNextChunk(Loading(Next1)) /\ rows[l.row].before
          /\ UNCHANGED <<args, skipVars, splitVars, pc>>
      BY <2>4 DEF TakeChunk
    <3>2. /\ wbuf' \in WriteBuf /\ wbuf'.buffer = << >>
          /\ wbuf'.file = SubSeq(stdin.file, 1, ra.rb.next)
      BY <1>3, <2>4, TakeChunkWrites
    <3>3. files' \in Seq(Seq(Seq(Cell))) /\ moved' \in Nat
      BY <1>1, <3>1 DEF Typed, splitVars
    <3>4. SplitInv'
      BY <1>1, <3>1, SplitKept DEF IInv
    <3>5. wbuf'.file = IF tool = "btakeuntil" THEN SubSeq(stdin.file, 1, ra.rb.next) ELSE << >>
      BY <2>4, <3>2
    <3>. QED
      BY <1>3, <2>1, <3>1, <3>2, <3>3, <3>4, <3>5, SkipStep
  <2>5. ~GoBackAtEnd(l) /\ ~FinishAtEnd(l)
    BY <2>1 DEF GoBackAtEnd, FinishAtEnd
  <2>. QED
    BY <2>2, <2>3, <2>4, <2>5
<1>. QED
  BY <1>2, <1>3

\* The ways through the loop of a program that reads row by row.
LEMMA ReadingStep ==
    ASSUME IInv, pc = "run", done_skipping, NEW l, l = Next1,
           \/ /\ tool = "bdropuntil"
              /\ FinishAtEnd(l) \/ DropRow(l) \/ FirstMatch(l) \/ DumpMatched(l)
           \/ tool = "btakeuntil" /\ (FinishAtEnd(l) \/ TakeRow(l) \/ FinishAtMatch(l))
    PROVE  IInv'
<1>1. PICK n \in 1..Len(rows) + 1 : Upcoming(rows, stdin.file, ra.rb, n) /\ WrittenBefore(n)
  BY DEF IInv, ReadInv
<1>2. Typed /\ FitsInv /\ Len(rows) \in Nat
  BY InputFacts DEF IInv, Typed
<1>3. CASE n = Len(rows) + 1
  <2>1. /\ l.outcome = "stop"
        /\ Loading(l) \in ReadAheadBuf /\ ~Loading(l).rb.dead
        /\ Loading(l).rb.next \in 0..Len(stdin.file) /\ Roomy(Loading(l))
    BY <1>1, <1>2, <1>3, ReadsNoMore
  <2>2. FinishAtEnd(l)
    BY <2>1 DEF DropRow, FirstMatch, DumpMatched, TakeRow, FinishAtMatch
  <2>3. /\ ra' = Loading(l) /\ wbuf' = WriteFlush(wbuf) /\ pc' = "done"
        /\ UNCHANGED <<args, skipVars, splitVars>>
    BY <2>1, <2>2 DEF FinishAtEnd, Finish, Outcome
  <2>4. /\ ra' \in ReadAheadBuf /\ ~ra'.rb.dead
        /\ ra'.rb.next \in 0..Len(stdin.file) /\ Roomy(ra')
    BY <2>1, <2>3
  <2>. QED
    BY <1>1, <1>3, <2>3, <2>4, FinishStep
<1>4. CASE n # Len(rows) + 1
  <2>1. n \in 1..Len(rows)
    BY <1>2, <1>4
  <2>2. /\ l.outcome = "row" /\ l.row = n
        /\ Loading(l) \in ReadAheadBuf /\ ~Loading(l).rb.dead
        /\ Loading(l).rb.next \in 0..Len(stdin.file) /\ Roomy(Loading(l))
    BY <1>1, <1>2, <2>1, Reads
  <2>3. /\ rows[n].before \in BOOLEAN /\ n \in Nat /\ Cut \in Nat /\ (rows[n].before <=> n <= Cut)
    BY <2>1, RowLookedAt
  <2>4. ~FinishAtEnd(l)
    BY <2>2 DEF FinishAtEnd
  <2>5. matched \in BOOLEAN /\ wbuf \in WriteBuf
    BY <1>2 DEF Typed
  <2>6. CASE tool = "bdropuntil" /\ DropRow(l)
    <3>1. /\ ra' = Loading(Next1) /\ rows[n].before /\ ~matched
          /\ UNCHANGED <<args, wbuf, matched, done_skipping, splitVars, pc>>
      BY <2>2, <2>6 DEF DropRow, skipVars
    <3>2. WrittenBefore(n + 1)'
      BY <1>1, <2>1, <2>6, <3>1, DropRowWrites
    <3>3. wbuf' \in WriteBuf /\ matched' \in BOOLEAN
      BY <2>5, <3>1
    <3>. QED
      BY <1>1, <2>1, <3>1, <3>2, <3>3, ReadStep
  <2>7. CASE tool = "bdropuntil" /\ (FirstMatch(l) \/ DumpMatched(l))
    <3>1. /\ ra' = Loading(Next1) /\ (matched \/ ~rows[n].before)
          /\ UNCHANGED <<args, done_skipping, splitVars, pc>>
          /\ wbuf' = Dump(wbuf, n, rows[n])
      BY <2>2, <2>7 DEF FirstMatch, DumpMatched, DumpLoaded
    <3>2. matched' = TRUE
      <4>1. matched' = TRUE \/ (matched /\ matched' = matched)
        BY <2>7 DEF FirstMatch, DumpMatched
      <4>. QED
        BY <2>5, <4>1
    <3>3. wbuf' \in WriteBuf /\ WrittenBefore(n + 1)'
      BY <1>1, <2>1, <2>7, <3>1, <3>2, DropDumpWrites
    <3>4. matched' \in BOOLEAN
      BY <3>2
    <3>. QED
      BY <1>1, <2>1, <3>1, <3>3, <3>4, ReadStep
  <2>8. CASE tool = "btakeuntil" /\ TakeRow(l)
    <3>1. /\ ra' = Loading(Next1) /\ rows[n].before
          /\ UNCHANGED <<args, matched, done_skipping, splitVars, pc>>
          /\ wbuf' = Dump(wbuf, n, rows[n])
      BY <2>2, <2>8 DEF TakeRow, DumpLoaded
    <3>2. wbuf' \in WriteBuf /\ WrittenBefore(n + 1)'
      BY <1>1, <2>1, <2>8, <3>1, TakeDumpWrites
    <3>3. matched' \in BOOLEAN
      BY <2>5, <3>1
    <3>. QED
      BY <1>1, <2>1, <3>1, <3>2, <3>3, ReadStep
  <2>9. CASE tool = "btakeuntil" /\ FinishAtMatch(l)
    <3>1. /\ ra' = Loading(l) /\ ~rows[n].before /\ wbuf' = WriteFlush(wbuf) /\ pc' = "done"
          /\ UNCHANGED <<args, skipVars, splitVars>>
      BY <2>2, <2>9 DEF FinishAtMatch, Finish, Outcome
    <3>2. n = Cut + 1
      <4>1. n <= Cut + 1
        BY <1>1, <2>9 DEF WrittenBefore
      <4>. QED
        BY <2>3, <3>1, <4>1
    <3>. QED
      BY <1>1, <2>2, <2>9, <3>1, <3>2, FinishStep
  <2>. QED
    BY <2>4, <2>6, <2>7, <2>8, <2>9
<1>. QED
  BY <1>3, <1>4

\* IInv is inductive.
LEMMA Steps == IInv /\ [Next]_vars => IInv'
<1>. SUFFICES ASSUME IInv, [Next]_vars PROVE IInv'
  OBVIOUS
<1>1. CASE UNCHANGED vars
  <2>1. /\ tool' = tool /\ stdin' = stdin /\ per_file' = per_file /\ ra' = ra /\ wbuf' = wbuf
        /\ matched' = matched /\ done_skipping' = done_skipping /\ files' = files
        /\ is_open' = is_open /\ moved' = moved /\ pc' = pc
    BY <1>1 DEF vars, args, skipVars, splitVars
  <2>2. rows' = rows /\ Cut' = Cut
    BY <2>1 DEF rows, Cut
  <2>3. Typed' /\ SkipInv'
    BY <2>1, <2>2 DEF IInv, Typed, SkipInv, BetweenChunks
  <2>4. ReadInv'
    BY <2>1, <2>2 DEF IInv, ReadInv, WrittenBefore
  <2>5. FitsInv' /\ SplitInv'
    BY <2>1, <2>2 DEF IInv, FitsInv, ChunkFitsBuffer, SplitInv, Splits
  <2>6. DoneInv'
    BY <2>1, <2>2 DEF IInv, DoneInv, DropsUntil, TakesUntil, StaysPacked, Holds, HoldsUpTo
  <2>. QED
    BY <2>3, <2>4, <2>5, <2>6 DEF IInv
<1>2. CASE DropUntil
  <2>1. PICK l \in {Next1} :
           \/ GoBackAtEnd(l) \/ FinishAtEnd(l)
           \/ DropSkip(l) \/ DropRow(l) \/ FirstMatch(l) \/ DumpMatched(l)
           \/ ~matched /\ GoBack(l)
    BY <1>2 DEF DropUntil
  <2>2. tool = "bdropuntil" /\ pc = "run" /\ l = Next1
    BY <1>2, <2>1 DEF DropUntil
  <2>3. CASE done_skipping
    <3>1. ~GoBackAtEnd(l) /\ ~DropSkip(l) /\ ~GoBack(l)
      BY <2>3 DEF GoBackAtEnd, DropSkip, GoBack
    <3>. QED
      BY <2>1, <2>2, <2>3, <3>1, ReadingStep
  <2>4. CASE ~done_skipping
    <3>1. ~DropRow(l) /\ ~FirstMatch(l) /\ ~matched
      BY <2>2, <2>4 DEF IInv, SkipInv, DropRow, FirstMatch
    <3>2. ~DumpMatched(l)
      BY <3>1 DEF DumpMatched
    <3>. QED
      BY <2>1, <2>2, <2>4, <3>1, <3>2, SkippingStep
  <2>. QED
    BY <2>3, <2>4
<1>3. CASE TakeUntil
  <2>1. PICK l \in {Next1} :
           \/ GoBackAtEnd(l) \/ GoBack(l) \/ FinishAtEnd(l)
           \/ TakeChunk(l) \/ TakeRow(l) \/ FinishAtMatch(l)
    BY <1>3 DEF TakeUntil
  <2>2. tool = "btakeuntil" /\ pc = "run" /\ l = Next1
    BY <1>3, <2>1 DEF TakeUntil
  <2>3. CASE done_skipping
    <3>1. ~GoBackAtEnd(l) /\ ~TakeChunk(l) /\ ~GoBack(l)
      BY <2>3 DEF GoBackAtEnd, TakeChunk, GoBack
    <3>. QED
      BY <2>1, <2>2, <2>3, <3>1, ReadingStep
  <2>4. CASE ~done_skipping
    <3>1. ~TakeRow(l) /\ ~FinishAtMatch(l)
      BY <2>4 DEF TakeRow, FinishAtMatch
    <3>. QED
      BY <2>1, <2>2, <2>4, <3>1, SkippingStep
  <2>. QED
    BY <2>3, <2>4
<1>4. CASE Split
  <2>1. PICK l \in {Next1} : MoveChunk(l) \/ CloseLast(l)
    BY <1>4 DEF Split
  <2>2. tool = "bsplit" /\ pc = "run" /\ l = Next1
    BY <1>4, <2>1 DEF Split
  <2>3. Typed /\ SkipInv /\ SplitInv /\ ~done_skipping
    BY <2>2 DEF IInv, ReadInv
  <2>4. CASE MoveChunk(Next1)
    <3>1. ra.rb.next # Len(stdin.file)
      BY <2>2, <2>3, <2>4, SkipStops DEF MoveChunk
    <3>2. /\ ra' = GotoNextChunk(Loading(Next1)) /\ UNCHANGED <<args, wbuf, skipVars, pc>>
      BY <2>4 DEF MoveChunk
    <3>3. SplitInv' /\ files' \in Seq(Seq(Seq(Cell))) /\ moved' \in Nat
      BY <2>2, <2>3, <2>4, <3>1, MovesOn
    <3>4. /\ wbuf' \in WriteBuf /\ wbuf'.buffer = << >>
          /\ wbuf'.file = IF tool = "btakeuntil" THEN SubSeq(stdin.file, 1, ra.rb.next) ELSE << >>
      BY <2>2, <2>3, <3>2 DEF Typed, SkipInv
    <3>. QED
      BY <2>2, <2>3, <3>1, <3>2, <3>3, <3>4, SkipStep
  <2>5. CASE CloseLast(Next1)
    BY <2>2, <2>5, CloseStep
  <2>. QED
    BY <2>1, <2>2, <2>4, <2>5
<1>5. CASE Terminated
  BY <1>1, <1>5 DEF Terminated
<1>. QED
  BY <1>1, <1>2, <1>3, <1>4, <1>5 DEF Next

-----------------------------------------------------------------------------
\* What the invariant says of the chunks written, and what they hold.
LEMMA WrittenFacts ==
    ASSUME IInv
    PROVE  DropsUntil /\ TakesUntil /\ StaysPacked
<1>1. /\ Typed /\ stdin \in Streams /\ wbuf \in WriteBuf /\ matched \in BOOLEAN /\ pc \in {"run", "done"}
      /\ tool \in {"bdropuntil", "btakeuntil", "bsplit"}
  BY DEF IInv, Typed
<1>2. /\ rows \in Seq(Row) /\ Len(rows) \in Nat /\ WholeFile(rows, stdin.file)
      /\ stdin.file \in Seq(Seq(Cell)) /\ Len(stdin.file) \in Nat
      /\ CutDivides /\ Cut \in 0..Len(rows) /\ Cut \in Nat
  BY <1>1, InputFacts, CutMeaning DEF CutDivides
<1>3. CASE pc = "done"
  BY <1>3 DEF IInv, DoneInv
<1>4. CASE pc = "run" /\ ~done_skipping
  <2>. DEFINE m == ra.rb.next
  <2>1. /\ m \in 0..Len(stdin.file) /\ m \in Nat
        /\ wbuf.file = IF tool = "btakeuntil" THEN SubSeq(stdin.file, 1, m - 1) ELSE << >>
        /\ tool # "bsplit" => \A c \in 1..m : rows[FirstRow(stdin.file[c])].before
    BY <1>1, <1>4, SkipFacts DEF IInv, SkipInv
  <2>2. CASE wbuf.file = << >>
    <3>1. \A lo \in Nat : FileRun(rows, wbuf.file, lo) /\ FileEnd(wbuf.file, lo) = lo - 1
      BY <2>2 DEF FileRun, FileEnd
    <3>2. HoldsUpTo(wbuf.file, Cut + 1, Len(rows)) /\ HoldsUpTo(wbuf.file, 1, Cut)
      <4>1. Cut + 1 \in Nat /\ 1 \in Nat
        BY <1>2
      <4>2. /\ FileRun(rows, wbuf.file, Cut + 1) /\ FileEnd(wbuf.file, Cut + 1) = Cut
            /\ FileRun(rows, wbuf.file, 1) /\ FileEnd(wbuf.file, 1) = 0
        BY <1>2, <3>1, <4>1
      <4>. QED
        BY <1>2, <4>2 DEF HoldsUpTo
    <3>3. Packed(rows, wbuf.file)
      BY <2>2 DEF Packed
    <3>. QED
      BY <1>4, <3>2, <3>3 DEF DropsUntil, TakesUntil, StaysPacked
  <2>3. CASE tool = "btakeuntil" /\ m # 0
    <3>. DEFINE f == SubSeq(stdin.file, 1, m - 1)
                n == FirstRow(stdin.file[m])
    <3>1. m \in 1..Len(stdin.file) /\ m \in 1..m
      BY <2>1, <2>3
    <3>2. n \in 1..Len(rows) /\ rows[n].before
      BY <1>2, <2>1, <2>3, <3>1, WholeFileParts, BlockRows DEF Chunk
    <3>3. n \in Nat /\ n <= Cut
      BY <1>2, <3>2 DEF CutDivides
    <3>4. /\ FileRun(rows, f, 1) /\ FileEnd(f, 1) = n - 1
          /\ Packed(rows, stdin.file) => Packed(rows, f)
      BY <1>2, <3>1, ChunksBefore
    <3>5. wbuf.file = f
      BY <2>1, <2>3
    <3>. HIDE DEF f, n
    <3>6. HoldsUpTo(wbuf.file, 1, Cut)
      BY <1>2, <3>3, <3>4, <3>5 DEF HoldsUpTo
    <3>. QED
      BY <1>4, <2>3, <3>4, <3>5, <3>6 DEF DropsUntil, TakesUntil, StaysPacked
  <2>4. wbuf.file = << >> \/ (tool = "btakeuntil" /\ m # 0)
    <3>1. m = 0 => SubSeq(stdin.file, 1, m - 1) = << >>
      BY <1>2
    <3>. QED
      BY <2>1, <3>1
  <2>. QED
    BY <2>2, <2>3, <2>4
<1>5. CASE pc = "run" /\ done_skipping
  <2>1. PICK n \in 1..Len(rows) + 1 : WrittenBefore(n)
    BY <1>5 DEF IInv, ReadInv
  <2>2. tool # "bsplit" /\ n \in Nat /\ n - 1 \in Nat /\ n - 1 <= Len(rows)
    BY <1>2, <1>5 DEF IInv, ReadInv
  <2>3. tool = "bdropuntil" => HoldsUpTo(wbuf.file, Cut + 1, Len(rows))
    <3>. SUFFICES ASSUME tool = "bdropuntil" PROVE HoldsUpTo(wbuf.file, Cut + 1, Len(rows))
      OBVIOUS
    <3>. DEFINE hi == IF matched THEN n - 1 ELSE Cut
    <3>1. WriterRun(rows, wbuf, Cut + 1, hi)
      BY <2>1 DEF WrittenBefore
    <3>2. hi \in Nat /\ hi <= Len(rows) /\ Cut + 1 \in Nat \ {0}
      BY <1>2, <2>2
    <3>. HIDE DEF hi
    <3>3. FileEnd(wbuf.file, Cut + 1) \in Nat /\ FileEnd(wbuf.file, Cut + 1) <= hi
      BY <1>1, <1>2, <3>1, <3>2, FlushedWasDumped
    <3>4. FileRun(rows, wbuf.file, Cut + 1)
      BY <3>1 DEF WriterRun
    <3>. QED
      BY <1>2, <3>2, <3>3, <3>4 DEF HoldsUpTo
  <2>4. tool = "btakeuntil" => HoldsUpTo(wbuf.file, 1, Cut)
    <3>. SUFFICES ASSUME tool = "btakeuntil" PROVE HoldsUpTo(wbuf.file, 1, Cut)
      OBVIOUS
    <3>1. WriterRun(rows, wbuf, 1, n - 1) /\ n <= Cut + 1
      BY <2>1 DEF WrittenBefore
    <3>2. FileEnd(wbuf.file, 1) \in Nat /\ FileEnd(wbuf.file, 1) <= n - 1
      BY <1>1, <1>2, <2>2, <3>1, FlushedWasDumped
    <3>3. FileRun(rows, wbuf.file, 1)
      BY <3>1 DEF WriterRun
    <3>. QED
      BY <1>2, <2>2, <3>1, <3>2, <3>3 DEF HoldsUpTo
  <2>5. StaysPacked
    BY <2>1 DEF WrittenBefore, PacksSoFar, StaysPacked
  <2>. QED
    BY <1>5, <2>3, <2>4, <2>5 DEF DropsUntil, TakesUntil
<1>. QED
  BY <1>1, <1>3, <1>4, <1>5

(***************************************************************************)
(* The main result: whatever the stream, the value, chunks_per_file and    *)
(* the uninitialized last_chunk_size are, IInv holds throughout.           *)
(***************************************************************************)
THEOREM Invariance == Spec => []IInv
<1>1. Init => IInv
  BY Starts
<1>2. IInv /\ [Next]_vars => IInv'
  BY Steps
<1>. QED
  BY <1>1, <1>2, PTL DEF Spec

(***************************************************************************)
(* Reading chunk by chunk never kills a tool: no assertion of load_next()  *)
(* fails, whatever swap() and going back made of the read buffer.          *)
(***************************************************************************)
THEOREM ToolsSurvive == Spec => []NeverDies
<1>1. IInv => NeverDies
  BY DEF IInv, Typed, NeverDies
<1>. QED
  BY <1>1, Invariance, PTL

(***************************************************************************)
(* Where the input is greedily packed no chunk is longer than the memory   *)
(* it is read into, although going back shrinks or grows that memory.      *)
(***************************************************************************)
THEOREM FitsWhenPacked == Spec => [](Packed(rows, stdin.file) => ChunkFitsBuffer)
<1>1. IInv => (Packed(rows, stdin.file) => ChunkFitsBuffer)
  BY DEF IInv, FitsInv
<1>. QED
  BY <1>1, Invariance, PTL

(***************************************************************************)
(* bdropuntil writes the rows that are not before the value, in order and  *)
(* nothing else on the way; it has written all of them when it exits.      *)
(***************************************************************************)
THEOREM DropsExactly == Spec => []DropsUntil
<1>1. IInv => DropsUntil
  BY WrittenFacts
<1>. QED
  BY <1>1, Invariance, PTL

(***************************************************************************)
(* btakeuntil writes the rows before the value, in order and nothing else  *)
(* on the way; it has written all of them when it exits.                   *)
(***************************************************************************)
THEOREM TakesExactly == Spec => []TakesUntil
<1>1. IInv => TakesUntil
  BY WrittenFacts
<1>. QED
  BY <1>1, Invariance, PTL

(***************************************************************************)
(* What the tools write is greedily packed if what they read is, so that   *)
(* the hypothesis of FitsWhenPacked passes on from tool to tool.           *)
(***************************************************************************)
THEOREM PackedStaysPacked == Spec => []StaysPacked
<1>1. IInv => StaysPacked
  BY WrittenFacts
<1>. QED
  BY <1>1, Invariance, PTL

(***************************************************************************)
(* The files of bsplit are a cut of its input, chunks_per_file chunks each *)
(* but the last, and hold all of it when bsplit exits.                     *)
(***************************************************************************)
THEOREM SplitsInput == Spec => []Splits
<1>1. IInv => Splits
  BY DEF IInv, SplitInv
<1>. QED
  BY <1>1, Invariance, PTL

=============================================================================
