--------------------------- MODULE BsvFilesProofs ---------------------------
(***************************************************************************)
(* IInv is an inductive invariant of BsvFiles for every buffer size, every *)
(* number of files, every table and every selection: whatever became of the*)
(* program that wrote the files, each of them has the first rows of its    *)
(* column, or whole rows of its bucket, and those that read them stop where*)
(* these end.                                                              *)
(***************************************************************************)
EXTENDS BsvFiles, BsvRowProofs

-----------------------------------------------------------------------------
\* What is gathered are numbers.
LEMMA GathersType ==
    ASSUME NEW file \in Seq(Seq(Cell)), NEW g, Gathers(file, g)
    PROVE  Len(file) \in Nat /\ \A c \in 0..Len(file) : g[c] \in Seq(Nat)
<1>1. g \in [0..Len(file) -> Seq(Nat)]
  BY Zenon DEF Gathers
<1>2. Len(file) \in Nat
  OBVIOUS
<1>. QED
  BY <1>1, <1>2, Zenon

\* The rows found in a file are gathered from its chunks.
LEMMA FileGathers ==
    ASSUME NEW file \in Seq(Seq(Cell))
    PROVE  \E g : Gathers(file, g) /\ RowsOfFile(file) = g[Len(file)] /\ RowsOfFile(file) \in Seq(Nat)
<1>. DEFINE w == [buffer |-> << >>, file |-> file]
<1>1. w \in WriteBuf /\ w.file = file /\ w.buffer = << >>
  BY DEF WriteBuf
<1>2. PICK g : Gathers(w.file, g) /\ RowsOut(w) = g[Len(w.file)] \o RowsOf(w.buffer)
  BY <1>1, GathersRows
<1>3. g[Len(file)] \in Seq(Nat)
  <2>1. Gathers(file, g)
    BY <1>1, <1>2, Zenon
  <2>2. Len(file) \in Nat /\ \A c \in 0..Len(file) : g[c] \in Seq(Nat)
    BY <2>1, GathersType
  <2>3. Len(file) \in 0..Len(file)
    BY <2>2
  <2>. QED
    BY <2>2, <2>3, Zenon
<1>4. RowsOfFile(file) = g[Len(file)] \o << >>
  BY <1>1, <1>2, NoRows DEF RowsOfFile
<1>. QED
  BY <1>1, <1>2, <1>3, <1>4

\* A file that holds rows lo to hi has these rows.
LEMMA FileRowsFound ==
    ASSUME NEW table, NEW file, NEW lo \in Nat \ {0}, NEW hi \in 0..Len(table),
           HoldsRows(table, file, lo, hi)
    PROVE  RowsOfFile(file) = Numbers(lo, hi) /\ lo <= hi + 1 /\ Len(RowsOfFile(file)) = hi + 1 - lo
<1>1. table \in Seq(Row) /\ file \in Seq(Seq(Cell)) /\ Len(table) \in Nat /\ Len(file) \in Nat
  BY DEF HoldsRows
<1>2. PICK g : Gathers(file, g) /\ RowsOfFile(file) = g[Len(file)]
  BY <1>1, FileGathers
<1>. DEFINE last(c) == IF c = 0 THEN lo - 1 ELSE LastRow(file[c])
            P == {c \in 0..Len(file) : last(c) \in Int /\ lo <= last(c) + 1 /\ g[c] = Numbers(lo, last(c))}
<1>3. ASSUME NEW c \in 1..Len(file)
      PROVE  /\ file[c] \in Seq(Cell) /\ Block(table, file[c])
             /\ FirstRow(file[c]) \in Nat /\ LastRow(file[c]) \in Nat
             /\ FirstRow(file[c]) <= LastRow(file[c])
             /\ FirstRow(file[c]) = last(c - 1) + 1
  <2>1. file[c] \in Seq(Cell) /\ Chunk(table, file[c])
    BY FileParts
  <2>2. FirstRow(file[c]) \in Nat /\ LastRow(file[c]) \in Nat /\ FirstRow(file[c]) <= LastRow(file[c])
    BY ChunkRows
  <2>3. CASE c = 1
    <3>1. file # << >>
      BY <1>1, <2>3
    <3>2. FirstRow(file[1]) = lo
      BY <3>1, FileParts
    <3>. QED
      BY <2>1, <2>2, <2>3, <3>2 DEF Chunk
  <2>4. CASE c # 1
    <3>1. c - 1 \in 1..Len(file) /\ c - 1 # Len(file) /\ (c - 1) + 1 = c /\ c - 1 # 0
      BY <1>1, <2>4
    <3>2. FirstRow(file[(c - 1) + 1]) = LastRow(file[c - 1]) + 1
      BY <3>1, FileParts
    <3>. QED
      BY <2>1, <2>2, <3>1, <3>2 DEF Chunk
  <2>. QED
    BY <2>3, <2>4
<1>4. 0 \in P
  <2>1. lo + 1 - 1 - lo = 0 /\ lo - 1 + 1 - lo = 0 /\ lo - 1 \in Int /\ lo <= (lo - 1) + 1
    OBVIOUS
  <2>2. Numbers(lo, lo - 1) = << >>
    BY <2>1 DEF Numbers
  <2>3. g[0] = << >> /\ 0 \in 0..Len(file)
    BY <1>1, <1>2 DEF Gathers
  <2>. QED
    BY <2>1, <2>2, <2>3
<1>5. ASSUME NEW c \in 1..Len(file), c - 1 \in P PROVE c \in P
  <2>. DEFINE b == last(c - 1)
              d == LastRow(file[c])
  <2>1. b \in Int /\ lo <= b + 1 /\ g[c - 1] = Numbers(lo, b)
    BY <1>5
  <2>2. d \in Nat /\ b + 1 <= d /\ FirstRow(file[c]) = b + 1 /\ last(c) = d
    BY <1>3
  <2>. HIDE DEF b, d, last
  <2>3. g[c] = g[c - 1] \o RowsOf(file[c])
    BY <1>2 DEF Gathers
  <2>4. RowsOf(file[c]) = Numbers(b + 1, d)
    <3>1. RowsOf(file[c]) = Numbers(FirstRow(file[c]), LastRow(file[c]))
      BY <1>1, <1>3, BlockRowsFound
    <3>. QED
      BY <2>2, <3>1, Zenon DEF d
  <2>5. Numbers(lo, b) \o Numbers(b + 1, d) = Numbers(lo, d)
    <3>1. lo \in Nat /\ b \in Int /\ d \in Int /\ lo <= b + 1 /\ b <= d
      BY <2>1, <2>2
    <3>. QED
      BY <3>1, NumbersJoin
  <2>6. c \in 0..Len(file) /\ lo <= d + 1 /\ d \in Int
    BY <1>1, <2>1, <2>2
  <2>7. g[c] = Numbers(lo, d)
    BY <2>1, <2>3, <2>4, <2>5, Zenon
  <2>8. last(c) \in Int /\ lo <= last(c) + 1 /\ g[c] = Numbers(lo, last(c))
    BY <2>2, <2>6, <2>7, Zenon
  <2>. QED
    BY <2>6, <2>8, Zenon
<1>. HIDE DEF P
<1>6. \A c \in 0..Len(file) : c \in P
  BY <1>1, <1>4, <1>5, UpFromZero
<1>7. last(Len(file)) \in Int /\ lo <= last(Len(file)) + 1 /\ g[Len(file)] = Numbers(lo, last(Len(file)))
  BY <1>1, <1>6 DEF P
<1>8. last(Len(file)) = hi
  <2>1. CASE file = << >>
    BY <2>1, FileParts
  <2>2. CASE file # << >>
    BY <1>1, <2>2, FileParts
  <2>. QED
    BY <2>1, <2>2
<1>. HIDE DEF last
<1>9. Len(Numbers(lo, hi)) = hi + 1 - lo
  BY <1>7, <1>8, <1>1, NumbersJoin
<1>. QED
  BY <1>2, <1>7, <1>8, <1>9

\* A sequence starts with another one.
Starts(s, t) == Len(s) <= Len(t) /\ \A k \in 1..Len(s) : t[k] = s[k]

\* The chunks that a file starts with have the rows it starts with, and those
\* in its chunks were dumped before those in the buffer.
LEMMA FileStarts ==
    ASSUME NEW file \in Seq(Seq(Cell)), NEW n \in 0..Len(file)
    PROVE  LET front == SubSeq(file, 1, n)
           IN  /\ front \in Seq(Seq(Cell)) /\ Len(front) = n /\ \A c \in 1..n : front[c] = file[c]
               /\ RowsOfFile(front) \in Seq(Nat) /\ RowsOfFile(file) \in Seq(Nat)
               /\ Starts(RowsOfFile(front), RowsOfFile(file))
<1>. DEFINE front == SubSeq(file, 1, n)
<1>1. front \in Seq(Seq(Cell)) /\ Len(front) = n /\ \A c \in 1..n : front[c] = file[c]
  OBVIOUS
<1>. HIDE DEF front
<1>2. PICK g : Gathers(file, g) /\ RowsOfFile(file) = g[Len(file)] /\ RowsOfFile(file) \in Seq(Nat)
  BY FileGathers
<1>3. PICK h : Gathers(front, h) /\ RowsOfFile(front) = h[Len(front)] /\ RowsOfFile(front) \in Seq(Nat)
  BY <1>1, FileGathers
<1>4. h[n] = g[n]
  <2>1. n \in Nat /\ n <= Len(front) /\ n <= Len(file)
    BY <1>1
  <2>2. front \in Seq(Seq(Cell)) /\ \A c \in 1..n : front[c] = file[c]
    BY <1>1
  <2>3. Gathers(front, h) /\ Gathers(file, g)
    BY <1>2, <1>3
  <2>. QED
    BY <2>1, <2>2, <2>3, GathersSame
<1>. DEFINE m == Len(file) - n
            P == {k \in 0..m : Starts(g[n], g[n + k])}
<1>5. m \in Nat /\ Len(file) \in Nat /\ \A c \in 0..Len(file) : g[c] \in Seq(Nat)
  <2>1. Len(file) \in Nat /\ \A c \in 0..Len(file) : g[c] \in Seq(Nat)
    BY <1>2, GathersType
  <2>. QED
    BY <2>1
<1>6. 0 \in P
  BY <1>5 DEF Starts
<1>7. ASSUME NEW k \in 1..m, k - 1 \in P PROVE k \in P
  <2>1. n + k \in 1..Len(file) /\ n + (k - 1) \in 0..Len(file) /\ n \in 0..Len(file) /\ k \in 0..m
        /\ (n + k) - 1 = n + (k - 1)
    BY <1>5
  <2>2. g[n + k] = g[(n + k) - 1] \o RowsOf(file[n + k])
    BY <1>2, <2>1, Zenon DEF Gathers
  <2>. DEFINE s == g[n]
              t == g[n + (k - 1)]
              u == RowsOf(file[n + k])
  <2>3. s \in Seq(Nat) /\ t \in Seq(Nat)
    BY <1>5, <2>1, Zenon
  <2>4. u \in Seq(Nat)
    BY <2>1, RowsOfType
  <2>5. Starts(s, t) /\ g[n + k] = t \o u
    BY <1>7, <2>1, <2>2
  <2>. HIDE DEF s, t, u
  <2>6. Starts(s, t \o u)
    BY <2>3, <2>4, <2>5, SMTT(30) DEF Starts
  <2>. QED
    BY <2>1, <2>5, <2>6 DEF s
<1>. HIDE DEF P
<1>8. \A k \in 0..m : k \in P
  <2>. HIDE DEF m
  <2>. QED
    BY <1>5, <1>6, <1>7, UpFromZero
<1>9. Starts(g[n], g[Len(file)])
  <2>1. m \in 0..m /\ n + m = Len(file)
    BY <1>5
  <2>. QED
    BY <1>8, <2>1 DEF P
<1>. QED
  BY <1>1, <1>2, <1>3, <1>4, <1>9 DEF front

\* What is in the chunks was dumped before what is in the buffer.
LEMMA BufferLast ==
    ASSUME NEW w \in WriteBuf
    PROVE  /\ w.file \in Seq(Seq(Cell)) /\ RowsOfFile(w.file) \in Seq(Nat) /\ RowsOut(w) \in Seq(Nat)
           /\ Starts(RowsOfFile(w.file), RowsOut(w))
           /\ w.buffer = << >> => RowsOut(w) = RowsOfFile(w.file)
<1>1. w.file \in Seq(Seq(Cell)) /\ w.buffer \in Seq(Cell)
  BY DEF WriteBuf
<1>2. PICK g : Gathers(w.file, g) /\ RowsOut(w) = g[Len(w.file)] \o RowsOf(w.buffer)
  BY GathersRows
<1>3. PICK h : Gathers(w.file, h) /\ RowsOfFile(w.file) = h[Len(w.file)] /\ RowsOfFile(w.file) \in Seq(Nat)
  BY <1>1, FileGathers
<1>4. g[Len(w.file)] = h[Len(w.file)]
  <2>1. Len(w.file) \in Nat /\ Len(w.file) <= Len(w.file)
    BY <1>1
  <2>. QED
    BY <1>1, <1>2, <1>3, <2>1, GathersSame
<1>5. RowsOf(w.buffer) \in Seq(Nat)
  BY <1>1, RowsOfType
<1>. DEFINE s == RowsOfFile(w.file)
            u == RowsOf(w.buffer)
<1>6. RowsOut(w) = s \o u /\ s \in Seq(Nat) /\ u \in Seq(Nat)
  BY <1>2, <1>3, <1>4, <1>5
<1>7. w.buffer = << >> => u = << >>
  BY NoRows
<1>. HIDE DEF s, u
<1>8. s \o u \in Seq(Nat) /\ Starts(s, s \o u) /\ (u = << >> => s \o u = s)
  BY <1>6 DEF Starts
<1>. QED
  BY <1>1, <1>6, <1>7, <1>8 DEF s

-----------------------------------------------------------------------------
Unzipping == Given(program, rows) /\ program.name = "bunzip"

\* What bunzip is given.
LEMMA UnzipGiven ==
    ASSUME Unzipping
    PROVE  /\ program.files \in Nat \ {0} /\ rows \in Seq(Seq(Nat)) /\ Len(rows) \in Nat
           /\ program.then \in {"zip", "cat"}
           /\ Selected \in Seq(Files) /\ Selected # << >> /\ Len(Selected) \in Nat \ {0}
           /\ program.then = "cat" => program.head \in Nat
           /\ Len(program.ends) = 1 /\ program.ends[1] = Len(rows)
<1>1. /\ program.files \in Nat \ {0} /\ rows \in Seq(Seq(Nat))
      /\ program.then \in {"zip", "cat"}
      /\ Selected \in Seq(Files) /\ Selected # << >>
      /\ program.then = "cat" => program.head \in Nat
      /\ Len(program.ends) = 1 /\ program.ends[Len(program.ends)] = Len(rows)
  BY Zenon DEF Unzipping, Given, Selected, Files
<1>2. Len(rows) \in Nat /\ Len(Selected) \in Nat \ {0}
  BY <1>1
<1>. QED
  BY <1>1, <1>2, Zenon

\* The table of a column has as many rows as the table, and they fit a buffer.
LEMMA ColumnTableType ==
    ASSUME Unzipping, NEW f \in Files
    PROVE  /\ ColumnTable(f) \in Seq(Row) /\ Len(ColumnTable(f)) = Len(rows)
           /\ \A i \in 1..Len(rows) : /\ ColumnTable(f)[i] = ColumnRow(i, f)
                                      /\ RowSize(ColumnTable(f)[i]) <= BUFFER_SIZE
<1>1. ASSUME NEW i \in 1..Len(rows) PROVE Fits(ColumnRow(i, f))
  <2>1. /\ Fits(OneColumn(0))
        /\ \A g \in 1..Len(rows[i]) : Fits(OneColumn(rows[i][g]))
    BY Zenon DEF Unzipping, Given
  <2>2. CASE f <= Len(rows[i])
    <3>1. f \in 1..Len(rows[i])
      <4>1. f \in Nat /\ f >= 1
        BY UnzipGiven DEF Files
      <4>2. rows[i] \in Seq(Nat)
        BY UnzipGiven
      <4>. QED
        BY <2>2, <4>1, <4>2
    <3>2. ColumnRow(i, f) = OneColumn(rows[i][f])
      BY <2>2 DEF ColumnRow
    <3>. QED
      BY <2>1, <3>1, <3>2, Zenon
  <2>3. CASE ~(f <= Len(rows[i]))
    BY <2>1, <2>3 DEF ColumnRow
  <2>. QED
    BY <2>2, <2>3
<1>2. Len(rows) \in Nat
  BY UnzipGiven
<1>3. \A i \in 1..Len(rows) : ColumnRow(i, f) \in Row /\ RowSize(ColumnRow(i, f)) <= BUFFER_SIZE
  BY <1>1 DEF Fits
<1>. QED
  BY <1>2, <1>3 DEF ColumnTable

\* The chunks that a writer wrote hold the first of the rows it dumped.
LEMMA ChunksHold ==
    ASSUME NEW table \in Seq(Row), NEW w \in WriteBuf, NEW n \in Nat, n <= Len(table),
           WriterRun(table, w, 1, n)
    PROVE  /\ FileEnd(w.file, 1) \in 0..n
           /\ HoldsRows(table, w.file, 1, FileEnd(w.file, 1))
           /\ w.buffer = << >> => FileEnd(w.file, 1) = n
<1>1. FileEnd(w.file, 1) \in Nat /\ FileEnd(w.file, 1) <= n
  BY FlushedWasDumped
<1>2. w.file \in Seq(Seq(Cell)) /\ FileRun(table, w.file, 1) /\ (w.buffer = << >> => FileEnd(w.file, 1) = n)
  BY DEF WriteBuf, WriterRun
<1>. QED
  BY <1>1, <1>2 DEF HoldsRows

\* Row 1 comes first.
LEMMA FirstUpcoming ==
    ASSUME NEW table, NEW file, NEW hi \in 0..Len(table), HoldsRows(table, file, 1, hi)
    PROVE  /\ RbufInit \in ReadBuf /\ ~RbufInit.dead /\ RbufInit.next = 0 /\ 0 \in 0..Len(file)
           /\ UpcomingTo(table, file, RbufInit, hi, 1)
<1>1. /\ RbufInit \in ReadBuf /\ ~RbufInit.dead /\ RbufInit.next = 0
      /\ RbufInit.offset = RbufInit.chunk_size
  BY FormatAssumption DEF RbufInit, ReadBuf
<1>2. file \in Seq(Seq(Cell)) /\ Len(file) \in Nat /\ table \in Seq(Row)
  BY DEF HoldsRows
<1>3. CASE file = << >>
  <2>1. hi = 0 /\ Len(file) = 0
    BY <1>3, FileParts
  <2>. QED
    BY <1>1, <2>1 DEF UpcomingTo
<1>4. CASE file # << >>
  <2>1. FirstRow(file[1]) = 1 /\ Len(file) # 0
    BY <1>2, <1>4, FileParts
  <2>. QED
    BY <1>1, <1>2, <2>1 DEF UpcomingTo
<1>. QED
  BY <1>3, <1>4

-----------------------------------------------------------------------------
Partitioning == Given(program, rows) /\ program.name = "bpartition"

\* What bpartition is given.
LEMMA PartitionGiven ==
    ASSUME Partitioning
    PROVE  /\ program.files \in Nat \ {0} /\ rows \in Seq(Row) /\ Len(rows) \in Nat
           /\ Len(program.ends) \in Nat \ {0} /\ program.ends[Len(program.ends)] = Len(rows)
           /\ \A r \in 1..Len(program.ends) : program.ends[r] \in 0..Len(rows)
           /\ \A a, b \in 1..Len(program.ends) : a <= b => program.ends[a] <= program.ends[b]
           /\ \A i \in 1..Len(rows) : /\ RowSize(rows[i]) <= BUFFER_SIZE
                                      /\ rows[i].hash \in Nat /\ BucketOf(i) \in Files
<1>. DEFINE ends == program.ends
<1>1. /\ program.files \in Nat \ {0} /\ rows \in Seq(Row)
      /\ ends \in Seq(Nat) /\ ends # << >> /\ ends[Len(ends)] = Len(rows)
      /\ \A a, b \in 1..Len(ends) : a <= b => ends[a] <= ends[b]
      /\ \A i \in 1..Len(rows) : Fits(rows[i]) /\ rows[i].hash \in Nat
  BY Zenon DEF Partitioning, Given
<1>. HIDE DEF ends
<1>2. Len(rows) \in Nat /\ Len(ends) \in Nat \ {0} /\ \A r \in 1..Len(ends) : ends[r] \in Nat
  BY <1>1
<1>3. ASSUME NEW r \in 1..Len(ends) PROVE ends[r] \in 0..Len(rows)
  <2>1. Len(ends) \in 1..Len(ends) /\ r <= Len(ends)
    BY <1>2
  <2>2. ends[r] <= ends[Len(ends)]
    BY <1>1, <2>1
  <2>. QED
    BY <1>1, <1>2, <2>2
<1>4. ASSUME NEW i \in 1..Len(rows)
      PROVE  RowSize(rows[i]) <= BUFFER_SIZE /\ rows[i].hash \in Nat /\ BucketOf(i) \in Files
  <2>1. RowSize(rows[i]) <= BUFFER_SIZE /\ rows[i].hash \in Nat
    BY <1>1, Zenon DEF Fits
  <2>2. rows[i].hash % program.files \in 0..program.files - 1
    BY <1>1, <2>1, SMTT(30)
  <2>. QED
    BY <1>1, <2>1, <2>2 DEF BucketOf, Files
<1>. QED
  BY <1>1, <1>2, <1>3, <1>4, Zenon DEF ends

\* A file that was not written to.
LEMMA NothingWritten ==
    ASSUME NEW table \in Seq(Row)
    PROVE  /\ WbufInit \in WriteBuf /\ WbufInit.buffer = << >> /\ WbufInit.file = << >>
           /\ FileEnd(WbufInit.file, 1) = 0 /\ 0 \in 0..Len(table)
           /\ HoldsRows(table, WbufInit.file, 1, 0)
           /\ WriterRun(table, WbufInit, 1, 0)
<1>1. WbufInit \in WriteBuf /\ WbufInit.buffer = << >> /\ WbufInit.file = << >>
  BY DEF WbufInit, WriteBuf
<1>2. FileEnd(<< >>, 1) = 0 /\ FileRun(table, << >>, 1) /\ << >> \in Seq(Seq(Cell))
  BY DEF FileEnd, FileRun
<1>. QED
  BY <1>1, <1>2 DEF HoldsRows, WriterRun

\* The invariant holds at the start.
LEMMA InitIInv == Init => IInv
<1>. SUFFICES ASSUME Init PROVE IInv
  OBVIOUS
<1>1. Given(program, rows)
  BY FilesAssumption, Zenon DEF Init
<1>2. /\ run = 1 /\ at = 1 /\ j = 1 /\ exists = {} /\ whole = {} /\ out = << >> /\ pc = "open"
      /\ wbufs = [f \in Files |-> WbufInit] /\ torn = [f \in Files |-> << >>]
      /\ rbufs = [f \in Files |-> RbufInit]
  BY Zenon DEF Init, Files
<1>3. program.files \in Nat \ {0} /\ Len(program.ends) \in Nat \ {0} /\ program.ends[1] \in Nat
      /\ program.name \in {"bunzip", "bpartition"}
  BY <1>1 DEF Given
<1>4. /\ WbufInit \in WriteBuf /\ RbufInit \in ReadBuf
      /\ WbufInit.buffer = << >> /\ WbufInit.file = << >>
  BY FormatAssumption DEF WbufInit, WriteBuf, RbufInit, ReadBuf
<1>5. TypeOK
  <2>1. run \in 1..Len(program.ends) /\ at \in Nat \ {0} /\ j \in Nat \ {0}
    BY <1>2, <1>3
  <2>2. wbufs \in [Files -> WriteBuf] /\ rbufs \in [Files -> ReadBuf] /\ torn \in [Files -> Seq(Nat)]
    BY <1>2, <1>4
  <2>3. \A f \in Files : torn[f] = << >>
    BY <1>2
  <2>. QED
    BY <1>1, <1>2, <2>1, <2>2, <2>3, Zenon DEF TypeOK
<1>6. ASSUME program.name = "bunzip" PROVE UnzipInv /\ ZipInv /\ CatInv
  <2>. USE DEF Unzipping
  <2>1. Len(rows) \in Nat
    BY <1>1, <1>6, UnzipGiven
  <2>2. ASSUME NEW f \in Files
        PROVE  /\ wbufs[f].buffer = << >> /\ RowCount(f) \in 0..Len(rows)
               /\ HoldsRows(ColumnTable(f), wbufs[f].file, 1, RowCount(f))
    <3>1. wbufs[f] = WbufInit
      BY <1>2
    <3>2. ColumnTable(f) \in Seq(Row) /\ Len(ColumnTable(f)) = Len(rows)
      BY <1>1, <1>6, ColumnTableType
    <3>. QED
      BY <3>1, <3>2, NothingWritten DEF RowCount
  <2>3. \A f \in Files : torn[f] = << >> /\ rbufs[f] = RbufInit
    BY <1>2
  <2>4. UnzipInv
    <3>1. pc # "rows" /\ pc \in {"open", "rows", "done", "died", program.then}
      BY <1>2
    <3>2. \A f \in Files : RowCount(f) = 0
      <4>1. \A f \in Files : wbufs[f] = WbufInit
        BY <1>2
      <4>. QED
        BY <1>4, <4>1 DEF RowCount, FileEnd
    <3>. QED
      BY <1>2, <2>2, <2>3, <3>1, <3>2, Zenon DEF UnzipInv, WrittenInv
  <2>5. ZipInv
    BY <1>2 DEF ZipInv, ZipsWholeRows, ZipInvertsUnzip
  <2>6. CatInv
    BY <1>2 DEF CatInv, CatsHeads
  <2>. QED
    BY <2>4, <2>5, <2>6
<1>7. ASSUME program.name = "bpartition" PROVE PartitionInv
  <2>. USE DEF Partitioning
  <2>1. Before = 0 /\ End \in Nat
    BY <1>2, <1>3 DEF Before, End
  <2>2. ASSUME NEW f \in Files
        PROVE  InOrder(wbufs[f], f, at - 1) /\ wbufs[f].buffer = << >>
    <3>1. wbufs[f] = WbufInit
      BY <1>2
    <3>2. WholeOutput(rows, WbufInit) /\ RowsOut(WbufInit) = << >>
      BY NothingOut
    <3>. QED
      BY <3>1, <3>2, <1>4 DEF InOrder
  <2>3. KeptInv
    BY <1>2, <2>2 DEF KeptInv
  <2>4. at \in Before + 1..End + 1 /\ j \in Files /\ at = Before + 1
    BY <1>2, <1>3, <2>1 DEF Files
  <2>5. \A f \in Files : torn[f] = << >>
    BY <1>2
  <2>6. ListedInv
    BY <1>2 DEF ListedInv
  <2>. QED
    BY <1>2, <2>2, <2>3, <2>4, <2>5, <2>6, Zenon DEF PartitionInv
<1>. QED
  BY <1>5, <1>6, <1>7 DEF IInv

-----------------------------------------------------------------------------
\* The parts of the invariant for bunzip.
LEMMA UnzipParts ==
    ASSUME IInv, program.name = "bunzip"
    PROVE  /\ Unzipping /\ TypeOK /\ UnzipInv /\ ZipInv /\ CatInv
           /\ run = 1 /\ End = Len(rows)
<1>1. Unzipping /\ TypeOK /\ UnzipInv /\ ZipInv /\ CatInv
  BY DEF IInv, TypeOK, Unzipping
<1>2. run \in 1..1
  BY <1>1, UnzipGiven DEF TypeOK
<1>3. run = 1
  BY <1>2
<1>. QED
  BY <1>1, <1>3, UnzipGiven DEF End

\* When bunzip has ended, whatever it wrote, nothing was read of its files.
LEMMA UnzipEnds ==
    ASSUME IInv, program.name = "bunzip", pc = "rows",
           UNCHANGED <<input, exists, rbufs, out>>, EndRun,
           wbufs' \in [Files -> WriteBuf], torn' \in [Files -> Seq(Nat)], whole' \subseteq 1..run,
           \A f \in Files : torn'[f] # << >> =>
               torn'[f][1] \in 0..Len(wbufs'[f].file) /\ torn'[f][2] \in 1..run,
           \A f \in Files :
               /\ wbufs'[f].buffer = << >>
               /\ FileEnd(wbufs'[f].file, 1) \in 0..Len(rows)
               /\ HoldsRows(ColumnTable(f), wbufs'[f].file, 1, FileEnd(wbufs'[f].file, 1)),
           whole' # {} => \A f \in Files :
               torn'[f] = << >> /\ FileEnd(wbufs'[f].file, 1) = Len(rows)
    PROVE  IInv'
<1>1. Unzipping /\ TypeOK /\ UnzipInv /\ run = 1
  BY UnzipParts
<1>2. /\ program' = program /\ rows' = rows /\ exists' = exists /\ rbufs' = rbufs /\ out' = out
      /\ at' = 1 /\ j' = 1 /\ run' = run /\ pc' = program.then
  BY DEF EndRun, input
<1>3. /\ program.then \in {"zip", "cat"} /\ Selected \in Seq(Files) /\ Len(Selected) \in Nat \ {0}
      /\ Len(rows) \in Nat /\ program.files \in Nat \ {0}
  BY <1>1, UnzipGiven
<1>4. Files' = Files /\ Selected' = Selected /\ Unzipping'
  BY <1>1, <1>2 DEF Files, Selected, Unzipping
<1>5. out = << >> /\ (\A f \in Files : rbufs[f] = RbufInit) /\ rows # << >>
  BY <1>1 DEF UnzipInv
<1>6. \A f \in Files : (RowCount(f))' = FileEnd(wbufs'[f].file, 1) /\ (ColumnTable(f))' = ColumnTable(f)
  BY <1>2 DEF RowCount, ColumnTable, ColumnRow
<1>7. TypeOK'
  BY <1>1, <1>2, <1>4 DEF TypeOK
<1>8. UnzipInv'
  <2>1. \A f \in Files : /\ wbufs'[f].buffer = << >>
                         /\ (RowCount(f))' \in 0..Len(rows)
                         /\ HoldsRows((ColumnTable(f))', wbufs'[f].file, 1, (RowCount(f))')
    BY <1>6
  <2>2. pc' # "rows" /\ pc' # "open" /\ pc' # "done" /\ pc' # "died"
    BY <1>2, <1>3
  <2>3. whole' # {} => \A f \in Files : torn'[f] = << >> /\ (RowCount(f))' = Len(rows)
    BY <1>6
  <2>. QED
    BY <1>2, <1>4, <1>5, <2>1, <2>2, <2>3, Zenon DEF UnzipInv, WrittenInv
<1>9. ASSUME NEW f \in Files PROVE (ReadUpTo(rbufs[f], f, 0))'
  <2>1. /\ (RowCount(f))' \in 0..Len(rows)'
        /\ HoldsRows((ColumnTable(f))', wbufs'[f].file, 1, (RowCount(f))')
        /\ rbufs'[f] = RbufInit
    BY <1>2, <1>5, <1>6
  <2>2. Unzipping' /\ TypeOK' /\ f \in Files'
    BY <1>4, <1>7
  <2>3. /\ Len((ColumnTable(f))') = Len(rows') /\ Len(rows') \in Nat
    BY <1>1, <1>2, <1>3, <1>6, ColumnTableType
  <2>4. /\ ~RbufInit.dead /\ RbufInit.next = 0 /\ 0 \in 0..Len(wbufs'[f].file)
        /\ UpcomingTo((ColumnTable(f))', wbufs'[f].file, RbufInit, (RowCount(f))', 0 + 1)
    BY <2>1, <2>3, FirstUpcoming
  <2>5. 0 \in 0..(RowCount(f))'
    BY <2>1, <2>3
  <2>. QED
    BY <2>1, <2>4, <2>5 DEF ReadUpTo
<1>10. ZipInv'
  <2>1. \A f \in ToSet(Selected) : f \in Files
    BY <1>3 DEF ToSet
  <2>2. program.then = "zip" => pc' # "done" /\ pc' # "died"
    BY <1>2
  <2>3. out' = << >> /\ Len(out') = 0 /\ out' \in Seq(Seq(Nat))
    BY <1>2, <1>5
  <2>4. program.then = "zip" => ZipsWholeRows' /\ ZipInvertsUnzip'
    BY <2>2, <2>3, <1>2 DEF ZipsWholeRows, ZipInvertsUnzip
  <2>. QED
    BY <1>2, <1>4, <1>9, <2>1, <2>3, <2>4 DEF ZipInv
<1>11. CatInv'
  <2>. SUFFICES ASSUME program.then = "cat" PROVE CatInv'
    BY <1>2 DEF CatInv
  <2>1. (Text(0))' = << >>
    BY DEF Text, FlattenSeq
  <2>2. out' = << >> /\ [i \in 1..0 |-> <<1, i>>] = << >> /\ << >> \o << >> = << >>
    BY <1>2, <1>5
  <2>3. CatsHeads'
    <3>1. pc' = "cat"
      BY <1>2
    <3>2. IsPrefix(out', (Text(Len(Selected)))')
      <4>. QED
        BY <2>2 DEF IsPrefix
    <3>. QED
      BY <3>1, <3>2, <1>2 DEF CatsHeads
  <2>4. /\ 1 - 1 = 0 /\ 1 <= Len(Selected) + 1 /\ 1 <= Len(Selected) /\ ~(1 > Len(Selected))
        /\ 1..0 = {} /\ Selected[1] \in Files
    BY <1>3
  <2>5. 0 <= (Printed(1))'
    <3>1. program.head \in Nat
      BY <1>1, UnzipGiven
    <3>2. (RowsIn(Selected[1]))' \in Nat
      <4>1. wbufs'[Selected[1]] \in WriteBuf
        BY <2>4
      <4>2. wbufs'[Selected[1]].file \in Seq(Seq(Cell))
        BY <4>1, BufferLast
      <4>3. RowsOfFile(wbufs'[Selected[1]].file) \in Seq(Nat)
        BY <4>2, FileGathers
      <4>. QED
        BY <4>3, <1>4 DEF RowsIn
    <3>. QED
      BY <1>2, <1>4, <3>1, <3>2 DEF Printed
  <2>6. (ReadUpTo(rbufs[Selected[1]], Selected[1], 0))'
    BY <2>4, <1>4, <1>9
  <2>7. \A f \in Files : rbufs'[f] = RbufInit
    BY <1>2, <1>5
  <2>8. out' = (Text(0))' \o [i \in 1..0 |-> <<1, i>>]
    BY <2>1, <2>2
  <2>. QED
    BY <1>2, <1>4, <2>3, <2>4, <2>5, <2>6, <2>7, <2>8 DEF CatInv
<1>. QED
  BY <1>2, <1>7, <1>8, <1>10, <1>11, <1>1 DEF IInv, Unzipping

-----------------------------------------------------------------------------
\* While bunzip runs.
LEMMA UnzipRunning ==
    ASSUME IInv, program.name = "bunzip", pc = "rows"
    PROVE  /\ at \in 1..Len(rows) + 1 /\ j \in Files /\ Len(rows) \in Nat /\ rows # << >>
           /\ out = << >> /\ whole = {}
           /\ \A f \in Files :
                /\ torn[f] = << >> /\ rbufs[f] = RbufInit
                /\ wbufs[f] \in WriteBuf /\ Dumped(f) \in 0..Len(rows)
                /\ WriterRun(ColumnTable(f), wbufs[f], 1, Dumped(f))
                /\ at > End /\ f < j => wbufs[f].buffer = << >>
                /\ FileEnd(wbufs[f].file, 1) \in 0..Len(rows)
                /\ HoldsRows(ColumnTable(f), wbufs[f].file, 1, FileEnd(wbufs[f].file, 1))
                /\ wbufs[f].buffer = << >> => FileEnd(wbufs[f].file, 1) = Dumped(f)
<1>1. Unzipping /\ TypeOK /\ UnzipInv /\ End = Len(rows)
  BY UnzipParts
<1>2. program.files \in Nat \ {0} /\ Len(rows) \in Nat
  BY <1>1, UnzipGiven
<1>3. /\ at \in Nat \ {0} /\ j \in Nat \ {0} /\ \A f \in Files : wbufs[f] \in WriteBuf
  BY <1>1 DEF TypeOK
<1>4. /\ at <= End + 1 /\ j <= program.files /\ out = << >> /\ whole = {} /\ rows # << >>
      /\ \A f \in Files : /\ torn[f] = << >> /\ rbufs[f] = RbufInit
                          /\ WriterRun(ColumnTable(f), wbufs[f], 1, Dumped(f))
                          /\ at > End /\ f < j => wbufs[f].buffer = << >>
  <2>1. rows # << >>
    BY <1>1 DEF UnzipInv
  <2>2. /\ at <= End + 1 /\ j <= program.files
        /\ \A f \in Files : /\ WriterRun(ColumnTable(f), wbufs[f], 1, Dumped(f))
                            /\ at > End /\ f < j => wbufs[f].buffer = << >>
    <3>1. WritingInv
      BY <1>1, Zenon DEF UnzipInv
    <3>. QED
      BY <3>1, Zenon DEF WritingInv
  <2>3. pc \in {"open", "rows"}
    OBVIOUS
  <2>4. out = << >> /\ whole = {} /\ \A f \in Files : torn[f] = << >> /\ rbufs[f] = RbufInit
    BY <1>1, <2>3, Zenon DEF UnzipInv
  <2>. QED
    BY <2>1, <2>2, <2>4, Zenon
<1>5. at \in 1..Len(rows) + 1 /\ j \in Files
  BY <1>1, <1>2, <1>3, <1>4 DEF Files
<1>6. ASSUME NEW f \in Files
      PROVE  /\ Dumped(f) \in 0..Len(rows)
             /\ FileEnd(wbufs[f].file, 1) \in 0..Len(rows)
             /\ HoldsRows(ColumnTable(f), wbufs[f].file, 1, FileEnd(wbufs[f].file, 1))
             /\ wbufs[f].buffer = << >> => FileEnd(wbufs[f].file, 1) = Dumped(f)
  <2>1. Dumped(f) \in 0..Len(rows)
    BY <1>1, <1>2, <1>5 DEF Dumped
  <2>2. ColumnTable(f) \in Seq(Row) /\ Len(ColumnTable(f)) = Len(rows)
    BY <1>1, ColumnTableType
  <2>3. Dumped(f) \in Nat /\ Dumped(f) <= Len(ColumnTable(f))
    BY <1>2, <2>1, <2>2
  <2>4. /\ FileEnd(wbufs[f].file, 1) \in 0..Dumped(f)
        /\ HoldsRows(ColumnTable(f), wbufs[f].file, 1, FileEnd(wbufs[f].file, 1))
        /\ wbufs[f].buffer = << >> => FileEnd(wbufs[f].file, 1) = Dumped(f)
    BY <1>3, <1>4, <2>2, <2>3, ChunksHold
  <2>5. FileEnd(wbufs[f].file, 1) \in 0..Len(rows)
    BY <1>2, <2>1, <2>4
  <2>. QED
    BY <2>1, <2>4, <2>5
<1>. QED
  BY <1>2, <1>3, <1>4, <1>5, <1>6

\* What is lost are the rows that were buffered.
LEMMA LostBuffers ==
    ASSUME TypeOK, Lose
    PROVE  /\ wbufs' \in [Files -> WriteBuf]
           /\ \A f \in Files : wbufs'[f].buffer = << >> /\ wbufs'[f].file = wbufs[f].file
<1>1. wbufs \in [Files -> WriteBuf]
  BY DEF TypeOK
<1>2. wbufs' = [f \in Files |-> [wbufs[f] EXCEPT !.buffer = << >>]]
  BY <1>1 DEF Lose
<1>3. ASSUME NEW w \in WriteBuf
      PROVE  /\ [w EXCEPT !.buffer = << >>] \in WriteBuf
             /\ [w EXCEPT !.buffer = << >>].buffer = << >> /\ [w EXCEPT !.buffer = << >>].file = w.file
  <2>1. w = [buffer |-> w.buffer, file |-> w.file] /\ w.file \in Seq(Seq(Cell))
    BY DEF WriteBuf
  <2>2. [w EXCEPT !.buffer = << >>] = [buffer |-> << >>, file |-> w.file]
    BY <2>1
  <2>3. [buffer |-> << >>, file |-> w.file] \in WriteBuf
    BY <2>1 DEF WriteBuf
  <2>. QED
    BY <2>2, <2>3
<1>4. ASSUME NEW f \in Files
      PROVE  wbufs'[f] \in WriteBuf /\ wbufs'[f].buffer = << >> /\ wbufs'[f].file = wbufs[f].file
  <2>1. wbufs[f] \in WriteBuf /\ wbufs'[f] = [wbufs[f] EXCEPT !.buffer = << >>]
    BY <1>1, <1>2
  <2>. QED
    BY <2>1, <1>3, Zenon
<1>5. wbufs' \in [Files -> WriteBuf]
  <2>1. wbufs' = [f \in Files |-> wbufs'[f]]
    BY <1>2
  <2>. QED
    BY <1>4, <2>1
<1>. QED
  BY <1>4, <1>5

\* bunzip ends early.
LEMMA UnzipLoses ==
    ASSUME IInv, program.name = "bunzip", pc = "rows", Lose, EndRun,
           UNCHANGED <<input, exists, whole, rbufs, out>>,
           torn' \in [Files -> Seq(Nat)],
           \A f \in Files : torn'[f] # << >> =>
               torn'[f][1] \in 0..Len(wbufs[f].file) /\ torn'[f][2] \in 1..run
    PROVE  IInv'
<1>1. TypeOK /\ whole' = whole /\ whole = {}
  BY UnzipParts, UnzipRunning
<1>2. /\ wbufs' \in [Files -> WriteBuf]
      /\ \A f \in Files : wbufs'[f].buffer = << >> /\ wbufs'[f].file = wbufs[f].file
  BY <1>1, LostBuffers
<1>3. \A f \in Files : torn'[f] # << >> =>
          torn'[f][1] \in 0..Len(wbufs'[f].file) /\ torn'[f][2] \in 1..run
  BY <1>2
<1>4. \A f \in Files :
          /\ wbufs'[f].buffer = << >>
          /\ FileEnd(wbufs'[f].file, 1) \in 0..Len(rows)
          /\ HoldsRows(ColumnTable(f), wbufs'[f].file, 1, FileEnd(wbufs'[f].file, 1))
  <2>. SUFFICES ASSUME NEW f \in Files
                PROVE  /\ FileEnd(wbufs[f].file, 1) \in 0..Len(rows)
                       /\ HoldsRows(ColumnTable(f), wbufs[f].file, 1, FileEnd(wbufs[f].file, 1))
    BY <1>2
  <2>. QED
    BY UnzipRunning, Zenon
<1>5. whole' \subseteq 1..run /\ whole' = {}
  BY <1>1
<1>6. UNCHANGED <<input, exists, rbufs, out>>
  OBVIOUS
<1>. QED
  BY <1>2, <1>3, <1>4, <1>5, <1>6, UnzipEnds

\* One that creates the files dumped nothing yet.
LEMMA UnzipOpenStep ==
    ASSUME IInv, UnzipOpen
    PROVE  IInv'
<1>1. program.name = "bunzip" /\ pc = "open"
  BY DEF UnzipOpen
<1>2. Unzipping /\ TypeOK /\ UnzipInv /\ ZipInv /\ CatInv /\ End = Len(rows)
  BY <1>1, UnzipParts
<1>3. /\ program' = program /\ rows' = rows /\ run' = run /\ at' = at /\ j' = j /\ wbufs' = wbufs
      /\ torn' = torn /\ whole' = whole /\ rbufs' = rbufs /\ out' = out
      /\ IF rows = << >> THEN pc' = "done" /\ exists' = exists ELSE pc' = "rows" /\ exists' = Files
  BY DEF UnzipOpen, input, Files
<1>4. program.then \in {"zip", "cat"} /\ Len(rows) \in Nat /\ program.files \in Nat \ {0}
  BY <1>2, UnzipGiven
<1>5. Files' = Files /\ End' = End /\ exists' \subseteq Files
  BY <1>2, <1>3 DEF Files, End, TypeOK
<1>6. /\ at = 1 /\ j = 1 /\ out = << >> /\ whole = {}
      /\ \A f \in Files : /\ torn[f] = << >> /\ rbufs[f] = RbufInit /\ wbufs[f].buffer = << >>
                          /\ RowCount(f) \in 0..Len(rows)
                          /\ HoldsRows(ColumnTable(f), wbufs[f].file, 1, RowCount(f))
                          /\ RowCount(f) = 0
  <2>1. pc # "rows" /\ pc \in {"open", "rows"}
    BY <1>1
  <2>. QED
    BY <1>1, <1>2, <2>1, Zenon DEF UnzipInv, WrittenInv
<1>7. TypeOK'
  BY <1>2, <1>3, <1>5 DEF TypeOK
<1>8. UnzipInv'
  <2>1. \A f \in Files : (RowCount(f))' = RowCount(f) /\ (ColumnTable(f))' = ColumnTable(f)
    BY <1>3 DEF RowCount, ColumnTable, ColumnRow
  <2>2. CASE rows = << >>
    <3>1. pc' = "done" /\ pc' # "rows" /\ pc' # "open"
      BY <1>3, <2>2
    <3>. QED
      BY <1>3, <1>5, <1>6, <2>1, <3>1, Zenon DEF UnzipInv, WrittenInv
  <2>3. CASE rows # << >>
    <3>1. pc' = "rows" /\ pc' # "open"
      BY <1>3, <2>3
    <3>2. Len(rows) >= 1 /\ at' <= End' + 1 /\ j' <= program'.files /\ ~(at' > End')
      BY <1>2, <1>3, <1>4, <1>5, <1>6, <2>3, UnzipGiven
    <3>3. ASSUME NEW f \in Files PROVE WriterRun((ColumnTable(f))', wbufs'[f], 1, (Dumped(f))')
      <4>1. (Dumped(f))' = 0
        <5>1. f \in Nat /\ f >= 1
          BY <1>4 DEF Files
        <5>2. ~(f < 1) /\ 1 - 1 = 0
          BY <5>1
        <5>. QED
          BY <1>3, <1>6, <5>2 DEF Dumped
      <4>2. RowCount(f) = 0
        BY <1>6
      <4>3. FileRun(ColumnTable(f), wbufs[f].file, 1) /\ FileEnd(wbufs[f].file, 1) = 0 /\ wbufs[f].buffer = << >>
        BY <1>6, <4>2 DEF HoldsRows, RowCount
      <4>. QED
        BY <1>3, <2>1, <4>1, <4>3 DEF WriterRun
    <3>. QED
      BY <1>3, <1>5, <1>6, <2>3, <3>1, <3>2, <3>3, Zenon DEF UnzipInv, WritingInv
  <2>. QED
    BY <2>2, <2>3
<1>9. ZipInv' /\ CatInv'
  <2>1. pc' # "zip" /\ pc' # "cat" /\ pc' # "died" /\ (pc' = "done" => rows' = << >>)
    BY <1>3
  <2>2. whole' = {} /\ out' = << >>
    BY <1>3, <1>6
  <2>. QED
    BY <2>1, <2>2 DEF ZipInv, CatInv, ZipsWholeRows, ZipInvertsUnzip, CatsHeads
<1>. QED
  BY <1>1, <1>3, <1>7, <1>8, <1>9 DEF IInv

\* A step in which bunzip goes on.
LEMMA UnzipGoesOn ==
    ASSUME IInv, program.name = "bunzip", pc = "rows", pc' = "rows",
           UNCHANGED <<input, run, torn, exists, whole, rbufs, out>>,
           at' \in 1..Len(rows) + 1, j' \in Files, wbufs' \in [Files -> WriteBuf],
           \A f \in Files : /\ Len(wbufs[f].file) <= Len(wbufs'[f].file)
                            /\ WriterRun(ColumnTable(f), wbufs'[f], 1, (Dumped(f))')
                            /\ at' > Len(rows) /\ f < j' => wbufs'[f].buffer = << >>
    PROVE  IInv'
<1>1. Unzipping /\ TypeOK /\ UnzipInv /\ ZipInv /\ CatInv /\ End = Len(rows) /\ run = 1
  BY UnzipParts
<1>2. /\ program' = program /\ rows' = rows /\ run' = run /\ torn' = torn /\ exists' = exists
      /\ whole' = whole /\ rbufs' = rbufs /\ out' = out
  BY DEF input
<1>3. /\ program.files \in Nat \ {0} /\ Len(rows) \in Nat /\ rows # << >> /\ out = << >> /\ whole = {}
      /\ \A f \in Files : torn[f] = << >> /\ rbufs[f] = RbufInit
  BY <1>1, UnzipGiven, UnzipRunning
<1>4. Files' = Files /\ End' = Len(rows) /\ \A f \in Files : (ColumnTable(f))' = ColumnTable(f)
  BY <1>1, <1>2 DEF Files, End, ColumnTable, ColumnRow
<1>5. TypeOK'
  <2>1. \A f \in Files : torn'[f] = << >>
    BY <1>2, <1>3
  <2>2. /\ Given(program, rows) /\ run \in 1..Len(program.ends) /\ torn \in [Files -> Seq(Nat)]
        /\ exists \subseteq Files /\ whole \subseteq 1..run /\ rbufs \in [Files -> ReadBuf]
    BY <1>1 DEF TypeOK
  <2>3. at' \in Nat \ {0} /\ j' \in Nat \ {0}
    BY <1>3 DEF Files
  <2>. QED
    BY <1>2, <1>4, <2>1, <2>2, <2>3, Zenon DEF TypeOK
<1>6. UnzipInv'
  <2>1. WritingInv'
    <3>1. at' <= End' + 1 /\ j' <= program'.files
      BY <1>2, <1>3, <1>4 DEF Files
    <3>. QED
      BY <1>4, <3>1, Zenon DEF WritingInv
  <2>2. pc' # "open" /\ pc' \in {"open", "rows", "done", "died", program'.then} /\ rows' # << >>
    BY <1>2, <1>3
  <2>. QED
    BY <1>2, <1>3, <1>4, <2>1, <2>2, Zenon DEF UnzipInv
<1>7. ZipInv' /\ CatInv'
  <2>1. pc' # "zip" /\ pc' # "cat" /\ pc' # "died" /\ pc' # "done" /\ out' = << >>
    BY <1>2, <1>3
  <2>. QED
    BY <2>1 DEF ZipInv, CatInv, ZipsWholeRows, ZipInvertsUnzip, CatsHeads
<1>. QED
  BY <1>1, <1>2, <1>5, <1>6, <1>7 DEF IInv, Unzipping

\* A column of a row is dumped to its file.
LEMMA UnzipColumnStep ==
    ASSUME IInv, UnzipColumn
    PROVE  IInv'
<1>1. /\ program.name = "bunzip" /\ pc = "rows" /\ at <= End /\ pc' = "rows"
      /\ UNCHANGED <<input, run, torn, exists, whole, rbufs, out>>
      /\ wbufs' = [wbufs EXCEPT ![j] = Dump(wbufs[j], at, ColumnRow(at, j))]
      /\ IF j < program.files THEN j' = j + 1 /\ at' = at ELSE j' = 1 /\ at' = at + 1
  BY DEF UnzipColumn, Unzips, Unzipped
<1>2. Unzipping /\ End = Len(rows) /\ wbufs \in [Files -> WriteBuf]
  BY <1>1, UnzipParts DEF TypeOK
<1>3. program.files \in Nat \ {0} /\ Len(rows) \in Nat
  BY <1>2, UnzipGiven
<1>4. /\ at \in 1..Len(rows) + 1 /\ j \in Files
      /\ \A f \in Files : /\ wbufs[f] \in WriteBuf
                          /\ WriterRun(ColumnTable(f), wbufs[f], 1, Dumped(f))
  BY <1>1, UnzipRunning
<1>5. at' \in 1..Len(rows) + 1 /\ j' \in Files /\ (at' > Len(rows) => j' = 1)
  BY <1>1, <1>2, <1>3, <1>4 DEF Files
<1>6. LET v == wbufs'[j]
      IN  /\ v \in WriteBuf /\ Len(wbufs[j].file) <= Len(v.file)
          /\ WriterRun(ColumnTable(j), v, 1, at)
  <2>1. Dumped(j) = at - 1
    BY <1>3, <1>4 DEF Dumped, Files
  <2>2. /\ ColumnTable(j) \in Seq(Row) /\ Len(ColumnTable(j)) = Len(rows)
        /\ \A i \in 1..Len(rows) : /\ ColumnTable(j)[i] = ColumnRow(i, j)
                                   /\ RowSize(ColumnTable(j)[i]) <= BUFFER_SIZE
    BY <1>2, <1>4, ColumnTableType
  <2>. DEFINE table == ColumnTable(j)
              w == wbufs[j]
              n == at - 1
  <2>3. n \in Nat /\ n + 1 = at /\ n + 1 \in 1..Len(table) /\ at \in 1..Len(rows)
    BY <1>1, <1>2, <1>3, <1>4, <2>2
  <2>4. WriterRun(table, w, 1, n) /\ w \in WriteBuf
    BY <1>4, <2>1
  <2>5. wbufs'[j] = Dump(w, n + 1, table[n + 1]) /\ RowSize(table[n + 1]) <= BUFFER_SIZE
    BY <1>1, <1>2, <1>4, <2>2, <2>3
  <2>6. table \in Seq(Row)
    BY <2>2
  <2>7. wbufs[j].file = w.file
    OBVIOUS
  <2>. HIDE DEF table, w, n
  <2>8. LET v == Dump(w, n + 1, table[n + 1])
        IN  v \in WriteBuf /\ Extends(w.file, v.file) /\ WriterRun(table, v, 1, n + 1)
    BY <2>3, <2>4, <2>5, <2>6, DumpState
  <2>. QED
    BY <2>3, <2>5, <2>7, <2>8 DEF Extends, table
<1>7. wbufs' \in [Files -> WriteBuf] /\ \A f \in Files : f # j => wbufs'[f] = wbufs[f]
  BY <1>1, <1>2, <1>6
<1>8. ASSUME NEW f \in Files
      PROVE  /\ Len(wbufs[f].file) <= Len(wbufs'[f].file)
             /\ WriterRun(ColumnTable(f), wbufs'[f], 1, (Dumped(f))')
             /\ at' > Len(rows) /\ f < j' => wbufs'[f].buffer = << >>
  <2>1. End' = End
    BY <1>1 DEF End, input
  <2>2. f \in 1..program.files /\ j \in 1..program.files
    BY <1>4 DEF Files
  <2>3. at' > Len(rows) => ~(f < j')
    BY <1>5, <2>2
  <2>4. Len(wbufs[f].file) \in Nat
    BY <1>4 DEF WriteBuf
  <2>5. CASE f = j
    <3>1. (Dumped(f))' = at
      BY <1>1, <1>2, <1>3, <1>4, <2>1, <2>2, <2>5 DEF Dumped
    <3>. QED
      BY <1>6, <2>3, <2>5, <3>1
  <2>6. CASE f # j
    <3>1. (Dumped(f))' = Dumped(f)
      BY <1>1, <1>2, <1>3, <1>4, <2>1, <2>2, <2>6 DEF Dumped
    <3>. QED
      BY <1>4, <1>7, <2>3, <2>4, <2>6, <3>1
  <2>. QED
    BY <2>5, <2>6
<1>. QED
  BY <1>1, <1>5, <1>7, <1>8, UnzipGoesOn

\* The file of a column is closed; with the last one bunzip went through.
LEMMA UnzipFlushStep ==
    ASSUME IInv, program.name = "bunzip", FlushFile
    PROVE  IInv'
<1>1. /\ pc = "rows" /\ at > End /\ UNCHANGED <<input, torn, exists, rbufs, out>>
      /\ wbufs' = [wbufs EXCEPT ![j] = WriteFlush(wbufs[j])]
  BY DEF FlushFile, Flushes, Closed
<1>2. IF j < program.files THEN j' = j + 1 /\ UNCHANGED <<run, at, whole, pc>>
      ELSE whole' = whole \union {run} /\ EndRun
  BY DEF FlushFile
<1>3. Unzipping /\ TypeOK /\ End = Len(rows) /\ run = 1 /\ wbufs \in [Files -> WriteBuf]
  BY UnzipParts DEF TypeOK
<1>4. program.files \in Nat \ {0} /\ Len(rows) \in Nat
  BY <1>3, UnzipGiven
<1>5. /\ at \in 1..Len(rows) + 1 /\ j \in Files /\ whole = {}
      /\ \A f \in Files : /\ torn[f] = << >> /\ wbufs[f] \in WriteBuf
                          /\ WriterRun(ColumnTable(f), wbufs[f], 1, Dumped(f))
                          /\ f < j => wbufs[f].buffer = << >>
  BY <1>1, UnzipRunning
<1>6. at = Len(rows) + 1 /\ \A f \in Files : Dumped(f) = Len(rows)
  <2>1. at = Len(rows) + 1
    BY <1>1, <1>3, <1>4, <1>5
  <2>. QED
    BY <1>3, <1>4, <2>1 DEF Dumped
<1>7. LET v == wbufs'[j]
      IN  /\ v \in WriteBuf /\ Len(wbufs[j].file) <= Len(v.file) /\ v.buffer = << >>
          /\ WriterRun(ColumnTable(j), v, 1, Len(rows))
  <2>. DEFINE table == ColumnTable(j)
              w == wbufs[j]
              n == Len(rows)
  <2>1. n \in Nat /\ w \in WriteBuf /\ WriterRun(table, w, 1, n) /\ wbufs'[j] = WriteFlush(w) /\ wbufs[j].file = w.file
    BY <1>1, <1>3, <1>4, <1>5, <1>6
  <2>. HIDE DEF table, w, n
  <2>2. LET v == WriteFlush(w)
        IN  v \in WriteBuf /\ v.buffer = << >> /\ Extends(w.file, v.file) /\ WriterRun(table, v, 1, n)
    BY <2>1, FlushState
  <2>. QED
    BY <2>1, <2>2 DEF Extends, table, n
<1>8. wbufs' \in [Files -> WriteBuf] /\ \A f \in Files : f # j => wbufs'[f] = wbufs[f]
  BY <1>1, <1>3, <1>7
<1>9. ASSUME NEW f \in Files
      PROVE  /\ Len(wbufs[f].file) <= Len(wbufs'[f].file)
             /\ WriterRun(ColumnTable(f), wbufs'[f], 1, Len(rows))
             /\ f < j \/ f = j => wbufs'[f].buffer = << >>
  <2>1. Len(wbufs[f].file) \in Nat
    BY <1>5 DEF WriteBuf
  <2>2. CASE f = j
    BY <1>7, <2>2
  <2>3. CASE f # j
    BY <1>5, <1>6, <1>8, <2>1, <2>3
  <2>. QED
    BY <2>2, <2>3
<1>10. CASE j < program.files
  <2>1. /\ j' = j + 1 /\ pc' = "rows" /\ at' = at /\ UNCHANGED <<input, run, torn, exists, whole, rbufs, out>>
    BY <1>1, <1>2, <1>10
  <2>2. at' \in 1..Len(rows) + 1 /\ j' \in Files
    BY <1>4, <1>5, <1>10, <2>1 DEF Files
  <2>3. ASSUME NEW f \in Files
        PROVE  (Dumped(f))' = Len(rows) /\ (f < j' => wbufs'[f].buffer = << >>)
    <3>1. End' = End
      BY <2>1 DEF End, input
    <3>2. (Dumped(f))' = Len(rows)
      BY <1>3, <1>4, <1>6, <2>1, <3>1 DEF Dumped
    <3>3. f < j' => f < j \/ f = j
      BY <1>5, <2>1 DEF Files
    <3>. QED
      BY <1>9, <3>2, <3>3
  <2>4. \A f \in Files : /\ Len(wbufs[f].file) <= Len(wbufs'[f].file)
                         /\ WriterRun(ColumnTable(f), wbufs'[f], 1, (Dumped(f))')
                         /\ at' > Len(rows) /\ f < j' => wbufs'[f].buffer = << >>
    BY <1>9, <2>3
  <2>. QED
    BY <1>1, <1>8, <2>1, <2>2, <2>4, UnzipGoesOn
<1>11. CASE ~(j < program.files)
  <2>1. EndRun /\ whole' = {1} /\ UNCHANGED <<input, exists, rbufs, out>> /\ torn' = torn
    BY <1>1, <1>2, <1>3, <1>5, <1>11
  <2>2. ASSUME NEW f \in Files
        PROVE  /\ wbufs'[f].buffer = << >>
               /\ FileEnd(wbufs'[f].file, 1) = Len(rows)
               /\ HoldsRows(ColumnTable(f), wbufs'[f].file, 1, Len(rows))
    <3>1. f < j \/ f = j
      BY <1>4, <1>5, <1>11 DEF Files
    <3>2. /\ wbufs'[f].buffer = << >> /\ wbufs'[f] \in WriteBuf
          /\ WriterRun(ColumnTable(f), wbufs'[f], 1, Len(rows))
      BY <1>8, <1>9, <3>1
    <3>3. ColumnTable(f) \in Seq(Row) /\ Len(ColumnTable(f)) = Len(rows) /\ Len(rows) <= Len(ColumnTable(f))
      BY <1>3, <1>4, ColumnTableType
    <3>4. /\ HoldsRows(ColumnTable(f), wbufs'[f].file, 1, FileEnd(wbufs'[f].file, 1))
          /\ FileEnd(wbufs'[f].file, 1) = Len(rows)
      BY <1>4, <3>2, <3>3, ChunksHold
    <3>. QED
      BY <3>2, <3>4
  <2>3. \A f \in Files :
            /\ wbufs'[f].buffer = << >>
            /\ FileEnd(wbufs'[f].file, 1) \in 0..Len(rows)
            /\ HoldsRows(ColumnTable(f), wbufs'[f].file, 1, FileEnd(wbufs'[f].file, 1))
    BY <1>4, <2>2
  <2>4. /\ torn' \in [Files -> Seq(Nat)] /\ whole' \subseteq 1..run
        /\ \A f \in Files : torn'[f] = << >>
    BY <1>3, <1>5, <2>1 DEF TypeOK
  <2>. QED
    BY <1>1, <1>8, <2>1, <2>2, <2>3, <2>4, UnzipEnds
<1>. QED
  BY <1>10, <1>11

\* bunzip is killed, or comes to a row of another number of columns.
LEMMA UnzipKillStep ==
    ASSUME IInv, program.name = "bunzip", Kill \/ UnzipBadRow \/ KillWriting
    PROVE  IInv'
<1>1. Unzipping /\ TypeOK /\ UnzipInv /\ run = 1
  BY UnzipParts
<1>2. pc = "rows"
  <2>1. pc \in {"rows", "remove"}
    BY DEF Kill, UnzipBadRow, KillWriting, Writes, Unzips, Partitions, Flushes
  <2>2. pc \in {"open", "rows", "done", "died", program.then} /\ program.then \in {"zip", "cat"}
    BY <1>1, UnzipGiven DEF UnzipInv
  <2>. QED
    BY <2>1, <2>2
<1>3. Lose /\ EndRun /\ UNCHANGED <<input, exists, whole, rbufs, out>>
  BY DEF Kill, UnzipBadRow, KillWriting
<1>4. /\ torn \in [Files -> Seq(Nat)]
      /\ \A f \in Files : torn[f] # << >> =>
           torn[f][1] \in 0..Len(wbufs[f].file) /\ torn[f][2] \in 1..run
  BY <1>1 DEF TypeOK
<1>5. /\ torn' \in [Files -> Seq(Nat)]
      /\ \A f \in Files : torn'[f] # << >> =>
           torn'[f][1] \in 0..Len(wbufs[f].file) /\ torn'[f][2] \in 1..run
  <2>1. CASE torn' = torn
    BY <1>4, <2>1
  <2>2. CASE torn' # torn
    <3>1. KillWriting
      BY <2>2 DEF Kill, UnzipBadRow
    <3>2. PICK f \in 1..program.files :
              torn' = [torn EXCEPT ![f] = IF torn[f] = << >> THEN <<Len(wbufs[f].file), run>> ELSE torn[f]]
      BY <3>1 DEF KillWriting
    <3>3. f \in Files /\ Len(wbufs[f].file) \in Nat /\ run \in 1..run /\ run \in Nat
      BY <1>1, <3>2 DEF Files, TypeOK, WriteBuf
    <3>4. /\ torn'[f] \in Seq(Nat)
          /\ torn'[f] # << >> => torn'[f][1] \in 0..Len(wbufs[f].file) /\ torn'[f][2] \in 1..run
      BY <1>4, <3>2, <3>3
    <3>5. torn' \in [Files -> Seq(Nat)] /\ \A g \in Files : g # f => torn'[g] = torn[g]
      BY <1>4, <3>2, <3>3
    <3>. QED
      BY <1>4, <3>4, <3>5
  <2>. QED
    BY <2>1, <2>2
<1>. QED
  BY <1>2, <1>3, <1>5, UnzipLoses

-----------------------------------------------------------------------------
\* The loads of a round when no file is selected twice: each is the first one
\* of its file.
AfterLoads(n) ==
    [rbufs |-> [f \in Files |-> IF \E a \in 1..n : Selected[a] = f THEN LoadColumn(rbufs[f], f).rbuf
                                ELSE rbufs[f]],
     got |-> [a \in 1..n |-> LoadColumn(rbufs[Selected[a]], Selected[a])]]

\* The next load is the first one of its file,
LEMMA NextLoad ==
    ASSUME Unzipping, rbufs \in [Files -> ReadBuf], ~Dupe, NEW n \in 1..Len(Selected)
    PROVE  LoadFrom(Selected[n], AfterLoads(n - 1)) = AfterLoads(n)
<1>. DEFINE f == Selected[n]
            before == AfterLoads(n - 1)
            got == LoadColumn(rbufs[f], f)
<1>1. Selected \in Seq(Files) /\ f \in Files /\ n \in Nat /\ n - 1 \in Nat /\ Len(Selected) \in Nat
  BY UnzipGiven
<1>2. \A a \in 1..n - 1 : Selected[a] # f
  <2>. SUFFICES ASSUME NEW a \in 1..n - 1, Selected[a] = f PROVE FALSE
    OBVIOUS
  <2>1. a \in 1..Len(Selected) /\ a # n
    BY <1>1
  <2>. QED
    BY <2>1 DEF Dupe
<1>3. before.rbufs[f] = rbufs[f]
  BY <1>1, <1>2 DEF AfterLoads
<1>4. [before.rbufs EXCEPT ![f] = got.rbuf] = AfterLoads(n).rbufs
  <2>1. before.rbufs = [g \in Files |-> IF \E a \in 1..n - 1 : Selected[a] = g
                                        THEN LoadColumn(rbufs[g], g).rbuf ELSE rbufs[g]]
    BY DEF AfterLoads
  <2>2. AfterLoads(n).rbufs = [g \in Files |-> IF \E a \in 1..n : Selected[a] = g
                                               THEN LoadColumn(rbufs[g], g).rbuf ELSE rbufs[g]]
    BY DEF AfterLoads
  <2>3. ASSUME NEW g \in Files
        PROVE  [before.rbufs EXCEPT ![f] = got.rbuf][g] = AfterLoads(n).rbufs[g]
    <3>1. (\E a \in 1..n : Selected[a] = g) <=> (g = f \/ \E a \in 1..n - 1 : Selected[a] = g)
      BY <1>1
    <3>2. CASE g = f
      BY <2>1, <2>2, <3>1, <3>2
    <3>3. CASE g # f
      BY <2>1, <2>2, <3>1, <3>3
    <3>. QED
      BY <3>2, <3>3
  <2>. QED
    BY <2>1, <2>2, <2>3
<1>5. Append(before.got, got) = AfterLoads(n).got
  <2>. DEFINE l(a) == LoadColumn(rbufs[Selected[a]], Selected[a])
  <2>1. before.got = [a \in 1..n - 1 |-> l(a)] /\ AfterLoads(n).got = [a \in 1..n |-> l(a)] /\ got = l(n)
    BY DEF AfterLoads
  <2>. HIDE DEF l, before, got
  <2>2. Append([a \in 1..n - 1 |-> l(a)], l(n)) = [a \in 1..n |-> l(a)]
    BY <1>1
  <2>. QED
    BY <2>1, <2>2
<1>6. LoadFrom(f, before) = [rbufs |-> [before.rbufs EXCEPT ![f] = got.rbuf], got |-> Append(before.got, got)]
  BY <1>3 DEF LoadFrom
<1>7. AfterLoads(n) = [rbufs |-> AfterLoads(n).rbufs, got |-> AfterLoads(n).got]
  BY DEF AfterLoads
<1>. QED
  BY <1>4, <1>5, <1>6, <1>7, Zenon

\* and so they all are.
LEMMA LoadsOnce ==
    ASSUME Unzipping, rbufs \in [Files -> ReadBuf], ~Dupe
    PROVE  Loads = AfterLoads(Len(Selected))
<1>. DEFINE N == Len(Selected)
            none == [rbufs |-> rbufs, got |-> << >>]
            g == CHOOSE g : g = [n \in 0..N |-> IF n = 0 THEN none ELSE LoadFrom(Selected[n], g[n - 1])]
            h == [n \in 0..N |-> AfterLoads(n)]
<1>1. Loads = g[N]
  BY Zenon DEF Loads
<1>2. N \in Nat
  BY UnzipGiven
<1>3. AfterLoads(0) = none
  <2>1. 1..0 = {}
    OBVIOUS
  <2>2. [f \in Files |-> IF \E a \in 1..0 : Selected[a] = f THEN LoadColumn(rbufs[f], f).rbuf ELSE rbufs[f]] = rbufs
    BY <2>1
  <2>3. [a \in 1..0 |-> LoadColumn(rbufs[Selected[a]], Selected[a])] = << >>
    BY <2>1
  <2>. QED
    BY <2>2, <2>3, Zenon DEF AfterLoads
<1>4. \A n \in 1..N : LoadFrom(Selected[n], AfterLoads(n - 1)) = AfterLoads(n)
  BY NextLoad
<1>. HIDE DEF g, N, none
<1>5. h = [n \in 0..N |-> IF n = 0 THEN none ELSE LoadFrom(Selected[n], h[n - 1])]
  <2>1. \A n \in 0..N : n # 0 => n \in 1..N /\ n - 1 \in 0..N
    BY <1>2
  <2>2. \A n \in 0..N : h[n] = AfterLoads(n)
    OBVIOUS
  <2>3. \A n \in 0..N : AfterLoads(n) = IF n = 0 THEN none ELSE LoadFrom(Selected[n], h[n - 1])
    <3>. SUFFICES ASSUME NEW n \in 0..N
                  PROVE  AfterLoads(n) = IF n = 0 THEN none ELSE LoadFrom(Selected[n], h[n - 1])
      OBVIOUS
    <3>. HIDE DEF h
    <3>. QED
      BY <1>3, <1>4, <2>1, <2>2, Zenon
  <2>. HIDE DEF h
  <2>4. h = [n \in 0..N |-> AfterLoads(n)]
    BY DEF h
  <2>. QED
    BY <2>3, <2>4
<1>. HIDE DEF h
<1>6. g = [n \in 0..N |-> IF n = 0 THEN none ELSE LoadFrom(Selected[n], g[n - 1])]
  BY <1>5, Zenon DEF g
<1>7. \A n \in 0..N : g[n] = IF n = 0 THEN none ELSE LoadFrom(Selected[n], g[n - 1])
  BY <1>6
<1>8. \A n \in 0..N : g[n] = AfterLoads(n)
  <2>. DEFINE P == {n \in 0..N : g[n] = AfterLoads(n)}
  <2>1. 0 \in P
    BY <1>2, <1>3, <1>7
  <2>2. ASSUME NEW n \in 1..N, n - 1 \in P PROVE n \in P
    <3>1. n \in 0..N /\ n # 0 /\ g[n - 1] = AfterLoads(n - 1)
      BY <1>2, <2>2
    <3>. QED
      BY <1>4, <1>7, <3>1
  <2>. HIDE DEF P
  <2>3. \A n \in 0..N : n \in P
    BY <1>2, <2>1, <2>2, UpFromZero
  <2>. QED
    BY <2>3 DEF P
<1>9. N \in 0..N
  BY <1>2
<1>. QED
  BY <1>1, <1>8, <1>9 DEF N

-----------------------------------------------------------------------------
\* load_next() returns a buffer, a row and an outcome.
LEMMA LoadNextParts ==
    ASSUME NEW rb, NEW table, NEW file
    PROVE  \E b, r, o : LoadNext(rb, table, file) = [rbuf |-> b, row |-> r, outcome |-> o]
<1>1. \A m : \E b, r, o : LoadRow(m, table, file) = [rbuf |-> b, row |-> r, outcome |-> o]
  <2>. SUFFICES ASSUME NEW m PROVE \E b, r, o : LoadRow(m, table, file) = [rbuf |-> b, row |-> r, outcome |-> o]
    OBVIOUS
  <2>1. \E b, r : LoadRow(m, table, file) = Loaded(b, r, "fatal") \/ LoadRow(m, table, file) = Loaded(b, r, "row")
    BY Zenon DEF LoadRow
  <2>. QED
    BY <2>1, Zenon DEF Loaded
<1>2. \E m, r : \/ LoadNext(rb, table, file) = Loaded(m, 0, "fatal")
                \/ LoadNext(rb, table, file) = Loaded(m, 0, "stop")
                \/ LoadNext(rb, table, file) = LoadRow(m, table, file)
  BY Zenon DEF LoadNext
<1>. QED
  BY <1>1, <1>2, Zenon DEF Loaded

\* A row that was read is what the buffer shows.
Shows(rb, n) == rb.at + 1 \in 1..Len(rb.buffer) /\ rb.buffer[rb.at + 1].row = n

\* The rows of a file come one by one, and after the last one its end, or the
\* short chunk that it ends with.
LEMMA ColumnLoads ==
    ASSUME Unzipping, TypeOK, WrittenInv, NEW f \in Files, NEW rb \in ReadBuf,
           NEW n, ReadUpTo(rb, f, n)
    PROVE  LET l == LoadColumn(rb, f)
           IN  /\ RowsIn(f) = RowCount(f) /\ RowCount(f) \in Nat /\ n \in 0..RowCount(f)
               /\ l.rbuf \in ReadBuf
               /\ IF n < RowCount(f)
                  THEN /\ l.outcome = "row" /\ l.row = n + 1
                       /\ ReadUpTo(l.rbuf, f, n + 1) /\ Shows(l.rbuf, n + 1)
                  ELSE l.outcome = IF torn[f] # << >> THEN "fatal" ELSE "stop"
<1>. DEFINE table == ColumnTable(f)
            file == wbufs[f].file
            hi == RowCount(f)
            load == LoadNext(rb, table, file)
            l == LoadColumn(rb, f)
<1>1. table \in Seq(Row) /\ Len(table) = Len(rows) /\ Len(rows) \in Nat
  BY ColumnTableType, UnzipGiven
<1>2. hi \in 0..Len(table) /\ HoldsRows(table, file, 1, hi) /\ hi \in Nat
  BY <1>1 DEF WrittenInv
<1>3. /\ n \in 0..hi /\ rb.dead = FALSE /\ rb.next \in 0..Len(file)
      /\ rb.next # 0 => rb.buffer = file[rb.next]
      /\ UpcomingTo(table, file, rb, hi, n + 1)
  BY DEF ReadUpTo, ReadBuf
<1>4. RowsIn(f) = hi
  <2>. HIDE DEF table, hi
  <2>1. Len(RowsOfFile(file)) = hi + 1 - 1
    BY <1>2, FileRowsFound
  <2>2. RowsIn(f) = Len(RowsOfFile(file))
    BY DEF RowsIn
  <2>. HIDE DEF file
  <2>. QED
    BY <2>1, <2>2, <1>2
<1>5. l.rbuf = load.rbuf /\ l.row = load.row
      /\ l.outcome = IF load.outcome = "stop" /\ torn[f] # << >> THEN "fatal" ELSE load.outcome
  <2>1. l = [load EXCEPT !.outcome = IF load.outcome = "stop" /\ torn[f] # << >> THEN "fatal" ELSE load.outcome]
    BY Zenon DEF LoadColumn
  <2>2. PICK b, r, o : load = [rbuf |-> b, row |-> r, outcome |-> o]
    BY LoadNextParts
  <2>. HIDE DEF load, l
  <2>. QED
    BY <2>1, <2>2
<1>. HIDE DEF load, l, table, hi, file
<1>6. CASE n < hi
  <2>1. n + 1 \in 1..hi /\ n + 1 \in 0..hi /\ n \in Nat
    BY <1>2, <1>3, <1>6
  <2>2. /\ load.outcome = "row" /\ load.row = n + 1
        /\ load.rbuf \in ReadBuf /\ ~load.rbuf.dead /\ load.rbuf.next \in 0..Len(file)
        /\ UpcomingTo(table, file, load.rbuf, hi, (n + 1) + 1)
    BY <1>2, <1>3, <2>1, LoadUpcomingIn DEF load
  <2>3. Points(table, file, load.rbuf, n + 1)
    <3>1. ~rb.dead /\ UpcomingTo(table, file, rb, hi, n + 1) /\ 1 \in Nat \ {0}
      BY <1>3
    <3>2. Points(table, file, load.rbuf, n + 1) /\ load.rbuf.next \in {rb.next, rb.next + 1}
      BY <1>2, <1>3, <2>1, <3>1, LoadPointsIn DEF load
    <3>. QED
      BY <3>2
  <2>4. ReadUpTo(load.rbuf, f, n + 1)
    BY <2>1, <2>2, <2>3 DEF ReadUpTo, Points, table, hi, file
  <2>5. Shows(load.rbuf, n + 1)
    <3>1. PICK p \in Nat : /\ RowAt(table, load.rbuf.buffer, p, n + 1)
                           /\ load.rbuf.at = p + HeaderSize(table[n + 1])
      BY <2>3 DEF Points
    <3>. DEFINE z == HeaderSize(table[n + 1]) + 1
                b == load.rbuf.buffer
    <3>2. table[n + 1] \in Row
      BY <1>1, <3>1 DEF RowAt
    <3>3. z \in 1..RowSize(table[n + 1]) /\ z \in Nat /\ RowSize(table[n + 1]) \in Nat
      BY <3>2, FormatAssumption, RowSizeType DEF HeaderSize, RowSize
    <3>4. b \in Seq(Cell)
      BY <2>2 DEF ReadBuf
    <3>5. load.rbuf.at + 1 = p + z
      <4>. HIDE DEF b
      <4>1. HeaderSize(table[n + 1]) \in Nat
        BY <3>2, RowSizeType
      <4>. QED
        BY <3>1, <4>1
    <3>6. p + RowSize(table[n + 1]) <= Len(b) /\ \A k \in 1..RowSize(table[n + 1]) : b[p + k] = [row |-> n + 1, byte |-> k]
      BY <3>1 DEF RowAt
    <3>. HIDE DEF b, z
    <3>7. p + z \in 1..Len(b) /\ b[p + z].row = n + 1
      <4>1. Len(b) \in Nat /\ b[p + z] = [row |-> n + 1, byte |-> z]
        BY <3>3, <3>4, <3>6
      <4>. DEFINE size == RowSize(table[n + 1])
      <4>2. size \in Nat /\ z \in 1..size /\ p + size <= Len(b)
        BY <3>3, <3>6
      <4>. HIDE DEF size
      <4>. QED
        BY <4>1, <4>2
    <3>. QED
      BY <3>5, <3>7 DEF Shows, b
  <2>. QED
    BY <1>2, <1>3, <1>4, <1>5, <1>6, <2>2, <2>4, <2>5 DEF l, hi
<1>7. CASE ~(n < hi)
  <2>1. n = hi
    BY <1>2, <1>3, <1>7
  <2>2. load = Loaded(ReadEof(rb), 0, "stop")
    BY <1>2, <1>3, <2>1, LoadStopsIn DEF load
  <2>3. load.outcome = "stop" /\ load.rbuf = ReadEof(rb)
    BY <2>2 DEF Loaded
  <2>4. load.rbuf \in ReadBuf
    BY <2>3, ReadEofType
  <2>. QED
    BY <1>2, <1>3, <1>4, <1>5, <1>7, <2>3, <2>4 DEF l, hi
<1>. QED
  BY <1>6, <1>7

\* bzip or bcat runs, after bunzip.
LEMMA Reads ==
    ASSUME IInv, pc \in {"zip", "cat"}
    PROVE  /\ program.name = "bunzip" /\ pc = program.then /\ Unzipping /\ TypeOK
           /\ UnzipInv /\ ZipInv /\ CatInv /\ WrittenInv
           /\ rows # << >> /\ Len(rows) \in Nat \ {0}
           /\ whole # {} => \A f \in Files : torn[f] = << >> /\ RowCount(f) = Len(rows)
<1>1. program.name = "bunzip"
  <2>1. program.name # "bpartition"
    BY DEF IInv, PartitionInv
  <2>. QED
    BY <2>1 DEF IInv, TypeOK, Given
<1>2. Unzipping /\ TypeOK /\ UnzipInv /\ ZipInv /\ CatInv
  BY <1>1, UnzipParts
<1>3. pc \in {"open", "rows", "done", "died", program.then} /\ pc # "rows" /\ pc # "open" /\ pc # "done"
  BY <1>2, Zenon DEF UnzipInv
<1>4. pc = program.then /\ WrittenInv /\ rows # << >>
      /\ (whole # {} => \A f \in Files : torn[f] = << >> /\ RowCount(f) = Len(rows))
  BY <1>2, <1>3, Zenon DEF UnzipInv
<1>5. Len(rows) \in Nat \ {0}
  BY <1>2, <1>4, UnzipGiven
<1>. QED
  BY <1>1, <1>2, <1>4, <1>5

\* A step of it leaves the files alone.
LEMMA ReadsOn ==
    ASSUME IInv, pc \in {"zip", "cat"}, UNCHANGED <<input, run, wbufs, torn, exists, whole>>,
           at' \in Nat \ {0}, j' \in Nat \ {0}, rbufs' \in [Files -> ReadBuf],
           pc' \in {program.then, "done", "died"}
    PROVE  /\ TypeOK' /\ UnzipInv' /\ Files' = Files
           /\ program' = program /\ rows' = rows /\ torn' = torn /\ whole' = whole /\ wbufs' = wbufs
           /\ \A f : /\ (RowCount(f))' = RowCount(f) /\ (RowsIn(f))' = RowsIn(f)
                     /\ (ColumnTable(f))' = ColumnTable(f)
<1>1. /\ program.name = "bunzip" /\ pc = program.then /\ Unzipping /\ TypeOK /\ UnzipInv
      /\ WrittenInv /\ rows # << >>
      /\ whole # {} => \A f \in Files : torn[f] = << >> /\ RowCount(f) = Len(rows)
  BY Reads
<1>2. /\ program' = program /\ rows' = rows /\ run' = run /\ wbufs' = wbufs /\ torn' = torn
      /\ exists' = exists /\ whole' = whole
  BY DEF input
<1>3. Files' = Files
  BY <1>2 DEF Files
<1>4. \A f : /\ (RowCount(f))' = RowCount(f) /\ (RowsIn(f))' = RowsIn(f)
             /\ (ColumnTable(f))' = ColumnTable(f)
  BY <1>2 DEF RowCount, RowsIn, ColumnTable, ColumnRow
<1>5. TypeOK'
  BY <1>1, <1>2, <1>3 DEF TypeOK
<1>6. UnzipInv'
  <2>1. pc' # "open" /\ pc' # "rows" /\ pc' \in {"open", "rows", "done", "died", program'.then}
    BY <1>1, <1>2
  <2>2. WrittenInv'
    BY <1>1, <1>2, <1>3, <1>4, Zenon DEF WrittenInv
  <2>. QED
    BY <1>1, <1>2, <1>3, <1>4, <2>1, <2>2, Zenon DEF UnzipInv
<1>. QED
  BY <1>2, <1>3, <1>4, <1>5, <1>6

\* A round of loads when n rows were read of each file.
LEMMA Round ==
    ASSUME IInv, pc = "zip", ~Dupe
    PROVE  LET n == Len(out)
           IN  /\ Selected \in Seq(Files) /\ Len(Selected) \in Nat \ {0} /\ n \in Nat
               /\ out \in Seq(Seq(Nat)) /\ ZipsWholeRows
               /\ Loads.rbufs \in [Files -> ReadBuf]
               /\ \A a \in 1..Len(Selected) :
                    LET f == Selected[a]
                    IN  /\ RowsIn(f) = RowCount(f) /\ n \in 0..RowCount(f)
                        /\ IF n < RowCount(f)
                           THEN /\ Loads.got[a].outcome = "row"
                                /\ ReadUpTo(Loads.rbufs[f], f, n + 1)
                                /\ Loads.got[a].rbuf = Loads.rbufs[f] /\ Shows(Loads.rbufs[f], n + 1)
                           ELSE Loads.got[a].outcome = IF torn[f] # << >> THEN "fatal" ELSE "stop"
<1>. DEFINE n == Len(out)
            N == Len(Selected)
<1>1. /\ program.then = "zip" /\ Unzipping /\ TypeOK /\ ZipInv /\ WrittenInv
  BY Reads
<1>2. Selected \in Seq(Files) /\ N \in Nat \ {0}
  BY <1>1, UnzipGiven
<1>3. out \in Seq(Seq(Nat)) /\ ZipsWholeRows /\ \A f \in ToSet(Selected) : ReadUpTo(rbufs[f], f, n)
  BY <1>1, Zenon DEF ZipInv
<1>4. n \in Nat /\ rbufs \in [Files -> ReadBuf]
  BY <1>1, <1>3 DEF TypeOK
<1>5. Loads = AfterLoads(N)
  BY <1>1, <1>4, LoadsOnce
<1>6. ASSUME NEW a \in 1..N
      PROVE  /\ Selected[a] \in Files
             /\ Loads.got[a] = LoadColumn(rbufs[Selected[a]], Selected[a])
             /\ Loads.rbufs[Selected[a]] = LoadColumn(rbufs[Selected[a]], Selected[a]).rbuf
             /\ ReadUpTo(rbufs[Selected[a]], Selected[a], n)
  <2>1. Selected[a] \in Files /\ Selected[a] \in ToSet(Selected)
    BY <1>2 DEF ToSet
  <2>2. Loads.got[a] = LoadColumn(rbufs[Selected[a]], Selected[a])
    BY <1>5 DEF AfterLoads
  <2>3. Loads.rbufs[Selected[a]] = LoadColumn(rbufs[Selected[a]], Selected[a]).rbuf
    <3>. DEFINE f == Selected[a]
    <3>1. Loads.rbufs = [g \in Files |-> IF \E b \in 1..N : Selected[b] = g THEN LoadColumn(rbufs[g], g).rbuf ELSE rbufs[g]]
      BY <1>5 DEF AfterLoads
    <3>2. f \in Files /\ \E b \in 1..N : Selected[b] = f
      BY <2>1
    <3>. HIDE DEF f
    <3>3. Loads.rbufs[f] = LoadColumn(rbufs[f], f).rbuf
      BY <3>1, <3>2
    <3>. QED
      BY <3>3 DEF f
  <2>4. ReadUpTo(rbufs[Selected[a]], Selected[a], n)
    BY <1>3, <2>1, Zenon
  <2>. QED
    BY <2>1, <2>2, <2>3, <2>4
<1>. HIDE DEF n, N
<1>7. \A f \in Files : rbufs[f] \in ReadBuf
  BY <1>4
<1>8. ASSUME NEW a \in 1..N
      PROVE  LET f == Selected[a]
             IN  /\ RowsIn(f) = RowCount(f) /\ n \in 0..RowCount(f)
                 /\ Loads.rbufs[f] \in ReadBuf
                 /\ IF n < RowCount(f)
                    THEN /\ Loads.got[a].outcome = "row"
                         /\ ReadUpTo(Loads.rbufs[f], f, n + 1)
                         /\ Loads.got[a].rbuf = Loads.rbufs[f] /\ Shows(Loads.rbufs[f], n + 1)
                    ELSE Loads.got[a].outcome = IF torn[f] # << >> THEN "fatal" ELSE "stop"
  <2>. DEFINE f == Selected[a]
              l == LoadColumn(rbufs[f], f)
  <2>1. f \in Files /\ Loads.got[a] = l /\ Loads.rbufs[f] = l.rbuf /\ ReadUpTo(rbufs[f], f, n)
    BY <1>6
  <2>. HIDE DEF f
  <2>2. /\ RowsIn(f) = RowCount(f) /\ n \in 0..RowCount(f)
        /\ l.rbuf \in ReadBuf
        /\ IF n < RowCount(f)
           THEN /\ l.outcome = "row" /\ ReadUpTo(l.rbuf, f, n + 1) /\ Shows(l.rbuf, n + 1)
           ELSE l.outcome = IF torn[f] # << >> THEN "fatal" ELSE "stop"
    BY <1>1, <1>7, <2>1, ColumnLoads, Zenon
  <2>. HIDE DEF l
  <2>. QED
    BY <2>1, <2>2, Zenon DEF f
<1>9. Loads.rbufs \in [Files -> ReadBuf]
  <2>1. Loads.rbufs = [g \in Files |-> IF \E b \in 1..N : Selected[b] = g THEN LoadColumn(rbufs[g], g).rbuf ELSE rbufs[g]]
    BY <1>5 DEF AfterLoads
  <2>2. ASSUME NEW g \in Files PROVE Loads.rbufs[g] \in ReadBuf
    <3>1. CASE \E b \in 1..N : Selected[b] = g
      BY <1>8, <3>1
    <3>2. CASE ~ \E b \in 1..N : Selected[b] = g
      BY <1>7, <2>1, <3>2
    <3>. QED
      BY <3>1, <3>2
  <2>. HIDE DEF N
  <2>. QED
    BY <2>1, <2>2
<1>. QED
  BY <1>2, <1>3, <1>4, <1>8, <1>9 DEF n, N

\* bzip refuses a column that is selected twice.
LEMMA ZipDupeStep ==
    ASSUME IInv, ZipDupe
    PROVE  IInv'
<1>1. /\ pc = "zip" /\ Dupe /\ pc' = "died"
      /\ UNCHANGED <<input, run, at, j, wbufs, torn, exists, whole, rbufs, out>>
  BY DEF ZipDupe
<1>2. program.name = "bunzip" /\ program.then = "zip" /\ Unzipping /\ TypeOK /\ ZipInv
  BY <1>1, Reads
<1>3. /\ at' \in Nat \ {0} /\ j' \in Nat \ {0} /\ rbufs' \in [Files -> ReadBuf]
      /\ UNCHANGED <<input, run, wbufs, torn, exists, whole>> /\ out' = out
  BY <1>1, <1>2 DEF TypeOK
<1>4. TypeOK' /\ UnzipInv' /\ program' = program
  BY <1>1, <1>3, ReadsOn
<1>5. out \in Seq(Seq(Nat)) /\ ZipsWholeRows
  BY <1>2, Zenon DEF ZipInv
<1>6. Dupe' /\ ZipsWholeRows'
  BY <1>1, <1>3, <1>4, <1>5 DEF Dupe, Selected, ZipsWholeRows, Zips
<1>7. ZipInv'
  BY <1>1, <1>3, <1>5, <1>6 DEF ZipInv, ZipInvertsUnzip
<1>8. CatInv'
  BY <1>2, <1>4 DEF CatInv
<1>. QED
  BY <1>2, <1>4, <1>7, <1>8 DEF IInv

\* A row of bzip has columns of the row that comes next.
LEMMA ZipRowStep ==
    ASSUME IInv, ZipRow
    PROVE  IInv'
<1>. DEFINE n == Len(out)
            N == Len(Selected)
<1>1. /\ pc = "zip" /\ ~Dupe /\ Got(Loads) = {"row"} /\ out' = Append(out, Shown(Loads))
      /\ rbufs' = Loads.rbufs
      /\ UNCHANGED <<input, run, at, j, wbufs, torn, exists, whole, pc>>
  BY Zenon DEF ZipRow
<1>2. program.name = "bunzip" /\ program.then = "zip" /\ Unzipping /\ TypeOK
  BY <1>1, Reads
<1>3. /\ Selected \in Seq(Files) /\ N \in Nat \ {0} /\ n \in Nat /\ out \in Seq(Seq(Nat)) /\ ZipsWholeRows
      /\ rbufs' \in [Files -> ReadBuf]
  BY <1>1, Round
<1>4. ASSUME NEW a \in 1..N
      PROVE  LET f == Selected[a]
             IN  /\ ReadUpTo(rbufs'[f], f, n + 1)
                 /\ Loads.got[a].rbuf = Loads.rbufs[f] /\ Shows(Loads.rbufs[f], n + 1)
  <2>. DEFINE f == Selected[a]
  <2>1. Loads.got[a].outcome = "row"
    BY <1>1 DEF Got
  <2>2. IF n < RowCount(f)
        THEN /\ ReadUpTo(Loads.rbufs[f], f, n + 1)
             /\ Loads.got[a].rbuf = Loads.rbufs[f] /\ Shows(Loads.rbufs[f], n + 1)
        ELSE Loads.got[a].outcome = IF torn[f] # << >> THEN "fatal" ELSE "stop"
    BY <1>1, Round
  <2>. QED
    BY <1>1, <2>1, <2>2
<1>. HIDE DEF n, N
<1>5. Shown(Loads) = [i \in 1..N |-> n + 1]
  <2>1. Shown(Loads) = [a \in 1..N |->
                          LET p == Loads.got[a].rbuf.at + 1
                              buffer == Loads.rbufs[Selected[a]].buffer
                          IN  IF p <= Len(buffer) THEN buffer[p].row ELSE 0]
    BY Zenon DEF Shown, N
  <2>2. ASSUME NEW a \in 1..N
        PROVE  (LET p == Loads.got[a].rbuf.at + 1
                    buffer == Loads.rbufs[Selected[a]].buffer
                IN  IF p <= Len(buffer) THEN buffer[p].row ELSE 0) = n + 1
    <3>. DEFINE b == Loads.rbufs[Selected[a]]
    <3>1. Loads.got[a].rbuf = b /\ Shows(b, n + 1)
      BY <1>4
    <3>. HIDE DEF b
    <3>2. b.at + 1 \in 1..Len(b.buffer) /\ b.buffer[b.at + 1].row = n + 1
      BY <3>1 DEF Shows
    <3>3. b.at + 1 <= Len(b.buffer)
      BY <3>2
    <3>. QED
      BY <3>1, <3>2, <3>3 DEF b
  <2>. QED
    BY <2>1, <2>2
<1>6. /\ Shown(Loads) \in Seq(Nat) /\ out' \in Seq(Seq(Nat)) /\ Len(out') = n + 1
      /\ out'[n + 1] = Shown(Loads) /\ \A m \in 1..n : out'[m] = out[m]
  <2>1. Shown(Loads) \in Seq(Nat)
    BY <1>3, <1>5
  <2>. QED
    BY <1>1, <1>3, <2>1 DEF n
<1>7. at' \in Nat \ {0} /\ j' \in Nat \ {0} /\ pc' = "zip"
  BY <1>1, <1>2 DEF TypeOK
<1>8. /\ TypeOK' /\ UnzipInv' /\ program' = program /\ wbufs' = wbufs
      /\ \A f : (RowCount(f))' = RowCount(f) /\ (ColumnTable(f))' = ColumnTable(f)
  <2>1. UNCHANGED <<input, run, wbufs, torn, exists, whole>> /\ pc \in {"zip", "cat"} /\ pc' \in {program.then, "done", "died"}
    BY <1>1, <1>2
  <2>. QED
    BY <1>3, <1>7, <2>1, ReadsOn
<1>9. Selected' = Selected /\ Dupe' = Dupe
  BY <1>8 DEF Selected, Dupe
<1>10. ZipsWholeRows'
  <2>1. \A m \in 1..n : out[m] = [i \in 1..N |-> m]
    BY <1>2, <1>3, Zenon DEF ZipsWholeRows, Zips, n, N
  <2>2. \A m \in 1..n + 1 : out'[m] = [i \in 1..N |-> m]
    <3>1. \A m \in 1..n + 1 : m \in 1..n \/ m = n + 1
      BY <1>3
    <3>. QED
      BY <1>5, <1>6, <2>1, <3>1
  <2>. QED
    BY <1>6, <1>9, <2>2 DEF ZipsWholeRows, N
<1>11. ASSUME NEW f \in ToSet(Selected) PROVE (ReadUpTo(rbufs[f], f, Len(out)))'
  <2>1. PICK a \in 1..N : Selected[a] = f
    BY <1>3 DEF ToSet, N
  <2>2. ReadUpTo(rbufs'[f], f, n + 1)
    BY <1>4, <2>1
  <2>. QED
    BY <1>6, <1>8, <2>2 DEF ReadUpTo
<1>12. ZipInv'
  <2>1. ZipInvertsUnzip'
    BY <1>7 DEF ZipInvertsUnzip
  <2>. QED
    BY <1>6, <1>9, <1>10, <1>11, <2>1, Zenon DEF ZipInv
<1>13. CatInv'
  BY <1>2, <1>8 DEF CatInv
<1>. QED
  BY <1>2, <1>8, <1>12, <1>13 DEF IInv

\* bzip ends well when all the files end, after their last whole chunks, and
\* only then.
LEMMA ZipStopStep ==
    ASSUME IInv, ZipStop
    PROVE  IInv'
<1>. DEFINE n == Len(out)
            N == Len(Selected)
<1>1. /\ pc = "zip" /\ ~Dupe /\ Got(Loads) # {"row"} /\ out' = out /\ rbufs' = Loads.rbufs
      /\ UNCHANGED <<input, run, at, j, wbufs, torn, exists, whole>>
      /\ pc' \in (IF MaxUnset(Loads) THEN {"died"} ELSE {})
                 \union {IF Got(Loads) = {"stop"} THEN "done" ELSE "died"}
  BY Zenon DEF ZipStop
<1>2. /\ program.name = "bunzip" /\ program.then = "zip" /\ Unzipping /\ TypeOK /\ Len(rows) \in Nat \ {0}
      /\ (whole # {} => \A f \in Files : torn[f] = << >> /\ RowCount(f) = Len(rows))
  BY <1>1, Reads
<1>3. /\ Selected \in Seq(Files) /\ N \in Nat \ {0} /\ n \in Nat /\ out \in Seq(Seq(Nat)) /\ ZipsWholeRows
      /\ rbufs' \in [Files -> ReadBuf]
      /\ \A a \in 1..N : LET f == Selected[a]
                         IN  /\ RowsIn(f) = RowCount(f) /\ n \in 0..RowCount(f)
                             /\ IF n < RowCount(f) THEN Loads.got[a].outcome = "row"
                                ELSE Loads.got[a].outcome = IF torn[f] # << >> THEN "fatal" ELSE "stop"
  BY <1>1, Round
<1>. DEFINE count(a) == RowsIn(Selected[a])
            intact(a) == torn[Selected[a]] = << >>
            o(a) == Loads.got[a].outcome
<1>4. ASSUME NEW a \in 1..N
      PROVE  /\ Selected[a] \in Files /\ count(a) = RowCount(Selected[a]) /\ count(a) \in Nat /\ n <= count(a)
             /\ n < count(a) => o(a) = "row"
             /\ n = count(a) /\ intact(a) => o(a) = "stop"
             /\ o(a) = "stop" => count(a) = n /\ intact(a)
  <2>. DEFINE f == Selected[a]
  <2>1. f \in Files
    BY <1>3
  <2>2. RowCount(f) \in Nat
    BY <1>1, <1>2, <2>1, Reads, UnzipGiven DEF WrittenInv
  <2>3. /\ RowsIn(f) = RowCount(f) /\ n \in 0..RowCount(f)
        /\ IF n < RowCount(f) THEN Loads.got[a].outcome = "row"
           ELSE Loads.got[a].outcome = IF torn[f] # << >> THEN "fatal" ELSE "stop"
    BY <1>3
  <2>. HIDE DEF f, n
  <2>4. n \in Nat /\ n <= RowCount(f) /\ (n < RowCount(f) \/ n = RowCount(f))
    BY <2>2, <2>3
  <2>5. n < RowCount(f) => n # RowCount(f)
    BY <2>2, <2>4
  <2>6. n = RowCount(f) => ~(n < RowCount(f))
    BY <2>2, <2>4
  <2>. QED
    BY <2>1, <2>2, <2>3, <2>4, <2>5, <2>6 DEF f
<1>5. Got(Loads) = {o(a) : a \in 1..N}
  BY DEF Got
<1>. HIDE DEF n, N, o
<1>6. ASSUME pc' = "done" PROVE \A a \in 1..N : count(a) = n /\ intact(a)
  <2>1. Got(Loads) = {"stop"}
    BY <1>1, <1>6
  <2>. QED
    BY <1>4, <1>5, <2>1
<1>7. ASSUME pc' = "died"
      PROVE  count(1) = 0 \/ \E a \in 1..N : count(a) # count(1) \/ ~intact(a)
  <2>0. 1 \in 1..N
    BY <1>3
  <2>1. CASE MaxUnset(Loads)
    <3>1. n = 0 /\ o(1) = "stop"
      BY <2>1, <1>3 DEF MaxUnset, n, o
    <3>. QED
      BY <1>4, <2>0, <3>1
  <2>2. CASE ~MaxUnset(Loads)
    <3>1. Got(Loads) # {"stop"}
      BY <1>1, <1>7, <2>2
    <3>. SUFFICES ASSUME \A a \in 1..N : count(a) = count(1) /\ intact(a) PROVE FALSE
      OBVIOUS
    <3>2. count(1) \in Nat /\ n <= count(1) /\ n \in Nat
      BY <1>3, <1>4, <2>0 DEF n
    <3>. HIDE DEF count, intact
    <3>3. CASE n < count(1)
      <4>1. \A a \in 1..N : o(a) = "row"
        BY <1>4, <3>3 DEF count
      <4>2. Got(Loads) = {"row"}
        BY <1>5, <2>0, <4>1
      <4>. QED
        BY <1>1, <4>2
    <3>4. CASE n = count(1)
      <4>1. \A a \in 1..N : o(a) = "stop"
        BY <1>4, <3>4 DEF count, intact
      <4>2. Got(Loads) = {"stop"}
        BY <1>5, <2>0, <4>1
      <4>. QED
        BY <3>1, <4>2
    <3>. QED
      BY <3>2, <3>3, <3>4
  <2>. QED
    BY <2>1, <2>2
<1>8. whole # {} => \A a \in 1..N : count(a) = Len(rows) /\ intact(a)
  BY <1>2, <1>4
<1>9. at' \in Nat \ {0} /\ j' \in Nat \ {0} /\ pc' \in {"done", "died"}
  BY <1>1, <1>2 DEF TypeOK
<1>10. /\ TypeOK' /\ UnzipInv' /\ program' = program /\ rows' = rows /\ torn' = torn /\ whole' = whole
       /\ \A f : (RowsIn(f))' = RowsIn(f)
  <2>1. /\ UNCHANGED <<input, run, wbufs, torn, exists, whole>> /\ pc \in {"zip", "cat"}
        /\ pc' \in {program.then, "done", "died"}
    BY <1>1, <1>9
  <2>. QED
    BY <1>3, <1>9, <2>1, ReadsOn
<1>11. Selected' = Selected
  BY <1>10 DEF Selected
<1>12. ZipsWholeRows'
  BY <1>1, <1>3, <1>10, <1>11 DEF ZipsWholeRows, Zips
<1>13. ZipInvertsUnzip'
  <2>1. (pc = "done" /\ rows # << >> =>
            \A m \in 1..Len(Selected) : RowsIn(Selected[m]) = Len(out) /\ torn[Selected[m]] = << >>)'
    BY <1>1, <1>6, <1>10, <1>11 DEF n, N
  <2>2. (pc = "done" /\ whole # {} => Len(out) = Len(rows))'
    <3>1. 1 \in 1..N
      BY <1>3
    <3>2. pc' = "done" /\ whole # {} => n = Len(rows)
      BY <1>6, <1>8, <3>1
    <3>. QED
      BY <1>1, <1>10, <3>2 DEF n
  <2>3. (pc = "died" =>
            \/ Dupe
            \/ RowsIn(Selected[1]) = 0
            \/ \E m \in 1..Len(Selected) : \/ RowsIn(Selected[m]) # RowsIn(Selected[1])
                                           \/ torn[Selected[m]] # << >>)'
    BY <1>7, <1>10, <1>11 DEF N
  <2>4. (pc = "died" /\ whole # {} => Dupe)'
    <3>1. pc' = "died" /\ whole # {} => FALSE
      <4>1. 1 \in 1..N /\ Len(rows) # 0
        BY <1>2, <1>3
      <4>. QED
        BY <1>7, <1>8, <4>1
    <3>. QED
      BY <1>10, <3>1
  <2>. QED
    BY <2>1, <2>2, <2>3, <2>4 DEF ZipInvertsUnzip
<1>14. ZipInv'
  BY <1>1, <1>3, <1>9, <1>12, <1>13 DEF ZipInv
<1>15. CatInv'
  BY <1>2, <1>10 DEF CatInv
<1>. QED
  BY <1>2, <1>10, <1>14, <1>15 DEF IInv

-----------------------------------------------------------------------------
\* The pieces of a sequence joined one by one are the sequence flattened.
LEMMA Flattened ==
    ASSUME NEW S, NEW seqs \in Seq(Seq(S)), NEW h \in [0..Len(seqs) -> Seq(S)], h[0] = << >>,
           \A i \in 1..Len(seqs) : h[i] = h[i - 1] \o seqs[i]
    PROVE  FlattenSeq(seqs) = h[Len(seqs)]
<1>. DEFINE N == Len(seqs)
            g == CHOOSE g : g = [i \in 1..N |-> IF i = 1 THEN seqs[i] ELSE g[i - 1] \o seqs[i]]
            u == [i \in 1..N |-> h[i]]
<1>0. /\ \A i \in 1..N : h[i] = h[i - 1] \o seqs[i]
      /\ \A i \in 1..N : seqs[i] \in Seq(S)
      /\ \A s \in Seq(S) : << >> \o s = s
  <2>1. \A i \in 1..N : h[i] = h[i - 1] \o seqs[i]
    BY Zenon
  <2>2. \A s \in Seq(S) : << >> \o s = s
    BY ConcatEmptySeq
  <2>3. \A i \in 1..N : seqs[i] \in Seq(S)
    OBVIOUS
  <2>. QED
    BY <2>1, <2>2, <2>3, Zenon
<1>1. N \in Nat
  OBVIOUS
<1>2. CASE N = 0
  <2>1. FlattenSeq(seqs) = seqs
    BY <1>2, Zenon DEF FlattenSeq
  <2>2. seqs = << >>
    BY <1>2
  <2>. QED
    BY <1>2, <2>1, <2>2
<1>3. CASE N # 0
  <2>1. FlattenSeq(seqs) = g[N]
    BY <1>3, Zenon DEF FlattenSeq
  <2>. HIDE DEF g
  <2>2. u = [i \in 1..N |-> IF i = 1 THEN seqs[i] ELSE u[i - 1] \o seqs[i]]
    <3>1. ASSUME NEW i \in 1..N PROVE h[i] = IF i = 1 THEN seqs[i] ELSE u[i - 1] \o seqs[i]
      <4>1. h[i] = h[i - 1] \o seqs[i] /\ seqs[i] \in Seq(S)
        BY <1>0
      <4>2. CASE i = 1
        <5>1. h[i - 1] = << >>
          BY <4>2
        <5>. QED
          BY <1>0, <4>1, <4>2, <5>1, Zenon
      <4>3. CASE i # 1
        <5>1. i - 1 \in 1..N
          BY <4>3
        <5>. QED
          BY <4>1, <4>3, <5>1
      <4>. QED
        BY <4>2, <4>3
    <3>. HIDE DEF N
    <3>2. u = [i \in 1..N |-> h[i]]
      OBVIOUS
    <3>. HIDE DEF u
    <3>. QED
      BY <3>1, <3>2
  <2>3. g = [i \in 1..N |-> IF i = 1 THEN seqs[i] ELSE g[i - 1] \o seqs[i]]
    <3>. HIDE DEF u
    <3>. QED
      BY <2>2, Zenon DEF g
  <2>4. \A i \in 1..N : g[i] = IF i = 1 THEN seqs[i] ELSE g[i - 1] \o seqs[i]
    <3>. HIDE DEF N
    <3>. QED
      BY <2>3
  <2>. DEFINE P == {i \in 0..N : i # 0 => g[i] = h[i]}
  <2>5. 0 \in P
    OBVIOUS
  <2>6. ASSUME NEW i \in 1..N, i - 1 \in P PROVE i \in P
    <3>. HIDE DEF u
    <3>1. h[i] = h[i - 1] \o seqs[i] /\ seqs[i] \in Seq(S) /\ i \in 0..N
      <4>. HIDE DEF N
      <4>. QED
        BY <1>0, <1>1
    <3>2. CASE i = 1
      <4>1. h[i - 1] = << >>
        BY <3>2
      <4>. QED
        BY <1>0, <2>4, <3>1, <3>2, <4>1, Zenon
    <3>3. CASE i # 1
      <4>1. g[i - 1] = h[i - 1]
        BY <2>6, <3>3
      <4>. QED
        BY <2>4, <3>1, <3>3, <4>1
    <3>. QED
      BY <3>2, <3>3
  <2>. HIDE DEF P, N
  <2>7. \A i \in 0..N : i \in P
    BY <1>1, <2>5, <2>6, UpFromZero
  <2>8. N \in P
    BY <1>1, <2>7
  <2>. QED
    BY <1>3, <2>1, <2>8 DEF P, N
<1>. QED
  BY <1>2, <1>3

\* The first m lines of the n-th file.
Line == Nat \X Nat
Lines(n, m) == [i \in 1..m |-> <<n, i>>]

\* Line by line, and file by file, the text is put together.
LEMMA LinesGrow ==
    ASSUME NEW s \in Seq(Line), NEW n \in Nat, NEW m \in Nat
    PROVE  /\ Lines(n, m) \in Seq(Line) /\ Len(Lines(n, m)) = m
           /\ s \o Lines(n, 0) = s
           /\ Append(s \o Lines(n, m), <<n, m + 1>>) = s \o Lines(n, m + 1)
<1>1. ASSUME NEW k \in Nat PROVE Lines(n, k) \in Seq(Line) /\ Len(Lines(n, k)) = k
  <2>1. \A i \in 1..k : <<n, i>> \in Line
    BY DEF Line
  <2>. QED
    BY <2>1 DEF Lines
<1>2. s \o Lines(n, 0) = s
  <2>1. Lines(n, 0) = << >>
    BY DEF Lines
  <2>. QED
    BY <2>1
<1>. DEFINE l == Lines(n, m)
            x == <<n, m + 1>>
            a == Append(l, x)
<1>3. l \in Seq(Line) /\ Len(l) = m
  BY <1>1
<1>4. x \in Line
  BY DEF Line
<1>. HIDE DEF l, x
<1>5. Append(s \o l, x) = s \o a
  BY <1>3, <1>4
<1>6. a \in Seq(Line) /\ Len(a) = m + 1 /\ a[m + 1] = x /\ \A i \in 1..m : a[i] = l[i]
  BY <1>3, <1>4
<1>. HIDE DEF a
<1>7. a = Lines(n, m + 1)
  <2>1. (\A i \in 1..m : l[i] = <<n, i>>) /\ (\A i \in 1..m + 1 : Lines(n, m + 1)[i] = <<n, i>>)
    BY DEF Lines, l
  <2>2. ASSUME NEW i \in 1..m + 1 PROVE a[i] = Lines(n, m + 1)[i]
    <3>1. i \in 1..m \/ i = m + 1
      OBVIOUS
    <3>. QED
      BY <1>6, <2>1, <3>1 DEF x
  <2>. QED
    BY <1>1, <1>6, <2>2, SeqEqual
<1>. QED
  BY <1>1, <1>2, <1>5, <1>7 DEF l, x

Concatenating == Unzipping /\ TypeOK /\ program.then = "cat"

\* What is printed of a file are rows it has, and no more than the head.
LEMMA PrintedType ==
    ASSUME Concatenating, NEW n \in 1..Len(Selected)
    PROVE  /\ Selected[n] \in Files /\ RowsIn(Selected[n]) \in Nat /\ program.head \in Nat
           /\ Printed(n) \in Nat
           /\ Printed(n) = IF program.head = 0 \/ RowsIn(Selected[n]) < program.head
                           THEN RowsIn(Selected[n]) ELSE program.head
<1>1. Selected[n] \in Files /\ program.head \in Nat
  BY UnzipGiven DEF Concatenating
<1>2. wbufs[Selected[n]] \in WriteBuf
  BY <1>1 DEF Concatenating, TypeOK
<1>3. RowsOfFile(wbufs[Selected[n]].file) \in Seq(Nat)
  BY <1>2, BufferLast
<1>4. RowsIn(Selected[n]) \in Nat
  BY <1>3 DEF RowsIn
<1>. QED
  BY <1>1, <1>4 DEF Printed

\* The text of k files is that of k - 1 files and the lines of the k-th.
LEMMA TextGrows ==
    ASSUME Concatenating
    PROVE  /\ Text(0) = << >>
           /\ \A k \in 0..Len(Selected) : Text(k) \in Seq(Line)
           /\ \A k \in 1..Len(Selected) : Text(k) = Text(k - 1) \o Lines(k, Printed(k))
<1>. DEFINE N == Len(Selected)
            piece(n) == Lines(n, Printed(n))
            F == [n \in 1..N |-> [s \in Seq(Line) |-> s \o piece(n)]]
<1>1. N \in Nat
  BY UnzipGiven DEF Concatenating
<1>2. \A n \in 1..N : piece(n) \in Seq(Line)
  <2>. SUFFICES ASSUME NEW n \in 1..N PROVE Lines(n, Printed(n)) \in Seq(Line)
    OBVIOUS
  <2>1. Printed(n) \in Nat /\ n \in Nat /\ << >> \in Seq(Line)
    BY <1>1, PrintedType
  <2>. QED
    BY <2>1, LinesGrow
<1>. HIDE DEF piece
<1>3. F \in [1..N -> [Seq(Line) -> Seq(Line)]]
  <2>1. \A n \in 1..N : \A s \in Seq(Line) : s \o piece(n) \in Seq(Line)
    BY <1>2
  <2>. QED
    BY <2>1
<1>4. PICK h \in [0..N -> Seq(Line)] : Follows(N, << >>, F, h)
  <2>1. << >> \in Seq(Line)
    OBVIOUS
  <2>. HIDE DEF N, F
  <2>. QED
    BY <1>1, <1>3, <2>1, StepByStep
<1>5. h[0] = << >> /\ \A n \in 1..N : h[n] = h[n - 1] \o piece(n)
  <2>1. h[0] = << >> /\ \A n \in 1..N : h[n] = F[n][h[n - 1]]
    BY <1>4 DEF Follows
  <2>2. \A n \in 1..N : h[n - 1] \in Seq(Line)
    <3>1. \A n \in 1..N : n - 1 \in 0..N
      BY <1>1
    <3>. QED
      BY <3>1
  <2>3. \A n \in 1..N : F[n][h[n - 1]] = h[n - 1] \o piece(n)
    BY <2>2
  <2>. QED
    BY <2>1, <2>3, Zenon
<1>. HIDE DEF F
<1>6. ASSUME NEW k \in 0..N PROVE Text(k) = h[k]
  <2>. DEFINE seqs == [n \in 1..k |-> piece(n)]
              u == [n \in 0..k |-> h[n]]
  <2>1. k \in Nat /\ 1..k \subseteq 1..N /\ 0..k \subseteq 0..N
    BY <1>1
  <2>2. seqs \in Seq(Seq(Line)) /\ Len(seqs) = k /\ \A n \in 1..k : seqs[n] = piece(n)
    BY <1>2, <2>1
  <2>3. Text(k) = FlattenSeq(seqs)
    BY DEF Text, piece, Lines
  <2>. HIDE DEF seqs
  <2>4. u \in [0..k -> Seq(Line)] /\ u[0] = << >> /\ u[k] = h[k]
    BY <1>5, <2>1
  <2>5. ASSUME NEW n \in 1..k PROVE u[n] = u[n - 1] \o seqs[n]
    <3>1. n \in 1..N /\ n - 1 \in 0..k /\ n \in 0..k
      BY <2>1
    <3>2. u[n] = h[n] /\ u[n - 1] = h[n - 1]
      BY <3>1
    <3>. HIDE DEF u
    <3>. QED
      BY <1>5, <2>2, <3>1, <3>2, Zenon
  <2>. HIDE DEF u
  <2>6. FlattenSeq(seqs) = u[Len(seqs)]
    BY <2>2, <2>4, <2>5, Flattened
  <2>. QED
    BY <2>2, <2>3, <2>4, <2>6
<1>7. ASSUME NEW k \in 1..N PROVE Text(k) = Text(k - 1) \o piece(k)
  <2>1. k \in 0..N /\ k - 1 \in 0..N
    BY <1>1
  <2>. QED
    BY <1>5, <1>6, <2>1
<1>8. 0 \in 0..N
  BY <1>1
<1>. QED
  BY <1>5, <1>6, <1>7, <1>8 DEF piece

\* What was printed is what the text starts with.
LEMMA TextStarts ==
    ASSUME Concatenating, NEW k \in 1..Len(Selected), NEW m \in 0..Printed(k)
    PROVE  /\ Text(k - 1) \o Lines(k, m) \in Seq(Line)
           /\ IsPrefix(Text(k - 1) \o Lines(k, m), Text(Len(Selected)))
<1>. DEFINE N == Len(Selected)
            s == Text(k - 1) \o Lines(k, m)
            P == {d \in 0..N - k : Starts(s, Text(k + d))}
<1>1. N \in Nat /\ Printed(k) \in Nat /\ m \in Nat /\ k \in Nat /\ k - 1 \in 0..N /\ k \in 1..N
  BY PrintedType, UnzipGiven DEF Concatenating
<1>2. Text(k - 1) \in Seq(Line) /\ Lines(k, m) \in Seq(Line) /\ Len(Lines(k, m)) = m
      /\ Lines(k, Printed(k)) \in Seq(Line) /\ Len(Lines(k, Printed(k))) = Printed(k)
  <2>1. << >> \in Seq(Line)
    OBVIOUS
  <2>. QED
    BY <1>1, <2>1, TextGrows, LinesGrow
<1>3. s \in Seq(Line) /\ Starts(s, Text(k))
  <2>1. Text(k) = Text(k - 1) \o Lines(k, Printed(k))
    BY TextGrows
  <2>. DEFINE t == Text(k - 1)
              a == Lines(k, m)
              b == Lines(k, Printed(k))
  <2>2. m <= Printed(k) /\ \A i \in 1..m : b[i] = a[i]
    BY <1>1 DEF Lines
  <2>3. t \in Seq(Line) /\ a \in Seq(Line) /\ b \in Seq(Line) /\ Len(a) <= Len(b) /\ \A i \in 1..Len(a) : b[i] = a[i]
    BY <1>1, <1>2, <2>2
  <2>. HIDE DEF t, a, b
  <2>4. t \o a \in Seq(Line) /\ Starts(t \o a, t \o b)
    BY <2>3 DEF Starts
  <2>. QED
    BY <2>1, <2>4 DEF t, a, b
<1>. HIDE DEF s
<1>4. \A i \in 0..N : Text(i) \in Seq(Line)
  BY TextGrows
<1>5. 0 \in P
  BY <1>1, <1>3
<1>6. ASSUME NEW d \in 1..N - k, d - 1 \in P PROVE d \in P
  <2>1. k + d \in 1..N /\ k + (d - 1) = (k + d) - 1 /\ d \in 0..N - k /\ k + d \in 0..N /\ (k + d) - 1 \in 0..N
        /\ k + d \in Nat
    BY <1>1
  <2>. DEFINE t == Text((k + d) - 1)
              b == Lines(k + d, Printed(k + d))
  <2>2. Text(k + d) = t \o b
    BY <2>1, TextGrows
  <2>3. Starts(s, t)
    BY <1>6, <2>1
  <2>4. b \in Seq(Line)
    <3>1. Printed(k + d) \in Nat /\ << >> \in Seq(Line)
      BY <2>1, PrintedType
    <3>. QED
      BY <2>1, <3>1, LinesGrow
  <2>5. t \in Seq(Line)
    BY <1>4, <2>1
  <2>. HIDE DEF t, b
  <2>6. Starts(s, t \o b)
    BY <1>3, <2>3, <2>4, <2>5 DEF Starts
  <2>. QED
    BY <2>1, <2>2, <2>6
<1>. HIDE DEF P
<1>7. \A d \in 0..N - k : d \in P
  <2>1. N - k \in Nat
    BY <1>1
  <2>. DEFINE z == N - k
  <2>2. z \in Nat /\ 0 \in P /\ \A d \in 1..z : d - 1 \in P => d \in P
    BY <1>5, <1>6, <2>1
  <2>. HIDE DEF z
  <2>3. \A d \in 0..z : d \in P
    BY <2>2, UpFromZero
  <2>. QED
    BY <2>3 DEF z
<1>8. Starts(s, Text(N))
  <2>1. N - k \in 0..N - k /\ k + (N - k) = N
    BY <1>1
  <2>. QED
    BY <1>7, <2>1 DEF P
<1>9. Text(N) \in Seq(Line)
  BY <1>1, <1>4
<1>. DEFINE t == Text(N)
<1>. HIDE DEF t
<1>10. IsPrefix(s, t)
  <2>1. Len(s) <= Len(t) /\ \A i \in 1..Len(s) : t[i] = s[i]
    BY <1>8 DEF Starts, t
  <2>2. s \in Seq(Line) /\ t \in Seq(Line)
    BY <1>3, <1>9 DEF t
  <2>3. SubSeq(s, 1, Len(s)) = SubSeq(t, 1, Len(s))
    BY <2>1, <2>2
  <2>. QED
    BY <2>1, <2>3 DEF IsPrefix
<1>. QED
  BY <1>3, <1>10 DEF s, t

\* bcat has printed the text of the files before this one, and this one up to
\* here.
LEMMA CatRuns ==
    ASSUME IInv, pc = "cat"
    PROVE  /\ Concatenating /\ program.name = "bunzip" /\ WrittenInv
           /\ Len(Selected) \in Nat \ {0} /\ j \in 1..Len(Selected) + 1 /\ at \in Nat \ {0}
           /\ rbufs \in [Files -> ReadBuf]
           /\ out = Text(j - 1) \o Lines(j, at - 1)
           /\ \A n \in 1..j - 1 : ~Fatal(n)
           /\ \A f \in Files : (j <= Len(Selected) => f # Selected[j]) => rbufs[f] = RbufInit
           /\ j > Len(Selected) => at = 1
           /\ j <= Len(Selected) =>
                /\ j \in 1..Len(Selected) /\ Selected[j] \in Files
                /\ ReadUpTo(rbufs[Selected[j]], Selected[j], at - 1) /\ at - 1 \in 0..Printed(j)
<1>1. Concatenating /\ program.name = "bunzip" /\ CatInv /\ WrittenInv
  <2>1. program.name = "bunzip" /\ pc = program.then /\ Unzipping /\ TypeOK /\ CatInv /\ WrittenInv
    BY Reads
  <2>. QED
    BY <2>1 DEF Concatenating
<1>2. Len(Selected) \in Nat \ {0}
  BY <1>1, UnzipGiven DEF Concatenating
<1>3. at \in Nat \ {0} /\ j \in Nat \ {0} /\ rbufs \in [Files -> ReadBuf]
  BY <1>1 DEF Concatenating, TypeOK
<1>4. /\ j <= Len(Selected) + 1
      /\ out = Text(j - 1) \o Lines(j, at - 1)
      /\ \A n \in 1..j - 1 : ~Fatal(n)
      /\ \A f \in Files : (j <= Len(Selected) => f # Selected[j]) => rbufs[f] = RbufInit
      /\ IF j > Len(Selected) THEN at = 1
         ELSE ReadUpTo(rbufs[Selected[j]], Selected[j], at - 1) /\ at - 1 <= Printed(j)
  <2>1. program.then = "cat"
    BY <1>1 DEF Concatenating
  <2>. QED
    BY <1>1, <2>1, Zenon DEF CatInv, Lines
<1>5. j \in 1..Len(Selected) + 1
  BY <1>2, <1>3, <1>4
<1>6. ASSUME j <= Len(Selected)
      PROVE  /\ j \in 1..Len(Selected) /\ Selected[j] \in Files
             /\ ReadUpTo(rbufs[Selected[j]], Selected[j], at - 1) /\ at - 1 \in 0..Printed(j)
  <2>1. j \in 1..Len(Selected) /\ ~(j > Len(Selected))
    BY <1>2, <1>3, <1>6
  <2>2. Selected[j] \in Files /\ Printed(j) \in Nat
    BY <1>1, <2>1, PrintedType
  <2>3. at - 1 \in 0..Printed(j)
    BY <1>3, <1>4, <2>1, <2>2
  <2>. QED
    BY <1>4, <2>1, <2>2, <2>3
<1>. QED
  BY <1>1, <1>2, <1>3, <1>4, <1>5, <1>6

\* A step of bcat leaves the text as it is, and keeps the invariant if what
\* was printed is still the text up to here.
LEMMA CatGoesOn ==
    ASSUME IInv, pc = "cat", UNCHANGED <<input, run, wbufs, torn, exists, whole>>,
           at' \in Nat \ {0}, j' \in 1..Len(Selected) + 1, rbufs' \in [Files -> ReadBuf],
           pc' \in {"cat", "done", "died"},
           IF pc' = "done"
           THEN /\ out' = IF Text(Len(Selected)) = << >> THEN <<<<0, 0>>>> ELSE Text(Len(Selected))
                /\ \A n \in 1..Len(Selected) : ~Fatal(n)
           ELSE /\ out' = Text(j' - 1) \o Lines(j', at' - 1)
                /\ j' <= Len(Selected) => at' - 1 \in 0..Printed(j'),
           pc' = "died" => j' <= Len(Selected) /\ Fatal(j'),
           pc' = "cat" =>
             /\ \A n \in 1..j' - 1 : ~Fatal(n)
             /\ \A f \in Files : (j' <= Len(Selected) => f # Selected[j']) => rbufs'[f] = RbufInit
             /\ IF j' > Len(Selected) THEN at' = 1
                ELSE ReadUpTo(rbufs'[Selected[j']], Selected[j'], at' - 1)
    PROVE  IInv'
<1>. DEFINE N == Len(Selected)
            text == Text(N)
<1>1. Concatenating /\ program.name = "bunzip" /\ N \in Nat \ {0} /\ program.then = "cat"
      /\ rows # << >>
  BY CatRuns, Reads DEF Concatenating
<1>2. /\ TypeOK' /\ UnzipInv' /\ Files' = Files /\ program' = program /\ rows' = rows /\ torn' = torn
      /\ wbufs' = wbufs
      /\ \A f : /\ (RowCount(f))' = RowCount(f) /\ (RowsIn(f))' = RowsIn(f)
                /\ (ColumnTable(f))' = ColumnTable(f)
  <2>1. j' \in Nat \ {0} /\ pc' \in {program.then, "done", "died"} /\ pc \in {"zip", "cat"}
    BY <1>1
  <2>. QED
    BY <2>1, ReadsOn
<1>3. Selected' = Selected
  BY <1>2 DEF Selected
<1>4. /\ \A k : (Printed(k))' = Printed(k) /\ (Fatal(k))' = Fatal(k)
      /\ \A rb, f, n : (ReadUpTo(rb, f, n))' = ReadUpTo(rb, f, n)
  BY <1>2, <1>3, SMTT(30) DEF Printed, Fatal, ReadUpTo
<1>5. \A k : (Text(k))' = Text(k)
  BY <1>2 DEF Text, Printed, RowsIn, Selected
<1>6. ASSUME pc' # "done" PROVE IsPrefix(out', text)
  <2>1. out' = Text(j' - 1) \o Lines(j', at' - 1) /\ (j' <= N => at' - 1 \in 0..Printed(j'))
    BY <1>6
  <2>2. CASE j' <= N
    <3>1. j' \in 1..N
      <4>. HIDE DEF text
      <4>. QED
        BY <1>1, <2>2
    <3>2. at' - 1 \in 0..Printed(j')
      BY <2>1, <2>2
    <3>. QED
      BY <1>1, <2>1, <3>1, <3>2, TextStarts
  <2>3. CASE ~(j' <= N)
    <3>1. j' = N + 1 /\ at' = 1
      <4>1. pc' = "cat"
        BY <1>6, <2>3
      <4>2. j' \in 1..N + 1
        OBVIOUS
      <4>. HIDE DEF N
      <4>3. j' = N + 1 /\ j' > N
        BY <1>1, <2>3, <4>2
      <4>4. IF j' > N THEN at' = 1
            ELSE ReadUpTo(rbufs'[Selected[j']], Selected[j'], at' - 1)
        BY <4>1 DEF N
      <4>. QED
        BY <4>3, <4>4
    <3>2. out' = text
      <4>1. text \in Seq(Line)
        BY <1>1, TextGrows
      <4>2. (N + 1) - 1 = N /\ 1 - 1 = 0 /\ N + 1 \in Nat
        BY <1>1
      <4>3. text \o Lines(N + 1, 0) = text
        BY <4>1, <4>2, LinesGrow
      <4>. HIDE DEF N
      <4>. QED
        BY <2>1, <3>1, <4>2, <4>3
    <3>. QED
      BY <3>2 DEF IsPrefix
  <2>. QED
    BY <2>2, <2>3
<1>. HIDE DEF N, text
<1>7. CatsHeads'
  <2>1. (pc = "cat" => IsPrefix(out, Text(Len(Selected))))'
    BY <1>3, <1>5, <1>6 DEF N, text
  <2>2. (pc = "done" /\ rows # << >> =>
           /\ out = IF Text(Len(Selected)) = << >> THEN <<<<0, 0>>>> ELSE Text(Len(Selected))
           /\ \A n \in 1..Len(Selected) : ~Fatal(n))'
    BY <1>3, <1>4, <1>5
  <2>3. (pc = "died" => Fatal(j) /\ IsPrefix(out, Text(Len(Selected))))'
    BY <1>3, <1>4, <1>5, <1>6 DEF N, text
  <2>. QED
    BY <2>1, <2>2, <2>3 DEF CatsHeads
<1>8. CatInv'
  <2>1. ASSUME pc' = "cat"
        PROVE  (/\ j <= Len(Selected) + 1
                /\ out = Text(j - 1) \o [i \in 1..at - 1 |-> <<j, i>>]
                /\ \A n \in 1..j - 1 : ~Fatal(n)
                /\ \A f \in Files : (j <= Len(Selected) => f # Selected[j]) => rbufs[f] = RbufInit
                /\ IF j > Len(Selected) THEN at = 1
                   ELSE ReadUpTo(rbufs[Selected[j]], Selected[j], at - 1) /\ at - 1 <= Printed(j))'
    <3>1. j' <= Len(Selected) + 1
      BY <1>1 DEF N
    <3>2. out' = (Text(j - 1))' \o [i \in 1..at' - 1 |-> <<j', i>>]
      BY <1>5, <2>1 DEF Lines
    <3>3. j' > Len(Selected) \/ j' <= Len(Selected)
      BY <1>1 DEF N
    <3>4. j' <= Len(Selected) => at' - 1 <= Printed(j')
      <4>1. ASSUME j' <= Len(Selected) PROVE at' - 1 <= Printed(j')
        <5>1. at' - 1 \in 0..Printed(j')
          BY <2>1, <4>1
        <5>2. j' \in 1..Len(Selected)
          BY <1>1, <4>1 DEF N
        <5>3. Printed(j') \in Nat
          BY <1>1, <5>2, PrintedType
        <5>. QED
          BY <5>1, <5>3
      <4>. QED
        BY <4>1
    <3>. QED
      BY <1>2, <1>3, <1>4, <2>1, <3>1, <3>2, <3>3, <3>4
  <2>. QED
    BY <1>7, <2>1 DEF CatInv
<1>9. ZipInv'
  BY <1>1, <1>2 DEF ZipInv
<1>. QED
  BY <1>1, <1>2, <1>8, <1>9 DEF IInv

\* What bcat loads next.
LEMMA CatLoads ==
    ASSUME IInv, Cats
    PROVE  LET f == Selected[j]
           IN  /\ pc = "cat" /\ f \in Files /\ j \in 1..Len(Selected) /\ Len(Selected) \in Nat
               /\ program.head \in Nat
               /\ at \in Nat \ {0} /\ at - 1 \in Nat /\ at - 1 <= Printed(j) /\ at - 1 <= RowsIn(f)
               /\ RowsIn(f) \in Nat
               /\ Printed(j) = IF program.head = 0 \/ RowsIn(f) < program.head
                               THEN RowsIn(f) ELSE program.head
               /\ CatLoad.rbuf \in ReadBuf
               /\ IF at - 1 < RowsIn(f)
                  THEN CatLoad.outcome = "row" /\ CatLoad.row = at /\ ReadUpTo(CatLoad.rbuf, f, at)
                  ELSE CatLoad.outcome = IF torn[f] # << >> THEN "fatal" ELSE "stop"
<1>. DEFINE f == Selected[j]
            n == at - 1
<1>1. pc = "cat" /\ j <= Len(Selected)
  BY DEF Cats
<1>2. /\ Concatenating /\ WrittenInv /\ Len(Selected) \in Nat /\ at \in Nat \ {0} /\ rbufs \in [Files -> ReadBuf]
      /\ j \in 1..Len(Selected) /\ f \in Files /\ ReadUpTo(rbufs[f], f, n) /\ n \in 0..Printed(j)
  BY <1>1, CatRuns
<1>3. /\ RowsIn(f) \in Nat /\ program.head \in Nat /\ Printed(j) \in Nat
      /\ Printed(j) = IF program.head = 0 \/ RowsIn(f) < program.head THEN RowsIn(f) ELSE program.head
  BY <1>2, PrintedType
<1>4. rbufs[f] \in ReadBuf /\ CatLoad = LoadColumn(rbufs[f], f) /\ n + 1 = at
  BY <1>2 DEF CatLoad
<1>. HIDE DEF f, n
<1>5. LET l == CatLoad
      IN  /\ RowsIn(f) = RowCount(f) /\ n \in 0..RowCount(f) /\ l.rbuf \in ReadBuf
          /\ IF n < RowCount(f) THEN l.outcome = "row" /\ l.row = n + 1 /\ ReadUpTo(l.rbuf, f, n + 1)
             ELSE l.outcome = IF torn[f] # << >> THEN "fatal" ELSE "stop"
  <2>1. Unzipping /\ TypeOK
    BY <1>2 DEF Concatenating
  <2>. QED
    BY <1>2, <1>4, <2>1, ColumnLoads
<1>6. n \in Nat /\ n <= Printed(j) /\ n <= RowsIn(f)
  BY <1>2, <1>3, <1>5
<1>7. IF n < RowsIn(f)
      THEN CatLoad.outcome = "row" /\ CatLoad.row = at /\ ReadUpTo(CatLoad.rbuf, f, at)
      ELSE CatLoad.outcome = IF torn[f] # << >> THEN "fatal" ELSE "stop"
  BY <1>4, <1>5, Zenon
<1>. QED
  BY <1>1, <1>2, <1>3, <1>5, <1>6, <1>7 DEF f, n

\* A row is printed.
LEMMA CatRowStep ==
    ASSUME IInv, CatRow
    PROVE  IInv'
<1>. DEFINE f == Selected[j]
<1>1. /\ Cats /\ CatLoad.outcome = "row" /\ ~(program.head # 0 /\ at > program.head)
      /\ out' = Append(out, <<j, CatLoad.row>>) /\ rbufs' = [rbufs EXCEPT ![f] = CatLoad.rbuf]
      /\ at' = at + 1 /\ j' = j /\ pc' = pc
      /\ UNCHANGED <<input, run, wbufs, torn, exists, whole>>
  BY Zenon DEF CatRow, HeadReached
<1>2. /\ pc = "cat" /\ f \in Files /\ j \in 1..Len(Selected) /\ Len(Selected) \in Nat
      /\ program.head \in Nat /\ at \in Nat \ {0} /\ at - 1 \in Nat
      /\ at - 1 <= RowsIn(f) /\ RowsIn(f) \in Nat
      /\ Printed(j) = IF program.head = 0 \/ RowsIn(f) < program.head THEN RowsIn(f) ELSE program.head
      /\ CatLoad.rbuf \in ReadBuf
      /\ IF at - 1 < RowsIn(f)
         THEN CatLoad.outcome = "row" /\ CatLoad.row = at /\ ReadUpTo(CatLoad.rbuf, f, at)
         ELSE CatLoad.outcome = IF torn[f] # << >> THEN "fatal" ELSE "stop"
  BY <1>1, CatLoads
<1>3. /\ rbufs \in [Files -> ReadBuf] /\ Concatenating
      /\ out = Text(j - 1) \o Lines(j, at - 1)
      /\ \A n \in 1..j - 1 : ~Fatal(n)
      /\ \A g \in Files : (j <= Len(Selected) => g # f) => rbufs[g] = RbufInit
  BY <1>2, CatRuns
<1>. HIDE DEF f
<1>4. at - 1 < RowsIn(f) /\ CatLoad.row = at /\ ReadUpTo(CatLoad.rbuf, f, at)
  BY <1>1, <1>2
<1>5. at' \in Nat \ {0} /\ at' - 1 = at /\ at \in 0..Printed(j) /\ (at - 1) + 1 = at
      /\ j \in Nat /\ j <= Len(Selected) /\ ~(j > Len(Selected)) /\ j - 1 \in 0..Len(Selected)
  BY <1>1, <1>2, <1>4
<1>6. rbufs' \in [Files -> ReadBuf] /\ rbufs'[f] = CatLoad.rbuf /\ \A g \in Files : g # f => rbufs'[g] = rbufs[g]
  BY <1>1, <1>2, <1>3
<1>7. out' = Text(j' - 1) \o Lines(j', at' - 1)
  <2>1. Text(j - 1) \in Seq(Line)
    BY <1>3, <1>5, TextGrows
  <2>. DEFINE t == Text(j - 1)
              m == at - 1
  <2>2. t \in Seq(Line) /\ m \in Nat /\ j \in Nat /\ m + 1 = at
    BY <1>2, <1>5, <2>1
  <2>3. out' = Append(t \o Lines(j, m), <<j, at>>)
    BY <1>1, <1>3, <1>4
  <2>4. Text(j' - 1) \o Lines(j', at' - 1) = t \o Lines(j, at)
    BY <1>1, <1>5
  <2>. HIDE DEF t, m
  <2>5. Append(t \o Lines(j, m), <<j, m + 1>>) = t \o Lines(j, m + 1)
    BY <2>2, LinesGrow
  <2>. QED
    BY <2>2, <2>3, <2>4, <2>5
<1>8. /\ \A n \in 1..j' - 1 : ~Fatal(n)
      /\ \A g \in Files : (j' <= Len(Selected) => g # Selected[j']) => rbufs'[g] = RbufInit
      /\ IF j' > Len(Selected) THEN at' = 1
         ELSE ReadUpTo(rbufs'[Selected[j']], Selected[j'], at' - 1)
  <2>1. f = Selected[j'] /\ j' = j
    BY <1>1 DEF f
  <2>. QED
    BY <1>3, <1>4, <1>5, <1>6, <2>1
<1>9. /\ j' \in 1..Len(Selected) + 1 /\ pc' = "cat" /\ (j' <= Len(Selected) => at' - 1 \in 0..Printed(j'))
      /\ pc' # "done" /\ pc' # "died"
  BY <1>1, <1>2, <1>5
<1>10. UNCHANGED <<input, run, wbufs, torn, exists, whole>>
  BY <1>1
<1>. QED
  BY <1>2, <1>5, <1>6, <1>7, <1>8, <1>9, <1>10, CatGoesOn

\* A file has ended, or its head has.
LEMMA CatNextFileStep ==
    ASSUME IInv, CatNextFile
    PROVE  IInv'
<1>. DEFINE f == Selected[j]
<1>1. /\ Cats
      /\ CatLoad.outcome = "stop" \/ (CatLoad.outcome = "row" /\ program.head # 0 /\ at > program.head)
      /\ rbufs' = [rbufs EXCEPT ![f] = RbufInit]
      /\ at' = 1 /\ j' = j + 1 /\ pc' = pc /\ out' = out
      /\ UNCHANGED <<input, run, wbufs, torn, exists, whole>>
  BY Zenon DEF CatNextFile, HeadReached
<1>2. /\ pc = "cat" /\ f \in Files /\ j \in 1..Len(Selected) /\ Len(Selected) \in Nat
      /\ program.head \in Nat /\ at \in Nat \ {0} /\ at - 1 \in Nat
      /\ at - 1 <= Printed(j) /\ at - 1 <= RowsIn(f) /\ RowsIn(f) \in Nat
      /\ Printed(j) = IF program.head = 0 \/ RowsIn(f) < program.head THEN RowsIn(f) ELSE program.head
      /\ IF at - 1 < RowsIn(f) THEN CatLoad.outcome = "row"
         ELSE CatLoad.outcome = IF torn[f] # << >> THEN "fatal" ELSE "stop"
  BY <1>1, CatLoads
<1>3. /\ rbufs \in [Files -> ReadBuf] /\ Concatenating /\ WrittenInv
      /\ out = Text(j - 1) \o Lines(j, at - 1)
      /\ \A n \in 1..j - 1 : ~Fatal(n)
      /\ \A g \in Files : (j <= Len(Selected) => g # f) => rbufs[g] = RbufInit
  BY <1>2, CatRuns
<1>4. at - 1 = Printed(j) /\ ~Fatal(j)
  <2>. DEFINE all == RowsIn(f)
              h == program.head
  <2>1. Fatal(j) <=> torn[f] # << >> /\ (h = 0 \/ all <= h)
    BY DEF Fatal
  <2>. HIDE DEF all, h, f
  <2>2. CASE CatLoad.outcome = "stop"
    <3>1. ~(at - 1 < all) /\ torn[f] = << >>
      BY <1>2, <2>2 DEF all
    <3>2. at - 1 = Printed(j)
      BY <1>2, <3>1 DEF all
    <3>. QED
      BY <2>1, <3>1, <3>2
  <2>3. CASE CatLoad.outcome = "row" /\ h # 0 /\ at > h
    <3>1. at - 1 < all
      BY <1>2, <2>3 DEF all
    <3>2. h \in Nat /\ all \in Nat /\ Printed(j) = IF h = 0 \/ all < h THEN all ELSE h
      BY <1>2 DEF all, h
    <3>3. at - 1 = Printed(j) /\ ~(all <= h)
      BY <1>2, <2>3, <3>1, <3>2
    <3>. QED
      BY <2>1, <2>3, <3>3
  <2>. QED
    BY <1>1, <2>2, <2>3 DEF h
<1>. HIDE DEF f
<1>5. at' \in Nat \ {0} /\ at' - 1 = 0 /\ (j + 1) - 1 = j /\ j' \in 1..Len(Selected) + 1 /\ j' - 1 = j
      /\ j \in Nat /\ j' \in Nat /\ j <= Len(Selected) /\ j \in 0..Len(Selected)
  BY <1>1, <1>2
<1>6. RbufInit \in ReadBuf
  BY FormatAssumption DEF RbufInit, ReadBuf
<1>7. rbufs' \in [Files -> ReadBuf] /\ \A g \in Files : rbufs'[g] = RbufInit
  BY <1>1, <1>2, <1>3, <1>5, <1>6
<1>8. out' = Text(j' - 1) \o Lines(j', at' - 1)
  <2>1. Text(j) = Text(j - 1) \o Lines(j, Printed(j)) /\ Text(j) \in Seq(Line)
    BY <1>2, <1>3, <1>5, TextGrows
  <2>2. Text(j) \o Lines(j', 0) = Text(j)
    BY <1>5, <2>1, LinesGrow
  <2>. QED
    BY <1>1, <1>3, <1>4, <1>5, <2>1, <2>2
<1>9. ASSUME j' <= Len(Selected)
      PROVE  ReadUpTo(rbufs'[Selected[j']], Selected[j'], 0) /\ 0 \in 0..Printed(j')
  <2>. DEFINE g == Selected[j']
  <2>1. j' \in 1..Len(Selected)
    BY <1>5, <1>9
  <2>2. g \in Files /\ Printed(j') \in Nat
    BY <1>3, <2>1, PrintedType
  <2>. HIDE DEF g
  <2>3. /\ RowCount(g) \in 0..Len(rows) /\ HoldsRows(ColumnTable(g), wbufs[g].file, 1, RowCount(g))
    BY <1>3, <2>2 DEF WrittenInv
  <2>4. Len(ColumnTable(g)) = Len(rows) /\ Len(rows) \in Nat
    BY <1>3, <2>2, ColumnTableType, UnzipGiven DEF Concatenating
  <2>5. /\ ~RbufInit.dead /\ RbufInit.next = 0 /\ 0 \in 0..Len(wbufs[g].file)
        /\ UpcomingTo(ColumnTable(g), wbufs[g].file, RbufInit, RowCount(g), 0 + 1)
    BY <2>3, <2>4, FirstUpcoming
  <2>6. 0 \in 0..RowCount(g)
    BY <2>3, <2>4
  <2>7. ReadUpTo(RbufInit, g, 0)
    BY <2>5, <2>6 DEF ReadUpTo
  <2>8. rbufs'[g] = RbufInit
    BY <1>7, <2>2
  <2>. QED
    BY <2>2, <2>7, <2>8 DEF g
<1>10. /\ \A n \in 1..j' - 1 : ~Fatal(n)
       /\ \A g \in Files : (j' <= Len(Selected) => g # Selected[j']) => rbufs'[g] = RbufInit
       /\ IF j' > Len(Selected) THEN at' = 1
          ELSE ReadUpTo(rbufs'[Selected[j']], Selected[j'], at' - 1)
  <2>1. \A n \in 1..j : n \in 1..j - 1 \/ n = j
    BY <1>5
  <2>2. ~(j' > Len(Selected)) => j' <= Len(Selected)
    BY <1>2, <1>5
  <2>. QED
    BY <1>1, <1>3, <1>4, <1>5, <1>7, <1>9, <2>1, <2>2
<1>11. pc' = "cat" /\ pc' # "done" /\ pc' # "died" /\ (j' <= Len(Selected) => at' - 1 \in 0..Printed(j'))
  BY <1>1, <1>2, <1>5, <1>9
<1>12. UNCHANGED <<input, run, wbufs, torn, exists, whole>>
  BY <1>1
<1>. QED
  BY <1>2, <1>5, <1>7, <1>8, <1>10, <1>11, <1>12, CatGoesOn

\* bcat comes to a short chunk.
LEMMA CatDiesStep ==
    ASSUME IInv, CatDies
    PROVE  IInv'
<1>. DEFINE f == Selected[j]
<1>1. /\ Cats /\ CatLoad.outcome = "fatal" /\ pc' = "died"
      /\ at' = at /\ j' = j /\ rbufs' = rbufs /\ out' = out
      /\ UNCHANGED <<input, run, wbufs, torn, exists, whole>>
  BY Zenon DEF CatDies
<1>2. /\ pc = "cat" /\ j \in 1..Len(Selected) /\ Len(Selected) \in Nat
      /\ program.head \in Nat /\ at \in Nat \ {0}
      /\ at - 1 <= Printed(j) /\ at - 1 <= RowsIn(f) /\ RowsIn(f) \in Nat
      /\ Printed(j) = IF program.head = 0 \/ RowsIn(f) < program.head THEN RowsIn(f) ELSE program.head
      /\ IF at - 1 < RowsIn(f) THEN CatLoad.outcome = "row"
         ELSE CatLoad.outcome = IF torn[f] # << >> THEN "fatal" ELSE "stop"
  BY <1>1, CatLoads
<1>3. /\ rbufs \in [Files -> ReadBuf] /\ out = Text(j - 1) \o Lines(j, at - 1) /\ at - 1 \in 0..Printed(j)
  BY <1>2, CatRuns
<1>4. Fatal(j)
  <2>. DEFINE all == RowsIn(f)
              h == program.head
  <2>1. Fatal(j) <=> torn[f] # << >> /\ (h = 0 \/ all <= h)
    BY DEF Fatal
  <2>. HIDE DEF all, h, f
  <2>2. ~(at - 1 < all) /\ torn[f] # << >>
    BY <1>1, <1>2 DEF all
  <2>3. h = 0 \/ all <= h
    BY <1>2, <2>2 DEF all, h
  <2>. QED
    BY <2>1, <2>2, <2>3
<1>5. /\ at' \in Nat \ {0} /\ j' \in 1..Len(Selected) + 1 /\ rbufs' \in [Files -> ReadBuf]
      /\ out' = Text(j' - 1) \o Lines(j', at' - 1) /\ (j' <= Len(Selected) => at' - 1 \in 0..Printed(j'))
      /\ j' <= Len(Selected) /\ Fatal(j')
      /\ UNCHANGED <<input, run, wbufs, torn, exists, whole>>
      /\ pc' = "died" /\ pc' # "done" /\ pc' # "cat"
  BY <1>1, <1>2, <1>3, <1>4
<1>. QED
  BY <1>2, <1>5, CatGoesOn

\* All the files were printed.
LEMMA CatEndStep ==
    ASSUME IInv, CatEnd
    PROVE  IInv'
<1>. DEFINE N == Len(Selected)
<1>1. /\ pc = "cat" /\ j > N /\ pc' = "done"
      /\ out' = IF out = << >> THEN <<<<0, 0>>>> ELSE out
      /\ at' = at /\ j' = j /\ rbufs' = rbufs
      /\ UNCHANGED <<input, run, wbufs, torn, exists, whole>>
  BY Zenon DEF CatEnd
<1>2. /\ Concatenating /\ N \in Nat \ {0} /\ j \in 1..N + 1 /\ at = 1 /\ rbufs \in [Files -> ReadBuf]
      /\ out = Text(j - 1) \o Lines(j, at - 1) /\ \A n \in 1..j - 1 : ~Fatal(n)
  BY <1>1, CatRuns
<1>3. Text(N) \in Seq(Line)
  BY <1>2, TextGrows
<1>. HIDE DEF N
<1>4. j = N + 1 /\ j - 1 = N /\ at - 1 = 0 /\ j \in Nat /\ 0 \in Nat
  BY <1>1, <1>2
<1>5. out = Text(N)
  BY <1>2, <1>3, <1>4, LinesGrow
<1>6. /\ at' \in Nat \ {0} /\ j' \in 1..N + 1 /\ rbufs' \in [Files -> ReadBuf]
      /\ out' = IF Text(N) = << >> THEN <<<<0, 0>>>> ELSE Text(N)
      /\ \A n \in 1..N : ~Fatal(n)
      /\ UNCHANGED <<input, run, wbufs, torn, exists, whole>>
      /\ pc' = "done" /\ pc' # "died" /\ pc' # "cat"
  <2>1. \A n \in 1..N : ~Fatal(n)
    BY <1>2, <1>4
  <2>2. at' \in Nat \ {0} /\ j' \in 1..N + 1 /\ rbufs' \in [Files -> ReadBuf]
    BY <1>1, <1>2
  <2>3. out' = IF Text(N) = << >> THEN <<<<0, 0>>>> ELSE Text(N)
    BY <1>1, <1>5
  <2>. QED
    BY <1>1, <2>1, <2>2, <2>3, Zenon
<1>. QED
  BY <1>1, <1>6, CatGoesOn DEF N

-----------------------------------------------------------------------------
\* What the invariant says of bpartition, and the rows of the current run.
LEMMA PartitionParts ==
    ASSUME IInv, program.name = "bpartition"
    PROVE  /\ Partitioning /\ TypeOK /\ PartitionInv
           /\ program.files \in Nat \ {0} /\ Len(rows) \in Nat
           /\ run \in 1..Len(program.ends) /\ Before \in Nat /\ End \in Nat
           /\ Before <= End /\ End <= Len(rows) /\ at \in Nat \ {0} /\ at \in Before + 1..End + 1
<1>1. Partitioning /\ TypeOK /\ PartitionInv
  BY DEF IInv, TypeOK, Partitioning
<1>2. /\ program.files \in Nat \ {0} /\ Len(rows) \in Nat
      /\ Len(program.ends) \in Nat \ {0}
      /\ \A r \in 1..Len(program.ends) : program.ends[r] \in 0..Len(rows)
      /\ \A a, b \in 1..Len(program.ends) : a <= b => program.ends[a] <= program.ends[b]
  BY <1>1, PartitionGiven
<1>3. run \in 1..Len(program.ends) /\ at \in Nat \ {0}
  BY <1>1 DEF TypeOK
<1>4. End \in 0..Len(rows)
  BY <1>2, <1>3 DEF End
<1>5. Before \in Nat /\ Before <= End
  <2>1. CASE run = 1
    BY <1>4, <2>1 DEF Before
  <2>2. CASE run # 1
    <3>1. run - 1 \in 1..Len(program.ends) /\ run - 1 <= run
      BY <1>2, <1>3, <2>2
    <3>2. program.ends[run - 1] \in 0..Len(rows) /\ program.ends[run - 1] <= program.ends[run]
      BY <1>2, <1>3, <3>1
    <3>. QED
      BY <2>2, <3>2 DEF Before, End
  <2>. QED
    BY <2>1, <2>2
<1>. QED
  BY <1>1, <1>2, <1>3, <1>4, <1>5 DEF PartitionInv

\* The run that a row is in.
LEMMA RunOfRow ==
    ASSUME Partitioning, NEW i \in 1..Len(rows)
    PROVE  LET r == RunOf(i)
           IN  /\ r \in 1..Len(program.ends) /\ i <= program.ends[r]
               /\ r > 1 => i > program.ends[r - 1]
<1>. DEFINE ends == program.ends
            T == {r \in 1..Len(ends) : i <= ends[r]}
<1>1. /\ Len(rows) \in Nat /\ Len(ends) \in Nat \ {0} /\ ends[Len(ends)] = Len(rows)
      /\ \A r \in 1..Len(ends) : ends[r] \in 0..Len(rows)
  BY PartitionGiven
<1>. HIDE DEF ends
<1>2. T \subseteq Nat /\ Len(ends) \in T
  BY <1>1
<1>3. PICK m \in T : \A k \in T : m <= k
  BY <1>2, LeastElement
<1>4. m \in 1..Len(ends) /\ i <= ends[m] /\ (m > 1 => i > ends[m - 1])
  <2>1. CASE m > 1
    <3>1. m \in 1..Len(ends) /\ m - 1 \in 1..Len(ends) /\ ~(m <= m - 1)
      BY <1>1, <2>1
    <3>2. ~(i <= ends[m - 1])
      BY <1>3, <3>1
    <3>. QED
      BY <1>1, <3>1, <3>2
  <2>2. CASE ~(m > 1)
    BY <2>2
  <2>. QED
    BY <2>1, <2>2
<1>5. \E r \in 1..Len(ends) : i <= ends[r] /\ (r > 1 => i > ends[r - 1])
  BY <1>4
<1>. QED
  BY <1>5, Zenon DEF RunOf, ends

\* A row of this run was after those of the runs before.
LEMMA RowOfThisRun ==
    ASSUME IInv, program.name = "bpartition", NEW i \in 1..Len(rows), RunOf(i) = run
    PROVE  i \in Before + 1..End
<1>1. /\ Partitioning /\ Before \in Nat /\ End \in Nat /\ run \in 1..Len(program.ends)
      /\ Len(rows) \in Nat
  BY PartitionParts
<1>2. i <= End /\ (run > 1 => i > program.ends[run - 1])
  BY <1>1, RunOfRow DEF End
<1>3. i > Before
  BY <1>1, <1>2 DEF Before
<1>. QED
  BY <1>1, <1>2, <1>3

-----------------------------------------------------------------------------
\* What a sequence starts with is in it.
LEMMA StartsIn ==
    ASSUME NEW s \in Seq(Nat), NEW t \in Seq(Nat), Starts(s, t)
    PROVE  ToSet(s) \subseteq ToSet(t)
<1>1. \A k \in 1..Len(s) : k \in 1..Len(t) /\ t[k] = s[k]
  BY DEF Starts
<1>2. DOMAIN s = 1..Len(s) /\ DOMAIN t = 1..Len(t)
  OBVIOUS
<1>. QED
  BY <1>1, <1>2, Zenon DEF ToSet

\* Every element of a sequence is in its set.
LEMMA IsIn ==
    ASSUME NEW s \in Seq(Nat), NEW k \in 1..Len(s)
    PROVE  s[k] \in ToSet(s)
<1>1. k \in DOMAIN s
  OBVIOUS
<1>. QED
  BY <1>1, Zenon DEF ToSet

\* The chunks of a file that can be read: those up to a short one.
LEMMA ReadableChunks ==
    ASSUME TypeOK, NEW f \in Files
    PROVE  \E n \in 0..Len(wbufs[f].file) :
              /\ n = IF torn[f] = << >> THEN Len(wbufs[f].file) ELSE torn[f][1]
              /\ Readable(f) = SubSeq(wbufs[f].file, 1, n)
              /\ wbufs[f].file \in Seq(Seq(Cell)) /\ wbufs[f] \in WriteBuf
<1>1. wbufs[f] \in WriteBuf /\ wbufs[f].file \in Seq(Seq(Cell))
  BY DEF TypeOK, WriteBuf
<1>2. CASE torn[f] = << >>
  <2>1. Len(wbufs[f].file) \in 0..Len(wbufs[f].file)
    BY <1>1
  <2>2. SubSeq(wbufs[f].file, 1, Len(wbufs[f].file)) = wbufs[f].file
    <3>. DEFINE t == wbufs[f].file
    <3>1. t \in Seq(Seq(Cell))
      BY <1>1
    <3>. HIDE DEF t
    <3>2. SubSeq(t, 1, Len(t)) = t
      BY <3>1
    <3>. QED
      BY <3>2 DEF t
  <2>. QED
    BY <1>1, <1>2, <2>1, <2>2 DEF Readable
<1>3. CASE torn[f] # << >>
  <2>1. torn[f][1] \in 0..Len(wbufs[f].file)
    BY <1>3, Zenon DEF TypeOK
  <2>. QED
    BY <1>1, <1>3, <2>1 DEF Readable
<1>. QED
  BY <1>2, <1>3

\* What one can read of a file can still be read when chunks are appended to
\* it, and when a short chunk is.
LEMMA ReadsMore ==
    ASSUME TypeOK, NEW f \in Files, NEW v \in WriteBuf, NEW w, Extends(wbufs[f].file, v.file),
           NEW t, torn[f] # << >> => t = torn[f],
           torn[f] = << >> /\ t # << >> => t[1] = Len(wbufs[f].file),
           w = IF t = << >> THEN v.file ELSE SubSeq(v.file, 1, t[1])
    PROVE  ToSet(RowsOfFile(Readable(f))) \subseteq ToSet(RowsOfFile(w))
<1>1. PICK n \in 0..Len(wbufs[f].file) :
              /\ n = IF torn[f] = << >> THEN Len(wbufs[f].file) ELSE torn[f][1]
              /\ Readable(f) = SubSeq(wbufs[f].file, 1, n)
              /\ wbufs[f].file \in Seq(Seq(Cell)) /\ wbufs[f] \in WriteBuf
  BY ReadableChunks
<1>. DEFINE file == wbufs[f].file
            file2 == v.file
            m == IF t = << >> THEN Len(file2) ELSE n
<1>2. /\ file \in Seq(Seq(Cell)) /\ file2 \in Seq(Seq(Cell)) /\ Len(file) \in Nat /\ Len(file2) \in Nat
      /\ Len(file) <= Len(file2) /\ \A c \in 1..Len(file) : file2[c] = file[c]
  BY <1>1 DEF WriteBuf, Extends
<1>3. t # << >> => t[1] = n
  BY <1>1
<1>4. Readable(f) = SubSeq(file, 1, n)
  BY <1>1
<1>. HIDE DEF file, file2
<1>5. n \in 0..Len(file2) /\ m \in 0..Len(file2) /\ n <= m
  BY <1>1, <1>2 DEF file
<1>6. w = SubSeq(file2, 1, m) /\ w \in Seq(Seq(Cell)) /\ Len(w) = m /\ \A c \in 1..m : w[c] = file2[c]
  <2>1. w = SubSeq(file2, 1, m)
    <3>1. SubSeq(file2, 1, Len(file2)) = file2
      BY <1>2
    <3>. QED
      BY <1>3, <3>1 DEF file2
  <2>. HIDE DEF m
  <2>2. LET front == SubSeq(file2, 1, m)
        IN  front \in Seq(Seq(Cell)) /\ Len(front) = m /\ \A c \in 1..m : front[c] = file2[c]
    BY <1>2, <1>5, FileStarts
  <2>. QED
    BY <2>1, <2>2
<1>. HIDE DEF m
<1>7. n \in 0..Len(w)
  BY <1>2, <1>5, <1>6
<1>. DEFINE front == SubSeq(w, 1, n)
<1>8. /\ front \in Seq(Seq(Cell)) /\ Len(front) = n /\ \A c \in 1..n : front[c] = w[c]
      /\ RowsOfFile(front) \in Seq(Nat) /\ RowsOfFile(w) \in Seq(Nat)
      /\ Starts(RowsOfFile(front), RowsOfFile(w))
  BY <1>6, <1>7, FileStarts
<1>9. n \in 0..Len(file)
  BY <1>1 DEF file
<1>10. LET first == SubSeq(file, 1, n)
       IN  first \in Seq(Seq(Cell)) /\ Len(first) = n /\ \A c \in 1..n : first[c] = file[c]
  BY <1>2, <1>9, FileStarts
<1>11. Readable(f) = front
  <2>. DEFINE first == SubSeq(file, 1, n)
  <2>1. \A c \in 1..n : front[c] = first[c]
    <3>1. \A c \in 1..n : c \in 1..m /\ c \in 1..Len(file)
      BY <1>2, <1>5, <1>9
    <3>2. \A c \in 1..n : front[c] = w[c] /\ first[c] = file[c]
      BY <1>8, <1>10, Zenon
    <3>3. \A c \in 1..n : w[c] = file2[c] /\ file2[c] = file[c]
      BY <1>2, <1>6, <3>1, Zenon
    <3>. HIDE DEF front, first
    <3>. QED
      BY <3>2, <3>3
  <2>2. front \in Seq(Seq(Cell)) /\ first \in Seq(Seq(Cell)) /\ Len(front) = Len(first) /\ Len(first) = n
    BY <1>8, <1>10
  <2>. HIDE DEF front, first
  <2>3. front = first
    BY <2>1, <2>2, SeqEqual
  <2>. QED
    BY <1>4, <2>3 DEF first
<1>. HIDE DEF front
<1>. QED
  BY <1>8, <1>11, StartsIn

\* So no row that can be read gets lost, as long as later runs do not touch
\* what is before a short chunk.
LEMMA StillRead ==
    ASSUME TypeOK, NEW i, BucketOf(i) \in Files,
           UNCHANGED input, wbufs' \in [Files -> WriteBuf],
           \A f \in Files : Extends(wbufs[f].file, wbufs'[f].file),
           \A f \in Files : torn[f] # << >> => torn'[f] = torn[f],
           \A f \in Files : torn[f] = << >> /\ torn'[f] # << >> => torn'[f][1] = Len(wbufs[f].file)
    PROVE  /\ CanBeRead(i) => CanBeRead(i)'
           /\ Spoilt(BucketOf(i), i) => Spoilt(BucketOf(i), i)'
           /\ RunOf(i)' = RunOf(i) /\ BucketOf(i)' = BucketOf(i)
<1>. DEFINE f == BucketOf(i)
            v == wbufs'[f]
            t == torn'[f]
            w == IF t = << >> THEN v.file ELSE SubSeq(v.file, 1, t[1])
<1>1. BucketOf(i)' = BucketOf(i)
  BY DEF BucketOf, input
<1>2. RunOf(i)' = RunOf(i)
  <2>1. program' = program
    BY DEF input
  <2>. QED
    BY <2>1, Zenon DEF RunOf
<1>3. f \in Files /\ v \in WriteBuf /\ Extends(wbufs[f].file, v.file) /\ (torn[f] # << >> => t = torn[f])
      /\ (torn[f] = << >> /\ t # << >> => t[1] = Len(wbufs[f].file))
  OBVIOUS
<1>4. Readable(f)' = w
  BY <1>1 DEF Readable
<1>. HIDE DEF f, v, t
<1>5. ToSet(RowsOfFile(Readable(f))) \subseteq ToSet(RowsOfFile(w))
  BY <1>3, ReadsMore
<1>6. CanBeRead(i) => CanBeRead(i)'
  <2>1. CanBeRead(i)' <=> i \in ToSet(RowsOfFile(w))
    BY <1>1, <1>4 DEF CanBeRead, f
  <2>. HIDE DEF w
  <2>. QED
    BY <1>5, <2>1 DEF CanBeRead, f
<1>7. Spoilt(BucketOf(i), i) => Spoilt(BucketOf(i), i)'
  BY <1>1, <1>2, <1>3 DEF Spoilt, f, t
<1>. QED
  BY <1>1, <1>2, <1>6, <1>7

-----------------------------------------------------------------------------
\* A row of a run that goes through can be read: its file was closed, and no
\* short chunk of a run before is in it.
LEMMA ReadWhenClosed ==
    ASSUME IInv, program.name = "bpartition", pc = "rows", UNCHANGED <<input, torn>>,
           NEW i \in 1..Len(rows), RunOf(i) = run, ~Spoilt(BucketOf(i), i)',
           LET v == wbufs'[BucketOf(i)]
           IN  v \in WriteBuf /\ v.buffer = << >> /\ i \in ToSet(RowsOut(v))
    PROVE  CanBeRead(i)'
<1>. DEFINE f == BucketOf(i)
            v == wbufs'[f]
<1>1. Partitioning /\ TypeOK /\ PartitionInv /\ run \in Nat
  BY PartitionParts
<1>2. f \in Files
  BY <1>1, PartitionGiven
<1>3. BucketOf(i)' = f /\ RunOf(i)' = RunOf(i) /\ torn' = torn
  <2>1. program' = program /\ rows' = rows
    BY DEF input
  <2>2. BucketOf(i)' = f
    BY <2>1 DEF BucketOf
  <2>3. RunOf(i)' = RunOf(i)
    BY <2>1, Zenon DEF RunOf
  <2>. QED
    BY <2>2, <2>3
<1>4. torn[f] # << >> => torn[f][2] < run
  BY <1>1, <1>2 DEF PartitionInv
<1>. HIDE DEF f
<1>5. torn[f] # << >> => torn[f][2] \in Nat
  <2>1. torn[f] # << >> => torn[f][2] \in 1..run
    BY <1>1, <1>2, Zenon DEF TypeOK
  <2>. QED
    BY <2>1, <1>1
<1>6. torn[f] = << >>
  <2>1. torn[f] # << >> => torn[f][2] <= run
    BY <1>1, <1>4, <1>5
  <2>. QED
    BY <1>3, <2>1 DEF Spoilt, f
<1>7. Readable(BucketOf(i))' = v.file
  BY <1>3, <1>6 DEF Readable, f
<1>8. v \in WriteBuf /\ v.buffer = << >> /\ i \in ToSet(RowsOut(v))
  BY DEF f
<1>. HIDE DEF v
<1>9. RowsOut(v) = RowsOfFile(v.file)
  BY <1>8, BufferLast
<1>10. CanBeRead(i)' <=> i \in ToSet(RowsOfFile(Readable(BucketOf(i))'))
  BY DEF CanBeRead
<1>. QED
  BY <1>7, <1>8, <1>9, <1>10

\* bpartition goes on.
LEMMA PartitionGoesOn ==
    ASSUME IInv, program.name = "bpartition", pc = "rows",
           UNCHANGED <<input, run, torn, exists, rbufs, out>>,
           wbufs' \in [Files -> WriteBuf], at' \in Before + 1..End + 1, j' \in Files,
           pc' \in {"rows", "remove"},
           pc' = "rows" => whole' = whole /\ (at' <= End => j' = 1),
           pc' = "remove" => whole' = whole \union {run} /\ at' = End + 1,
           \A f \in Files :
               /\ Extends(wbufs[f].file, wbufs'[f].file)
               /\ \/ pc' # "rows" \/ program.files = 1 \/ (at' > End /\ f < j')
                  => wbufs'[f].buffer = << >>
               /\ InOrder(wbufs'[f], f, at' - 1),
           \A i \in Before + 1..at' - 1 : i \in ToSet(RowsOut(wbufs'[BucketOf(i)]))
    PROVE  IInv'
<1>1. /\ Partitioning /\ TypeOK /\ PartitionInv
      /\ program.files \in Nat \ {0} /\ Len(rows) \in Nat
      /\ run \in 1..Len(program.ends) /\ Before \in Nat /\ End \in Nat
      /\ Before <= End /\ End <= Len(rows)
  BY PartitionParts
<1>2. /\ program' = program /\ rows' = rows /\ run' = run /\ torn' = torn /\ exists' = exists
      /\ rbufs' = rbufs /\ out' = out
  BY DEF input
<1>3. End' = End /\ Before' = Before /\ Files' = Files
  BY <1>2 DEF End, Before, Files
<1>4. at' \in Nat \ {0} /\ j' \in Nat \ {0}
  BY <1>1 DEF Files
<1>5. \A f \in Files : wbufs[f] \in WriteBuf /\ wbufs'[f] \in WriteBuf
                       /\ Len(wbufs[f].file) \in Nat /\ Len(wbufs'[f].file) \in Nat
                       /\ Len(wbufs[f].file) <= Len(wbufs'[f].file)
  <2>1. wbufs \in [Files -> WriteBuf]
    BY <1>1 DEF TypeOK
  <2>. QED
    BY <2>1 DEF WriteBuf, Extends
<1>6. TypeOK'
  <2>1. \A f \in Files : torn[f] # << >> => torn[f][1] \in 0..Len(wbufs'[f].file) /\ torn[f][2] \in 1..run
    <3>1. \A f \in Files : torn[f] # << >> => torn[f][1] \in 0..Len(wbufs[f].file) /\ torn[f][2] \in 1..run
      BY <1>1, Zenon DEF TypeOK
    <3>. QED
      BY <1>5, <3>1
  <2>2. whole' \subseteq 1..run
    <3>1. whole \subseteq 1..run /\ run \in 1..run
      BY <1>1 DEF TypeOK
    <3>. QED
      BY <3>1
  <2>3. Given(program, rows) /\ torn \in [Files -> Seq(Nat)] /\ exists \subseteq Files
        /\ rbufs \in [Files -> ReadBuf]
    BY <1>1, Zenon DEF TypeOK
  <2>. QED
    BY <1>1, <1>2, <1>3, <1>4, <2>1, <2>2, <2>3, Zenon DEF TypeOK
<1>7. ListedInv'
  <2>1. ListedInv /\ pc = "rows"
    BY <1>1 DEF PartitionInv
  <2>2. exists = Files /\ \A f \in Files : wbufs[f].file # << >> => wbufs'[f].file # << >>
    <3>1. \A f \in Files : wbufs[f].file # << >> => Len(wbufs[f].file) # 0
      BY <1>5 DEF WriteBuf
    <3>2. \A f \in Files : wbufs'[f].file = << >> => Len(wbufs'[f].file) = 0
      OBVIOUS
    <3>. QED
      BY <2>1, <1>5, <3>1, <3>2 DEF ListedInv
  <2>3. out \in Seq(Listing) /\ Listing' = Listing
    BY <2>1, <1>3 DEF ListedInv, Listing
  <2>4. \A n \in 1..Len(out) :
          LET f == out[n][2] IN f \in exists /\ (wbufs'[f].file # << >> \/ torn[f] # << >>)
    BY <2>1, <2>2 DEF ListedInv
  <2>5. j'..program.files \subseteq Files
    BY <1>1 DEF Files
  <2>. QED
    BY <1>2, <1>3, <2>2, <2>3, <2>4, <2>5 DEF ListedInv
<1>8. ASSUME NEW i \in 1..Len(rows), RunOf(i)' \in whole', ~Spoilt(BucketOf(i), i)'
      PROVE  CanBeRead(i)'
  <2>1. BucketOf(i) \in Files
    BY <1>1, PartitionGiven
  <2>2. UNCHANGED input /\ UNCHANGED <<input, torn>>
    BY <1>2 DEF input
  <2>3. /\ CanBeRead(i) => CanBeRead(i)'
        /\ Spoilt(BucketOf(i), i) => Spoilt(BucketOf(i), i)'
        /\ RunOf(i)' = RunOf(i) /\ BucketOf(i)' = BucketOf(i)
    <3>1. \A f \in Files : Extends(wbufs[f].file, wbufs'[f].file)
      OBVIOUS
    <3>2. \A f \in Files : torn[f] # << >> => torn'[f] = torn[f]
      BY <1>2
    <3>3. \A f \in Files : torn[f] = << >> /\ torn'[f] # << >> => torn'[f][1] = Len(wbufs[f].file)
      BY <1>2
    <3>. QED
      BY <1>1, <2>1, <2>2, <3>1, <3>2, <3>3, StillRead
  <2>4. CASE RunOf(i) \in whole
    BY <1>1, <1>8, <2>3, <2>4 DEF PartitionInv, KeptInv
  <2>5. CASE RunOf(i) \notin whole
    <3>1. pc' = "remove" /\ RunOf(i) = run
      BY <1>8, <2>3, <2>5
    <3>2. i \in Before + 1..End
      BY <3>1, RowOfThisRun
    <3>3. at' - 1 = End
      BY <3>1, <1>1
    <3>4. LET v == wbufs'[BucketOf(i)]
          IN  v \in WriteBuf /\ v.buffer = << >> /\ i \in ToSet(RowsOut(v))
      BY <1>5, <2>1, <3>1, <3>2, <3>3
    <3>5. ~Spoilt(BucketOf(i), i)'
      BY <1>8
    <3>. QED
      BY <2>2, <3>1, <3>4, <3>5, ReadWhenClosed
  <2>. QED
    BY <2>4, <2>5
<1>9. KeptInv'
  <2>1. \A f \in Files : InOrder(wbufs[f], f, at - 1)'
    BY <1>2 DEF InOrder, BucketOf
  <2>2. \A i \in Before + 1..at' - 1 : IsDumped(i)'
    BY <1>2 DEF IsDumped, BucketOf
  <2>. QED
    BY <1>2, <1>3, <1>8, <2>1, <2>2 DEF KeptInv
<1>10. PartitionInv'
  <2>1. pc' = "remove" => at' = End + 1
    OBVIOUS
  <2>2. pc' = "rows" => run \notin whole'
    BY <1>1 DEF PartitionInv
  <2>3. \A f \in Files : torn[f] # << >> => torn[f][2] < run
    BY <1>1 DEF PartitionInv
  <2>4. pc' \notin {"open", "done"}
    OBVIOUS
  <2>. QED
    BY <1>2, <1>3, <1>7, <1>9, <2>1, <2>2, <2>3, <2>4, Zenon DEF PartitionInv
<1>. QED
  BY <1>2, <1>6, <1>10 DEF IInv

\* What is in the chunks of a file is in order if what was dumped to it is.
LEMMA FileInOrder ==
    ASSUME NEW w \in WriteBuf, NEW f, NEW n \in Nat, NEW m \in Nat, n <= m, InOrder(w, f, n),
           NEW v \in WriteBuf, v.buffer = << >>, v.file = w.file
    PROVE  InOrder(v, f, m)
<1>. DEFINE s == RowsOut(v)
            t == RowsOut(w)
<1>1. s \in Seq(Nat) /\ t \in Seq(Nat) /\ Starts(s, t)
  <2>1. /\ RowsOut(w) \in Seq(Nat) /\ Starts(RowsOfFile(w.file), RowsOut(w))
    BY BufferLast
  <2>2. RowsOut(v) \in Seq(Nat) /\ RowsOut(v) = RowsOfFile(v.file)
    BY BufferLast
  <2>. QED
    BY <2>1, <2>2
<1>2. /\ \A k \in 1..Len(t) : t[k] \in 1..n /\ BucketOf(t[k]) = f
      /\ \A k \in 1..Len(t) - 1 : t[k] < t[k + 1]
  BY DEF InOrder
<1>3. WholeOutput(rows, v)
  <2>1. WholeOutput(rows, w)
    BY DEF InOrder
  <2>2. WholeRows(rows, << >>)
    BY DEF WholeRows
  <2>. QED
    BY <2>1, <2>2, Zenon DEF WholeOutput
<1>. HIDE DEF s, t
<1>4. \A k \in 1..Len(s) : k \in 1..Len(t) /\ t[k] = s[k]
  BY <1>1 DEF Starts
<1>5. \A k \in 1..Len(s) : s[k] \in 1..m /\ BucketOf(s[k]) = f
  <2>1. \A k \in 1..Len(s) : s[k] \in 1..n /\ BucketOf(s[k]) = f
    BY <1>2, <1>4
  <2>. QED
    BY <2>1
<1>6. \A k \in 1..Len(s) - 1 : s[k] < s[k + 1]
  <2>1. \A k \in 1..Len(s) - 1 : k \in 1..Len(s) /\ k + 1 \in 1..Len(s) /\ k \in 1..Len(t) - 1
    BY <1>1 DEF Starts
  <2>. QED
    BY <1>2, <1>4, <2>1
<1>. QED
  BY <1>3, <1>5, <1>6, Zenon DEF InOrder, s

\* A run of bpartition ends, at whatever point, and loses what it has buffered.
LEMMA PartitionEnds ==
    ASSUME IInv, program.name = "bpartition", pc \in {"rows", "remove"}, EndRun,
           UNCHANGED <<input, whole, rbufs>>,
           wbufs' \in [Files -> WriteBuf],
           \A f \in Files : wbufs'[f].buffer = << >> /\ wbufs'[f].file = wbufs[f].file,
           torn' \in [Files -> Seq(Nat)],
           \A f \in Files : torn[f] # << >> => torn'[f] = torn[f],
           \A f \in Files : torn[f] = << >> /\ torn'[f] # << >> =>
               torn'[f][1] = Len(wbufs[f].file) /\ torn'[f][2] = run,
           exists' \subseteq Files, out' \in Seq(Listing),
           \A n \in 1..Len(out') : LET f == out'[n][2]
                                   IN  f \in exists' /\ (wbufs'[f].file # << >> \/ torn'[f] # << >>)
    PROVE  IInv'
<1>1. /\ Partitioning /\ TypeOK /\ PartitionInv
      /\ program.files \in Nat \ {0} /\ Len(rows) \in Nat
      /\ run \in 1..Len(program.ends) /\ Before \in Nat /\ End \in Nat
      /\ Before <= End /\ End <= Len(rows) /\ at \in Nat \ {0} /\ at \in Before + 1..End + 1
  BY PartitionParts
<1>2. program' = program /\ rows' = rows /\ whole' = whole /\ rbufs' = rbufs
  BY DEF input
<1>3. Files' = Files /\ Listing' = Listing
  BY <1>2 DEF Files, Listing
<1>4. /\ at' = End + 1 /\ j' = 1
      /\ \/ run < Len(program.ends) /\ run' = run + 1 /\ pc' = "open"
         \/ pc' = "done" /\ run' = run
  BY DEF EndRun
<1>5. /\ run' \in 1..Len(program.ends) /\ run <= run' /\ run' \in Nat
      /\ pc' = "open" => run' = run + 1
      /\ pc' \in {"open", "done"}
  <2>1. Len(program.ends) \in Nat
    BY <1>1, PartitionGiven
  <2>. QED
    BY <1>1, <1>4, <2>1
<1>6. at' \in Before' + 1..End' + 1 /\ (pc' = "open" => at' = Before' + 1) /\ (pc' = "done" => at' = End' + 1)
  <2>1. CASE pc' = "done"
    <3>1. run' = run
      BY <1>4, <2>1
    <3>2. Before' = Before /\ End' = End
      BY <1>2, <3>1 DEF Before, End
    <3>. QED
      BY <1>1, <1>4, <2>1, <3>2
  <2>2. CASE pc' # "done"
    <3>1. run' = run + 1 /\ run < Len(program.ends) /\ pc' = "open"
      BY <1>4, <2>2
    <3>2. Before' = End
      BY <1>1, <1>2, <3>1 DEF Before, End
    <3>3. End <= End' /\ End' \in Nat
      <4>1. run + 1 \in 1..Len(program.ends) /\ run <= run + 1
        BY <1>1, <1>5, <3>1
      <4>2. program.ends[run] <= program.ends[run + 1] /\ program.ends[run + 1] \in Nat
        BY <1>1, <4>1, PartitionGiven
      <4>3. End' = program.ends[run + 1]
        BY <1>2, <3>1 DEF End
      <4>. QED
        BY <4>2, <4>3 DEF End
    <3>4. at' = Before' + 1 /\ at' = End + 1
      BY <1>4, <3>2
    <3>5. at' \in Before' + 1..End' + 1
      <4>. DEFINE a == at'
                  b == End
                  e == End'
      <4>1. a = b + 1 /\ b \in Nat /\ e \in Nat /\ b <= e
        BY <1>1, <3>3, <3>4
      <4>. HIDE DEF a, b, e
      <4>2. a \in b + 1..e + 1
        BY <4>1
      <4>. QED
        BY <3>2, <4>2 DEF a, b, e
    <3>. QED
      BY <2>2, <3>4, <3>5
  <2>. QED
    BY <2>1, <2>2
<1>7. \A f \in Files : wbufs[f] \in WriteBuf /\ wbufs'[f] \in WriteBuf /\ Len(wbufs[f].file) \in Nat
  <2>1. wbufs \in [Files -> WriteBuf]
    BY <1>1 DEF TypeOK
  <2>. QED
    BY <2>1 DEF WriteBuf
<1>8. ASSUME NEW f \in Files, torn'[f] # << >>
      PROVE  /\ torn'[f][1] \in 0..Len(wbufs'[f].file) /\ torn'[f][2] \in 1..run
             /\ torn'[f][2] \in 1..run' /\ (pc' = "open" => torn'[f][2] < run')
  <2>1. torn'[f][1] \in 0..Len(wbufs[f].file) /\ torn'[f][2] \in 1..run
    <3>1. CASE torn[f] # << >>
      <4>1. torn[f][1] \in 0..Len(wbufs[f].file) /\ torn[f][2] \in 1..run
        BY <1>1, <3>1, Zenon DEF TypeOK
      <4>. QED
        BY <3>1, <4>1
    <3>2. CASE torn[f] = << >>
      <4>1. torn'[f][1] = Len(wbufs[f].file) /\ torn'[f][2] = run
        BY <1>8, <3>2, Zenon
      <4>2. run \in 1..run /\ Len(wbufs[f].file) \in 0..Len(wbufs[f].file)
        BY <1>1, <1>7
      <4>. QED
        BY <4>1, <4>2
    <3>. QED
      BY <3>1, <3>2
  <2>2. wbufs'[f].file = wbufs[f].file
    OBVIOUS
  <2>3. torn'[f][1] \in 0..Len(wbufs'[f].file)
    BY <2>1, <2>2
  <2>4. torn'[f][2] \in 1..run' /\ (pc' = "open" => torn'[f][2] < run')
    <3>. DEFINE t == torn'[f][2]
                r == run'
    <3>1. /\ t \in 1..run /\ run \in Nat /\ r \in Nat /\ run <= r
          /\ pc' = "open" => r = run + 1
      BY <1>1, <1>5, <2>1
    <3>. HIDE DEF t, r
    <3>2. t \in 1..r /\ (pc' = "open" => t < r)
      BY <3>1
    <3>. QED
      BY <3>2 DEF t, r
  <2>. QED
    BY <2>1, <2>3, <2>4, Zenon
<1>9. TypeOK'
  <2>1. \A f \in Files : torn'[f] # << >> => torn'[f][1] \in 0..Len(wbufs'[f].file) /\ torn'[f][2] \in 1..run'
    BY <1>8
  <2>2. whole \subseteq 1..run'
    <3>1. whole \subseteq 1..run
      BY <1>1 DEF TypeOK
    <3>. QED
      BY <1>1, <1>5, <3>1
  <2>3. Given(program, rows) /\ rbufs \in [Files -> ReadBuf]
    BY <1>1, Zenon DEF TypeOK
  <2>4. at' \in Nat \ {0} /\ j' \in Nat \ {0}
    BY <1>1, <1>4
  <2>. QED
    BY <1>2, <1>3, <1>5, <2>1, <2>2, <2>3, <2>4, Zenon DEF TypeOK
<1>10. ListedInv'
  BY <1>3, <1>5 DEF ListedInv
<1>11. ASSUME NEW i \in 1..Len(rows), RunOf(i)' \in whole', ~Spoilt(BucketOf(i), i)'
       PROVE  CanBeRead(i)'
  <2>1. BucketOf(i) \in Files
    BY <1>1, PartitionGiven
  <2>2. \A f \in Files : Extends(wbufs[f].file, wbufs'[f].file)
    BY <1>7 DEF Extends
  <2>3. UNCHANGED input
    BY <1>2 DEF input
  <2>4. \A f \in Files : torn[f] = << >> /\ torn'[f] # << >> => torn'[f][1] = Len(wbufs[f].file)
    OBVIOUS
  <2>5. /\ CanBeRead(i) => CanBeRead(i)'
        /\ Spoilt(BucketOf(i), i) => Spoilt(BucketOf(i), i)'
        /\ RunOf(i)' = RunOf(i)
    BY <1>1, <2>1, <2>2, <2>3, <2>4, StillRead
  <2>. QED
    BY <1>1, <1>2, <1>11, <2>5 DEF PartitionInv, KeptInv
<1>12. KeptInv'
  <2>1. ASSUME NEW f \in Files PROVE InOrder(wbufs[f], f, at - 1)'
    <3>1. InOrder(wbufs[f], f, at - 1) /\ at - 1 \in Nat /\ at - 1 <= End
      BY <1>1 DEF PartitionInv, KeptInv
    <3>2. InOrder(wbufs'[f], f, End)
      <4>1. wbufs[f] \in WriteBuf /\ wbufs'[f] \in WriteBuf /\ wbufs'[f].buffer = << >>
            /\ wbufs'[f].file = wbufs[f].file
        BY <1>1, <1>7
      <4>. QED
        BY <1>1, <3>1, <4>1, FileInOrder, Zenon
    <3>3. at' - 1 = End
      BY <1>1, <1>4
    <3>. QED
      BY <1>2, <3>2, <3>3 DEF InOrder, BucketOf
  <2>. QED
    BY <1>2, <1>3, <1>5, <1>11, <2>1 DEF KeptInv
<1>13. PartitionInv'
  <2>1. pc' \notin {"rows", "remove"}
    BY <1>5
  <2>2. j' \in Files
    BY <1>1, <1>4 DEF Files
  <2>3. pc' = "open" => run' \notin whole'
    <3>1. whole \subseteq 1..run
      BY <1>1 DEF TypeOK
    <3>. QED
      BY <1>1, <1>2, <1>5, <3>1
  <2>4. pc' # "done" => \A f \in Files : torn'[f] # << >> => torn'[f][2] < run'
    BY <1>5, <1>8
  <2>. QED
    BY <1>3, <1>4, <1>5, <1>6, <1>10, <1>12, <2>1, <2>2, <2>3, <2>4, Zenon DEF PartitionInv
<1>. QED
  BY <1>2, <1>9, <1>13 DEF IInv

\* bpartition is killed, or it is while it writes a chunk.
LEMMA PartitionKillStep ==
    ASSUME IInv, program.name = "bpartition", Kill \/ KillWriting
    PROVE  IInv'
<1>1. /\ TypeOK /\ PartitionInv /\ run \in 1..Len(program.ends)
  BY PartitionParts
<1>2. pc \in {"rows", "remove"}
  BY DEF Kill, KillWriting, Writes, Unzips, Partitions, Flushes
<1>3. Lose /\ EndRun /\ UNCHANGED <<input, exists, whole, rbufs, out>>
  BY DEF Kill, KillWriting
<1>4. /\ wbufs' \in [Files -> WriteBuf]
      /\ \A f \in Files : wbufs'[f].buffer = << >> /\ wbufs'[f].file = wbufs[f].file
  BY <1>1, <1>3, LostBuffers
<1>5. torn \in [Files -> Seq(Nat)] /\ run \in Nat /\ \A f \in Files : Len(wbufs[f].file) \in Nat
  BY <1>1 DEF TypeOK, WriteBuf
<1>6. /\ torn' \in [Files -> Seq(Nat)]
      /\ \A f \in Files : torn[f] # << >> => torn'[f] = torn[f]
      /\ \A f \in Files : torn[f] = << >> /\ torn'[f] # << >> =>
           torn'[f][1] = Len(wbufs[f].file) /\ torn'[f][2] = run
  <2>1. CASE torn' = torn
    BY <1>5, <2>1
  <2>2. CASE torn' # torn
    <3>1. KillWriting
      BY <2>2 DEF Kill
    <3>2. PICK f \in Files :
              torn' = [torn EXCEPT ![f] = IF torn[f] = << >> THEN <<Len(wbufs[f].file), run>> ELSE torn[f]]
      BY <3>1 DEF KillWriting, Files
    <3>3. \A g \in Files : g # f => torn'[g] = torn[g]
      BY <1>5, <3>2
    <3>4. torn'[f] = (IF torn[f] = << >> THEN <<Len(wbufs[f].file), run>> ELSE torn[f]) /\ torn'[f] \in Seq(Nat)
      BY <1>5, <3>2
    <3>5. torn' \in [Files -> Seq(Nat)]
      BY <1>5, <3>2, <3>4
    <3>. QED
      BY <3>3, <3>4, <3>5
  <2>. QED
    BY <2>1, <2>2
<1>7. /\ exists' \subseteq Files /\ out' \in Seq(Listing)
      /\ \A n \in 1..Len(out') : LET f == out'[n][2]
                                 IN  f \in exists' /\ (wbufs'[f].file # << >> \/ torn'[f] # << >>)
  <2>1. ListedInv /\ exists \subseteq Files /\ exists' = exists /\ out' = out
    BY <1>1, <1>3 DEF PartitionInv, TypeOK
  <2>2. \A f \in Files : torn[f] # << >> => torn'[f] # << >>
    BY <1>6
  <2>. QED
    BY <1>4, <2>1, <2>2 DEF ListedInv
<1>8. UNCHANGED <<input, whole, rbufs>>
  BY <1>3
<1>. QED
  BY <1>2, <1>3, <1>4, <1>6, <1>7, <1>8, PartitionEnds

\* What is kept when nothing is dumped or written.
LEMMA KeptSame ==
    ASSUME KeptInv, UNCHANGED <<input, run, at, wbufs, torn, whole>>,
           \A i \in Before + 1..at - 1 : IsDumped(i)
    PROVE  KeptInv'
<1>1. /\ run' = run /\ at' = at /\ wbufs' = wbufs /\ torn' = torn /\ whole' = whole
      /\ program' = program /\ rows' = rows
  BY DEF input
<1>2. Files' = Files /\ Before' = Before
  BY <1>1 DEF Files, Before
<1>3. \A f \in Files : InOrder(wbufs[f], f, at - 1)'
  BY <1>1, Zenon DEF KeptInv, InOrder, BucketOf
<1>4. \A i \in Before + 1..at - 1 : IsDumped(i)'
  BY <1>1 DEF IsDumped, BucketOf
<1>5. ASSUME NEW i \in 1..Len(rows), RunOf(i)' \in whole', ~Spoilt(BucketOf(i), i)'
      PROVE  CanBeRead(i)'
  <2>1. RunOf(i)' = RunOf(i)
    BY <1>1, Zenon DEF RunOf
  <2>2. BucketOf(i)' = BucketOf(i)
    BY <1>1, Zenon DEF BucketOf
  <2>3. Spoilt(BucketOf(i), i)' <=> Spoilt(BucketOf(i), i)
    BY <1>1, <2>1, <2>2 DEF Spoilt
  <2>4. CanBeRead(i)' <=> CanBeRead(i)
    BY <1>1, <2>2 DEF CanBeRead, Readable
  <2>. QED
    BY <1>1, <1>5, <2>1, <2>3, <2>4 DEF KeptInv
<1>. QED
  BY <1>1, <1>2, <1>3, <1>4, <1>5 DEF KeptInv

\* A file is deleted or listed; after the last one the run has ended.
LEMMA RemoveEmptyStep ==
    ASSUME IInv, program.name = "bpartition", RemoveEmpty
    PROVE  IInv'
<1>1. /\ TypeOK /\ PartitionInv /\ run \in 1..Len(program.ends) /\ program.files \in Nat \ {0}
      /\ Before \in Nat /\ End \in Nat
  BY PartitionParts
<1>2. /\ pc = "remove" /\ UNCHANGED <<input, wbufs, torn, whole, rbufs>>
      /\ IF wbufs[j].file = << >> /\ torn[j] = << >> THEN exists' = exists \ {j} /\ out' = out
         ELSE out' = Append(out, <<run, j>>) /\ exists' = exists
      /\ IF j < program.files THEN j' = j + 1 /\ UNCHANGED <<run, at, pc>> ELSE EndRun
  BY DEF RemoveEmpty
<1>3. j \in Files /\ j \in Nat /\ 1 <= j /\ j <= program.files /\ ListedInv /\ KeptInv
  BY <1>1 DEF PartitionInv, Files
<1>4. /\ exists \subseteq Files /\ out \in Seq(Listing) /\ j..program.files \subseteq exists
      /\ \A n \in 1..Len(out) :
           LET f == out[n][2] IN f \in exists /\ (wbufs[f].file # << >> \/ torn[f] # << >>)
  BY <1>1, <1>2, <1>3 DEF TypeOK, ListedInv
<1>5. /\ exists' \subseteq Files /\ out' \in Seq(Listing)
      /\ \A n \in 1..Len(out') :
           LET f == out'[n][2] IN f \in exists' /\ (wbufs[f].file # << >> \/ torn[f] # << >>)
      /\ j + 1..program.files \subseteq exists'
  <2>1. j + 1..program.files \subseteq j..program.files /\ j \notin j + 1..program.files
        /\ j \in j..program.files
    BY <1>1, <1>3
  <2>2. CASE wbufs[j].file = << >> /\ torn[j] = << >>
    <3>1. exists' = exists \ {j} /\ out' = out
      BY <1>2, <2>2
    <3>2. \A n \in 1..Len(out) : out[n][2] # j
      BY <1>4, <2>2
    <3>. QED
      BY <1>4, <2>1, <3>1, <3>2
  <2>3. CASE ~(wbufs[j].file = << >> /\ torn[j] = << >>)
    <3>1. exists' = exists /\ out' = Append(out, <<run, j>>)
      BY <1>2, <2>3
    <3>2. <<run, j>> \in Listing /\ <<run, j>>[2] = j
      BY <1>1, <1>3 DEF Listing
    <3>3. out' \in Seq(Listing) /\ \A n \in 1..Len(out') : out'[n] = <<run, j>> \/ (n \in 1..Len(out) /\ out'[n] = out[n])
      <4>. DEFINE L == Listing
                  x == <<run, j>>
      <4>1. out \in Seq(L) /\ x \in L /\ out' = Append(out, x)
        BY <1>4, <3>1, <3>2
      <4>. HIDE DEF L, x
      <4>2. out' \in Seq(L) /\ \A n \in 1..Len(out') : out'[n] = x \/ (n \in 1..Len(out) /\ out'[n] = out[n])
        BY <4>1
      <4>. QED
        BY <4>2 DEF L, x
    <3>. QED
      BY <1>4, <2>1, <2>3, <3>1, <3>2, <3>3
  <2>. QED
    BY <2>2, <2>3
<1>6. wbufs \in [Files -> WriteBuf] /\ \A f \in Files : wbufs[f].buffer = << >>
  BY <1>1, <1>2 DEF TypeOK, PartitionInv
<1>7. torn \in [Files -> Seq(Nat)]
  BY <1>1, Zenon DEF TypeOK
<1>8. CASE ~(j < program.files)
  <2>1. EndRun /\ UNCHANGED <<input, whole, rbufs>> /\ wbufs' = wbufs /\ torn' = torn
    BY <1>2, <1>8
  <2>2. pc \in {"rows", "remove"}
    BY <1>2
  <2>. QED
    BY <1>5, <1>6, <1>7, <2>1, <2>2, PartitionEnds
<1>9. CASE j < program.files
  <2>1. /\ j' = j + 1 /\ run' = run /\ at' = at /\ pc' = pc /\ wbufs' = wbufs /\ torn' = torn
        /\ whole' = whole /\ rbufs' = rbufs /\ program' = program /\ rows' = rows
    BY <1>2, <1>9 DEF input
  <2>2. Files' = Files /\ Listing' = Listing /\ Before' = Before /\ End' = End
    BY <2>1 DEF Files, Listing, Before, End
  <2>3. j' \in Files /\ j' \in Nat \ {0}
    BY <1>1, <1>3, <1>9, <2>1 DEF Files
  <2>4. TypeOK'
    BY <1>1, <1>5, <2>1, <2>2, <2>3, Zenon DEF TypeOK
  <2>5. ListedInv'
    BY <1>2, <1>5, <2>1, <2>2 DEF ListedInv
  <2>6. KeptInv'
    <3>1. \A i \in Before + 1..at - 1 : IsDumped(i)
      BY <1>2, <1>3 DEF KeptInv
    <3>2. UNCHANGED <<input, run, at, wbufs, torn, whole>>
      BY <2>1 DEF input
    <3>. QED
      BY <1>3, <3>1, <3>2, KeptSame
  <2>7. PartitionInv'
    <3>1. pc = "remove" /\ at = End + 1 /\ \A f \in Files : torn[f] # << >> => torn[f][2] < run
      BY <1>1, <1>2 DEF PartitionInv
    <3>2. at \in Before + 1..End + 1
      BY <1>1 DEF PartitionInv
    <3>. QED
      BY <1>6, <2>1, <2>2, <2>3, <2>5, <2>6, <3>1, <3>2 DEF PartitionInv
  <2>. QED
    BY <2>1, <2>4, <2>7 DEF IInv
<1>. QED
  BY <1>8, <1>9

\* A run opens its files, and has read nothing of its rows.
LEMMA PartitionOpenStep ==
    ASSUME IInv, PartitionOpen
    PROVE  IInv'
<1>1. /\ program.name = "bpartition" /\ pc = "open" /\ pc' = "rows" /\ exists' = Files
      /\ UNCHANGED <<input, run, at, j, wbufs, torn, whole, rbufs, out>>
  BY DEF PartitionOpen, Files
<1>2. TypeOK /\ PartitionInv /\ Before \in Nat /\ End \in Nat
  BY <1>1, PartitionParts
<1>3. /\ j' = j /\ run' = run /\ at' = at /\ wbufs' = wbufs /\ torn' = torn /\ out' = out
      /\ whole' = whole /\ rbufs' = rbufs /\ program' = program /\ rows' = rows
  BY <1>1 DEF input
<1>4. Files' = Files /\ Listing' = Listing /\ Before' = Before /\ End' = End
  BY <1>3 DEF Files, Listing, Before, End
<1>5. /\ at \in Before + 1..End + 1 /\ at = Before + 1 /\ j = 1 /\ j \in Files /\ run \notin whole
      /\ \A f \in Files : (torn[f] # << >> => torn[f][2] < run) /\ wbufs[f].buffer = << >>
      /\ ListedInv /\ KeptInv
  BY <1>1, <1>2 DEF PartitionInv
<1>6. TypeOK'
  BY <1>1, <1>2, <1>3, <1>4, Zenon DEF TypeOK
<1>7. ListedInv'
  <2>1. \A n \in 1..Len(out) : out[n][2] \in exists /\ exists \subseteq Files
    BY <1>2, <1>5 DEF ListedInv, TypeOK
  <2>. QED
    BY <1>1, <1>3, <1>4, <1>5, <2>1 DEF ListedInv
<1>8. KeptInv'
  <2>1. Before + 1..at - 1 = {}
    BY <1>2, <1>5
  <2>2. \A i \in Before + 1..at - 1 : IsDumped(i)
    BY <2>1
  <2>. QED
    BY <1>1, <1>5, <2>2, KeptSame
<1>9. PartitionInv'
  BY <1>1, <1>3, <1>4, <1>5, <1>7, <1>8 DEF PartitionInv
<1>. QED
  BY <1>1, <1>3, <1>6, <1>9 DEF IInv

-----------------------------------------------------------------------------
\* Flushing a buffer appends to its file, and neither adds nor loses a row.
LEMMA FlushInOrder ==
    ASSUME NEW w \in WriteBuf, NEW f, NEW n, InOrder(w, f, n)
    PROVE  LET v == WriteFlush(w)
           IN  /\ v \in WriteBuf /\ v.buffer = << >> /\ Extends(w.file, v.file)
               /\ InOrder(v, f, n) /\ RowsOut(v) = RowsOut(w)
<1>. DEFINE v == WriteFlush(w)
<1>1. v \in WriteBuf /\ RowsOut(v) = RowsOut(w)
  BY FlushedRows
<1>2. WholeOutput(rows, v) /\ v.buffer = << >>
  BY FlushWholeRows DEF InOrder
<1>3. Extends(w.file, v.file)
  <2>1. w.file \in Seq(Seq(Cell)) /\ w.buffer \in Seq(Cell)
    BY DEF WriteBuf
  <2>2. CASE w.buffer = << >>
    BY <2>1, <2>2 DEF WriteFlush, Extends
  <2>3. CASE w.buffer # << >>
    <3>1. v.file = Append(w.file, w.buffer)
      BY <2>3 DEF WriteFlush
    <3>. HIDE DEF v
    <3>. QED
      BY <2>1, <3>1 DEF Extends
  <2>. QED
    BY <2>2, <2>3
<1>. HIDE DEF v
<1>4. InOrder(v, f, n)
  BY <1>1, <1>2, Zenon DEF InOrder
<1>. QED
  BY <1>1, <1>2, <1>3, <1>4 DEF v

\* A later row of the bucket that is dumped follows in order.
LEMMA DumpInOrder ==
    ASSUME NEW w \in WriteBuf, NEW f, NEW n \in Nat, InOrder(w, f, n), rows \in Seq(Row),
           NEW i \in 1..Len(rows), i = n + 1, BucketOf(i) = f
    PROVE  LET v == Dump(w, i, rows[i])
           IN  /\ v \in WriteBuf /\ Extends(w.file, v.file) /\ InOrder(v, f, i)
               /\ RowsOut(w) \in Seq(Nat) /\ RowsOut(v) = Append(RowsOut(w), i)
<1>. DEFINE v == Dump(w, i, rows[i])
            s == WriteStart(w, RowSize(rows[i]))
            t == s.buffer \o RowBytes(i, rows[i])
            old == RowsOut(w)
<1>1. i \in Nat /\ rows[i] \in Row
  OBVIOUS
<1>2. v \in WriteBuf /\ old \in Seq(Nat) /\ RowsOut(v) = Append(old, i)
  BY <1>1, DumpedRow
<1>3. /\ s \in WriteBuf /\ Extends(w.file, s.file) /\ WholeOutput(rows, s)
  <2>1. CASE s = w
    <3>1. Extends(w.file, w.file)
      BY DEF Extends, WriteBuf
    <3>. QED
      BY <2>1, <3>1 DEF InOrder
  <2>2. CASE s # w
    <3>1. s = WriteFlush(w)
      BY <2>2 DEF WriteStart
    <3>. HIDE DEF s
    <3>2. /\ WriteFlush(w) \in WriteBuf /\ Extends(w.file, WriteFlush(w).file)
          /\ InOrder(WriteFlush(w), f, n)
      BY FlushInOrder
    <3>. QED
      BY <3>1, <3>2 DEF InOrder
  <2>. QED
    BY <2>1, <2>2
<1>. HIDE DEF s
<1>4. s.buffer \in Seq(Cell) /\ WholeRows(rows, s.buffer)
  BY <1>3 DEF WholeOutput, WriteBuf
<1>5. WholeRows(rows, t) /\ t \in Seq(Cell)
  BY <1>4, WholeRowsJoin
<1>. HIDE DEF t
<1>6. v = [s EXCEPT !.buffer = t]
  BY DEF Dump, WriteBytes, s, t
<1>7. v.buffer = t /\ v.file = s.file
  BY <1>3, <1>6 DEF WriteBuf
<1>. HIDE DEF v
<1>8. WholeOutput(rows, v)
  BY <1>2, <1>3, <1>5, <1>7 DEF WholeOutput
<1>9. LET new == Append(old, i)
      IN  /\ \A k \in 1..Len(new) : new[k] \in 1..i /\ BucketOf(new[k]) = f
          /\ \A k \in 1..Len(new) - 1 : new[k] < new[k + 1]
  <2>. DEFINE new == Append(old, i)
  <2>1. /\ \A k \in 1..Len(old) : old[k] \in 1..n /\ BucketOf(old[k]) = f
        /\ \A k \in 1..Len(old) - 1 : old[k] < old[k + 1]
    BY DEF InOrder
  <2>. HIDE DEF old
  <2>2. /\ Len(old) \in Nat /\ Len(new) = Len(old) + 1 /\ new[Len(old) + 1] = i
        /\ \A k \in 1..Len(old) : new[k] = old[k]
    BY <1>2
  <2>. HIDE DEF new
  <2>3. ASSUME NEW k \in 1..Len(new) PROVE new[k] \in 1..i /\ BucketOf(new[k]) = f
    <3>1. CASE k \in 1..Len(old)
      <4>1. new[k] = old[k] /\ old[k] \in 1..n /\ BucketOf(old[k]) = f
        BY <2>1, <2>2, <3>1
      <4>. QED
        BY <4>1
    <3>2. CASE k \notin 1..Len(old)
      <4>1. k = Len(old) + 1
        BY <2>2, <3>2
      <4>. QED
        BY <2>2, <4>1
    <3>. QED
      BY <3>1, <3>2
  <2>4. ASSUME NEW k \in 1..Len(new) - 1 PROVE new[k] < new[k + 1]
    <3>1. k \in 1..Len(old) /\ new[k] = old[k] /\ old[k] \in 1..n
      BY <2>1, <2>2
    <3>2. CASE k = Len(old)
      BY <2>2, <3>1, <3>2
    <3>3. CASE k # Len(old)
      <4>1. k \in 1..Len(old) - 1 /\ k + 1 \in 1..Len(old)
        BY <2>2, <3>1, <3>3
      <4>. QED
        BY <2>1, <2>2, <3>1, <4>1
    <3>. QED
      BY <3>2, <3>3
  <2>. QED
    BY <2>3, <2>4 DEF new
<1>10. InOrder(v, f, i)
  BY <1>2, <1>8, <1>9 DEF InOrder
<1>. QED
  BY <1>2, <1>3, <1>7, <1>10 DEF v

\* What was dumped up to row n was dumped up to any later row.
LEMMA MoreRows ==
    ASSUME NEW w, NEW f, NEW n \in Nat, NEW m \in Nat, n <= m, InOrder(w, f, n)
    PROVE  InOrder(w, f, m)
<1>. DEFINE s == RowsOut(w)
<1>1. \A k \in 1..Len(s) : s[k] \in 1..n /\ BucketOf(s[k]) = f
  BY DEF InOrder
<1>2. \A k \in 1..Len(s) : s[k] \in 1..m /\ BucketOf(s[k]) = f
  BY <1>1
<1>. QED
  BY <1>2, Zenon DEF InOrder

\* A row is dumped to the file of its bucket.
LEMMA PartitionRowStep ==
    ASSUME IInv, PartitionRow
    PROVE  IInv'
<1>1. /\ program.name = "bpartition" /\ pc = "rows" /\ at <= End /\ program.files > 1
      /\ wbufs' = [wbufs EXCEPT ![BucketOf(at)] = Dump(wbufs[BucketOf(at)], at, rows[at])]
      /\ at' = at + 1 /\ UNCHANGED <<input, run, j, torn, exists, whole, rbufs, out, pc>>
  BY DEF PartitionRow, Partitions, Partitioned
<1>2. /\ Partitioning /\ TypeOK /\ PartitionInv /\ program.files \in Nat \ {0} /\ Len(rows) \in Nat
      /\ Before \in Nat /\ End \in Nat /\ Before <= End /\ End <= Len(rows)
      /\ at \in Nat \ {0} /\ at \in Before + 1..End + 1
  BY <1>1, PartitionParts
<1>3. at \in 1..Len(rows) /\ at' \in Before + 1..End + 1 /\ at - 1 \in Nat /\ at = (at - 1) + 1
      /\ at' - 1 = at
  BY <1>1, <1>2
<1>4. rows \in Seq(Row) /\ BucketOf(at) \in Files
  BY <1>2, <1>3, PartitionGiven
<1>5. /\ j = 1 /\ j \in Files /\ wbufs \in [Files -> WriteBuf]
      /\ \A f \in Files : InOrder(wbufs[f], f, at - 1)
      /\ \A i \in Before + 1..at - 1 : IsDumped(i)
  BY <1>1, <1>2 DEF PartitionInv, KeptInv, TypeOK
<1>6. PICK b \in Files : b = BucketOf(at)
  BY <1>4
<1>7. LET v == Dump(wbufs[b], at, rows[at])
      IN  /\ v \in WriteBuf /\ Extends(wbufs[b].file, v.file) /\ InOrder(v, b, at)
          /\ RowsOut(wbufs[b]) \in Seq(Nat) /\ RowsOut(v) = Append(RowsOut(wbufs[b]), at)
  <2>1. wbufs[b] \in WriteBuf /\ InOrder(wbufs[b], b, at - 1)
    BY <1>5
  <2>. QED
    BY <1>3, <1>4, <1>6, <2>1, DumpInOrder
<1>8. wbufs'[b] = Dump(wbufs[b], at, rows[at]) /\ \A f \in Files : f # b => wbufs'[f] = wbufs[f]
  BY <1>1, <1>5, <1>6
<1>9. wbufs' \in [Files -> WriteBuf]
  BY <1>1, <1>5, <1>6, <1>7
<1>10. ASSUME NEW f \in Files
       PROVE  /\ Extends(wbufs[f].file, wbufs'[f].file)
              /\ InOrder(wbufs'[f], f, at' - 1)
              /\ ToSet(RowsOut(wbufs[f])) \subseteq ToSet(RowsOut(wbufs'[f]))
  <2>1. CASE f = b
    <3>. DEFINE s == RowsOut(wbufs[b])
    <3>1. s \in Seq(Nat) /\ RowsOut(wbufs'[f]) = Append(s, at)
      BY <1>7, <1>8, <2>1
    <3>. HIDE DEF s
    <3>2. ToSet(s) \subseteq ToSet(Append(s, at))
      BY <3>1 DEF ToSet
    <3>. QED
      BY <1>3, <1>7, <1>8, <2>1, <3>1, <3>2 DEF s
  <2>2. CASE f # b
    <3>1. InOrder(wbufs[f], f, at)
      <4>1. at - 1 <= at /\ at - 1 \in Nat /\ at \in Nat /\ InOrder(wbufs[f], f, at - 1)
        BY <1>2, <1>5
      <4>. QED
        BY <4>1, MoreRows
    <3>2. Extends(wbufs[f].file, wbufs[f].file)
      BY <1>5 DEF Extends, WriteBuf
    <3>. QED
      BY <1>3, <1>8, <2>2, <3>1, <3>2
  <2>. QED
    BY <2>1, <2>2
<1>11. ASSUME NEW i \in Before + 1..at' - 1
       PROVE  i \in ToSet(RowsOut(wbufs'[BucketOf(i)]))
  <2>1. CASE i = at
    <3>. DEFINE s == RowsOut(wbufs[b])
    <3>1. s \in Seq(Nat) /\ RowsOut(wbufs'[b]) = Append(s, at)
      BY <1>7, <1>8
    <3>. HIDE DEF s
    <3>2. at \in ToSet(Append(s, at))
      <4>1. /\ Append(s, at) \in Seq(Nat) /\ Len(s) + 1 \in 1..Len(Append(s, at))
            /\ Append(s, at)[Len(s) + 1] = at
        BY <1>2, <3>1
      <4>. QED
        BY <4>1, IsIn
    <3>. QED
      BY <1>6, <2>1, <3>1, <3>2
  <2>2. CASE i # at
    <3>1. i \in Before + 1..at - 1 /\ i \in 1..Len(rows)
      <4>1. i \in Before + 1..at
        BY <1>3
      <4>. QED
        BY <1>2, <1>3, <2>2, <4>1
    <3>2. BucketOf(i) \in Files
      BY <1>2, <3>1, PartitionGiven
    <3>. QED
      BY <1>5, <1>10, <3>1, <3>2 DEF IsDumped
  <2>. QED
    BY <2>1, <2>2
<1>12. ~(program.files = 1) /\ \A f \in Files : ~(f < 1)
  BY <1>1, <1>2 DEF Files
<1>13. /\ j' = 1 /\ pc' = "rows" /\ whole' = whole /\ UNCHANGED <<input, run, torn, exists, rbufs, out>>
       /\ j' \in Files
  BY <1>1, <1>5
<1>14. \A f \in Files :
           /\ Extends(wbufs[f].file, wbufs'[f].file)
           /\ \/ pc' # "rows" \/ program.files = 1 \/ (at' > End /\ f < j')
              => wbufs'[f].buffer = << >>
           /\ InOrder(wbufs'[f], f, at' - 1)
  BY <1>10, <1>12, <1>13
<1>. QED
  BY <1>1, <1>3, <1>9, <1>11, <1>13, <1>14, PartitionGoesOn

\* A file is flushed and closed; with the last one the run went through.
LEMMA PartitionFlushStep ==
    ASSUME IInv, program.name = "bpartition", FlushFile
    PROVE  IInv'
<1>1. /\ pc = "rows" /\ at > End /\ UNCHANGED <<input, torn, exists, rbufs, out>>
      /\ wbufs' = [wbufs EXCEPT ![j] = WriteFlush(wbufs[j])]
      /\ IF j < program.files THEN j' = j + 1 /\ UNCHANGED <<run, at, whole, pc>>
         ELSE whole' = whole \union {run} /\ pc' = "remove" /\ j' = 1 /\ UNCHANGED <<run, at>>
  BY DEF FlushFile, Flushes, Closed
<1>2. /\ Partitioning /\ TypeOK /\ PartitionInv /\ program.files \in Nat \ {0} /\ Len(rows) \in Nat
      /\ Before \in Nat /\ End \in Nat /\ Before <= End /\ End <= Len(rows)
      /\ at \in Nat \ {0} /\ at \in Before + 1..End + 1
  BY <1>1, PartitionParts
<1>3. at = End + 1 /\ at' = at /\ run' = run
  BY <1>1, <1>2
<1>4. /\ j \in Files /\ wbufs \in [Files -> WriteBuf]
      /\ \A f \in Files : /\ InOrder(wbufs[f], f, at - 1)
                          /\ program.files = 1 \/ f < j => wbufs[f].buffer = << >>
      /\ \A i \in Before + 1..at - 1 : IsDumped(i)
  BY <1>1, <1>2 DEF PartitionInv, KeptInv, TypeOK
<1>5. LET v == WriteFlush(wbufs[j])
      IN  /\ v \in WriteBuf /\ v.buffer = << >> /\ Extends(wbufs[j].file, v.file)
          /\ InOrder(v, j, at - 1) /\ RowsOut(v) = RowsOut(wbufs[j])
  <2>1. wbufs[j] \in WriteBuf /\ InOrder(wbufs[j], j, at - 1)
    BY <1>4
  <2>. QED
    BY <2>1, FlushInOrder
<1>6. wbufs'[j] = WriteFlush(wbufs[j]) /\ \A f \in Files : f # j => wbufs'[f] = wbufs[f]
  BY <1>1, <1>4
<1>7. wbufs' \in [Files -> WriteBuf]
  BY <1>1, <1>4, <1>5
<1>8. ASSUME NEW f \in Files
      PROVE  /\ Extends(wbufs[f].file, wbufs'[f].file) /\ InOrder(wbufs'[f], f, at - 1)
             /\ RowsOut(wbufs'[f]) = RowsOut(wbufs[f])
             /\ program.files = 1 \/ f < j \/ f = j => wbufs'[f].buffer = << >>
  <2>1. CASE f = j
    BY <1>5, <1>6, <2>1
  <2>2. CASE f # j
    <3>1. Extends(wbufs[f].file, wbufs[f].file)
      BY <1>4 DEF Extends, WriteBuf
    <3>. QED
      BY <1>4, <1>6, <2>2, <3>1
  <2>. QED
    BY <2>1, <2>2
<1>9. ASSUME NEW i \in Before + 1..at' - 1
      PROVE  i \in ToSet(RowsOut(wbufs'[BucketOf(i)]))
  <2>1. i \in Before + 1..at - 1 /\ i \in 1..Len(rows)
    <3>1. i \in Before + 1..End
      BY <1>2, <1>3
    <3>. QED
      BY <1>2, <1>3, <3>1
  <2>2. BucketOf(i) \in Files
    BY <1>2, <2>1, PartitionGiven
  <2>. QED
    BY <1>4, <1>8, <2>1, <2>2 DEF IsDumped
<1>10. /\ j' \in Files /\ pc' \in {"rows", "remove"} /\ at' \in Before + 1..End + 1
       /\ pc' = "rows" => j' = j + 1 /\ whole' = whole /\ ~(at' <= End)
       /\ pc' = "remove" => whole' = whole \union {run} /\ at' = End + 1 /\ ~(j < program.files)
  <2>1. ~(End + 1 <= End)
    BY <1>2
  <2>2. j \in Nat /\ 1 <= j /\ j <= program.files /\ 1 \in Files /\ (j < program.files => j + 1 \in Files)
    BY <1>2, <1>4 DEF Files
  <2>. QED
    BY <1>1, <1>2, <1>3, <2>1, <2>2
<1>11. \A f \in Files :
           /\ Extends(wbufs[f].file, wbufs'[f].file)
           /\ \/ pc' # "rows" \/ program.files = 1 \/ (at' > End /\ f < j')
              => wbufs'[f].buffer = << >>
           /\ InOrder(wbufs'[f], f, at' - 1)
  <2>. SUFFICES ASSUME NEW f \in Files,
                       \/ pc' # "rows" \/ program.files = 1 \/ (at' > End /\ f < j')
                PROVE  program.files = 1 \/ f < j \/ f = j
    BY <1>3, <1>8
  <2>1. f \in Nat /\ j \in Nat /\ f <= program.files
    BY <1>2, <1>4 DEF Files
  <2>. QED
    BY <1>2, <1>10, <2>1
<1>. QED
  BY <1>1, <1>3, <1>7, <1>9, <1>10, <1>11, PartitionGoesOn

-----------------------------------------------------------------------------
\* The program that wrote the input of bpartition: what it has dumped when it
\* has dumped row i.
Dumps(a, e, dumped) ==
    dumped = [i \in a - 1..e |-> IF i < a THEN WbufInit ELSE Dump(dumped[i - 1], i, rows[i])]

\* There is such a function, and it is a run of the writer from row a on.
LEMMA DumpsRun ==
    ASSUME Partitioning, NEW a \in Nat \ {0}, NEW e \in Nat, a <= e, e <= Len(rows),
           NEW dumped, dumped = CHOOSE g : Dumps(a, e, g)
    PROVE  dumped[e] \in WriteBuf /\ WriterRun(rows, dumped[e], a, e)
<1>1. /\ rows \in Seq(Row) /\ Len(rows) \in Nat
      /\ \A i \in 1..Len(rows) : RowSize(rows[i]) <= BUFFER_SIZE
  BY PartitionGiven
<1>. DEFINE n == e + 1 - a
            F == [k \in 1..n |-> [w \in WriteBuf |-> Dump(w, a - 1 + k, rows[a - 1 + k])]]
<1>2. n \in Nat /\ a - 1 + n = e /\ \A k \in 1..n : a - 1 + k \in 1..Len(rows) /\ a - 1 + k \in Nat
  BY <1>1
<1>3. WbufInit \in WriteBuf /\ WbufInit.buffer = << >> /\ WbufInit.file = << >>
  BY DEF WbufInit, WriteBuf
<1>4. F \in [1..n -> [WriteBuf -> WriteBuf]]
  <2>1. ASSUME NEW k \in 1..n, NEW w \in WriteBuf PROVE Dump(w, a - 1 + k, rows[a - 1 + k]) \in WriteBuf
    <3>1. rows[a - 1 + k] \in Row /\ a - 1 + k \in Nat
      BY <1>1, <1>2
    <3>. QED
      BY <3>1, DumpedRow
  <2>. QED
    BY <2>1
<1>. HIDE DEF F
<1>5. PICK f \in [0..n -> WriteBuf] : Follows(n, WbufInit, F, f)
  <2>. HIDE DEF n
  <2>. QED
    BY <1>2, <1>3, <1>4, StepByStep
<1>6. f[0] = WbufInit /\ \A k \in 1..n : f[k] = Dump(f[k - 1], a - 1 + k, rows[a - 1 + k])
  <2>1. \A k \in 1..n : f[k - 1] \in WriteBuf
    <3>1. \A k \in 1..n : k - 1 \in 0..n
      BY <1>2
    <3>. QED
      BY <3>1
  <2>. QED
    BY <1>5, <2>1 DEF F, Follows
<1>. DEFINE h == [i \in a - 1..e |-> f[i - (a - 1)]]
<1>7. Dumps(a, e, h)
  <2>1. ASSUME NEW i \in a - 1..e
        PROVE  h[i] = IF i < a THEN WbufInit ELSE Dump(h[i - 1], i, rows[i])
    <3>1. CASE i < a
      <4>1. i - (a - 1) = 0
        BY <3>1
      <4>. QED
        BY <1>6, <3>1, <4>1
    <3>2. CASE ~(i < a)
      <4>. DEFINE k == i - (a - 1)
      <4>1. k \in 1..n /\ a - 1 + k = i /\ i - 1 \in a - 1..e /\ (i - 1) - (a - 1) = k - 1
        BY <1>2, <3>2
      <4>2. h[i] = f[k] /\ h[i - 1] = f[k - 1]
        BY <4>1
      <4>. HIDE DEF k, h
      <4>. QED
        BY <1>6, <3>2, <4>1, <4>2
    <3>. QED
      BY <3>1, <3>2
  <2>2. h = [i \in a - 1..e |-> h[i]]
    OBVIOUS
  <2>. HIDE DEF h
  <2>. QED
    BY <2>1, <2>2 DEF Dumps
<1>8. Dumps(a, e, dumped)
  BY <1>7, Zenon
<1>9. \A i \in a - 1..e : dumped[i] = IF i < a THEN WbufInit ELSE Dump(dumped[i - 1], i, rows[i])
  BY <1>8 DEF Dumps
<1>10. \A k \in 0..n : dumped[a - 1 + k] = f[k] /\ WriterRun(rows, f[k], a, a - 1 + k)
  <2>. DEFINE P == {k \in 0..n : dumped[a - 1 + k] = f[k] /\ WriterRun(rows, f[k], a, a - 1 + k)}
  <2>1. 0 \in P
    <3>1. a - 1 + 0 \in a - 1..e /\ a - 1 + 0 < a /\ 0 \in 0..n
      BY <1>2
    <3>2. dumped[a - 1 + 0] = WbufInit
      BY <1>9, <3>1
    <3>3. WriterRun(rows, WbufInit, a, a - 1 + 0)
      BY <1>3 DEF WriterRun, FileRun, FileEnd
    <3>. QED
      BY <1>6, <3>1, <3>2, <3>3
  <2>2. ASSUME NEW k \in 1..n, k - 1 \in P PROVE k \in P
    <3>. DEFINE m == a - 1 + (k - 1)
                w == f[k - 1]
    <3>1. /\ m \in Nat /\ m + 1 = a - 1 + k /\ m + 1 \in 1..Len(rows) /\ m + 1 \in a - 1..e
          /\ ~(m + 1 < a) /\ (m + 1) - 1 = m /\ k \in 0..n /\ k - 1 \in 0..n
      BY <1>1, <1>2
    <3>2. dumped[m] = w /\ WriterRun(rows, w, a, m) /\ w \in WriteBuf
      BY <2>2, <3>1
    <3>3. f[k] = Dump(w, m + 1, rows[m + 1])
      BY <1>6, <3>1
    <3>4. dumped[m + 1] = Dump(w, m + 1, rows[m + 1])
      BY <1>9, <3>1, <3>2
    <3>5. RowSize(rows[m + 1]) <= BUFFER_SIZE
      BY <1>1, <3>1
    <3>. HIDE DEF m, w
    <3>6. WriterRun(rows, Dump(w, m + 1, rows[m + 1]), a, m + 1)
      BY <1>1, <3>1, <3>2, <3>5, DumpState
    <3>. QED
      BY <3>1, <3>3, <3>4, <3>6
  <2>. HIDE DEF P
  <2>3. \A k \in 0..n : k \in P
    <3>. HIDE DEF n
    <3>. QED
      BY <1>2, <2>1, <2>2, UpFromZero
  <2>. QED
    BY <2>3 DEF P
<1>11. n \in 0..n /\ f[n] \in WriteBuf
  BY <1>2
<1>. QED
  BY <1>2, <1>10, <1>11

\* The first chunk of the input from row at on starts with this row.
LEMMA FirstInputChunk ==
    ASSUME Partitioning, at \in Nat \ {0}, End \in Nat, at <= End, End <= Len(rows)
    PROVE  LET c == InputChunks[1]
           IN  /\ c \in Seq(Cell) /\ c # << >> /\ WholeRows(rows, c)
               /\ LastRow(c) \in at..End
               /\ RowsOf(c) = Numbers(at, LastRow(c))
<1>. DEFINE g == CHOOSE g : Dumps(at, End, g)
            v == WriteFlush(g[End])
<1>1. InputChunks = v.file
  BY Zenon DEF InputChunks, Dumps
<1>2. g[End] \in WriteBuf /\ WriterRun(rows, g[End], at, End)
  BY DumpsRun
<1>. HIDE DEF g
<1>3. v \in WriteBuf /\ v.buffer = << >> /\ WriterRun(rows, v, at, End)
  BY <1>2, FlushState
<1>. DEFINE file == v.file
<1>. HIDE DEF v
<1>4. rows \in Seq(Row) /\ Len(rows) \in Nat
  BY PartitionGiven
<1>5. file \in Seq(Seq(Cell)) /\ HoldsRows(rows, file, at, End)
  BY <1>3, <1>4 DEF WriterRun, WriteBuf, HoldsRows
<1>. HIDE DEF file
<1>6. End \in 0..Len(rows)
  BY <1>4
<1>7. /\ \A c \in 1..Len(file) : file[c] \in Seq(Cell) /\ Chunk(rows, file[c])
      /\ IF file = << >> THEN End = at - 1 ELSE FirstRow(file[1]) = at
  BY <1>5, <1>6, FileParts
<1>8. file # << >> /\ 1 \in 1..Len(file)
  <2>1. file # << >>
    BY <1>7
  <2>. QED
    BY <1>5, <2>1
<1>. DEFINE c == file[1]
<1>9. c \in Seq(Cell) /\ Block(rows, c) /\ FirstRow(c) = at
  BY <1>7, <1>8 DEF Chunk
<1>10. LastRow(c) \in Nat /\ at <= LastRow(c) /\ LastRow(c) <= End
  BY <1>5, <1>6, <1>8, <1>9, ChunkRows
<1>11. RowsOf(c) = Numbers(at, LastRow(c))
  BY <1>4, <1>9, BlockRowsFound
<1>12. WholeRows(rows, c) /\ c # << >>
  BY <1>9 DEF Block
<1>. QED
  BY <1>1, <1>9, <1>10, <1>11, <1>12 DEF file

\* What the parts of a sequence are.
LEMMA JoinParts ==
    ASSUME NEW s \in Seq(Nat), NEW t \in Seq(Nat)
    PROVE  /\ s \o t \in Seq(Nat) /\ Len(s \o t) = Len(s) + Len(t) /\ Len(s) \in Nat
           /\ \A k \in 1..Len(s) : (s \o t)[k] = s[k]
           /\ \A k \in 1..Len(t) : (s \o t)[Len(s) + k] = t[k]
  OBVIOUS

\* Numbers that rise, followed by the next ones, rise.
LEMMA NumbersFollow ==
    ASSUME NEW s \in Seq(Nat), NEW n \in Nat, NEW l \in Nat, n + 1 <= l, NEW B, n + 1..l \subseteq B,
           \A k \in 1..Len(s) : s[k] \in 1..n /\ s[k] \in B,
           \A k \in 1..Len(s) - 1 : s[k] < s[k + 1]
    PROVE  LET t == s \o Numbers(n + 1, l)
           IN  /\ \A k \in 1..Len(t) : t[k] \in 1..l /\ t[k] \in B
               /\ \A k \in 1..Len(t) - 1 : t[k] < t[k + 1]
<1>. DEFINE more == Numbers(n + 1, l)
            t == s \o more
<1>1. more \in Seq(Nat) /\ Len(more) = l - n /\ l - n \in Nat /\ \A k \in 1..l - n : more[k] = n + k
  <2>1. n + 1 \in Nat /\ l \in Int /\ n + 1 <= l + 1 /\ l <= l /\ l + 1 - (n + 1) = l - n /\ l - n \in Nat
    OBVIOUS
  <2>2. Numbers(n + 1, l) \in Seq(Nat) /\ Len(Numbers(n + 1, l)) = l + 1 - (n + 1)
    BY <2>1, NumbersJoin
  <2>3. \A k \in 1..l - n : Numbers(n + 1, l)[k] = n + k
    BY <2>1 DEF Numbers
  <2>. QED
    BY <2>1, <2>2, <2>3
<1>. HIDE DEF more
<1>2. /\ Len(s) \in Nat /\ Len(t) = Len(s) + (l - n)
      /\ \A k \in 1..Len(s) : t[k] = s[k]
      /\ \A k \in 1..l - n : t[Len(s) + k] = more[k]
  <2>1. /\ Len(t) = Len(s) + Len(more) /\ Len(s) \in Nat
        /\ \A k \in 1..Len(s) : t[k] = s[k]
        /\ \A k \in 1..Len(more) : t[Len(s) + k] = more[k]
    BY <1>1, JoinParts
  <2>. HIDE DEF t
  <2>. QED
    BY <1>1, <2>1
<1>. HIDE DEF t
<1>3. \A k \in 1..l - n : t[Len(s) + k] = n + k /\ n + k \in n + 1..l
  <2>1. \A k \in 1..l - n : n + k \in n + 1..l
    OBVIOUS
  <2>. QED
    BY <1>1, <1>2, <2>1
<1>4. ASSUME NEW k \in 1..Len(t) PROVE t[k] \in 1..l /\ t[k] \in B
  <2>1. CASE k <= Len(s)
    <3>1. k \in 1..Len(s)
      BY <1>2, <2>1
    <3>2. t[k] \in 1..n /\ t[k] \in B
      BY <1>2, <3>1
    <3>. QED
      BY <3>2
  <2>2. CASE ~(k <= Len(s))
    <3>. DEFINE q == k - Len(s)
    <3>1. q \in 1..l - n /\ Len(s) + q = k
      BY <1>2, <2>2
    <3>. HIDE DEF q
    <3>2. t[k] = n + q /\ n + q \in n + 1..l
      BY <1>3, <3>1
    <3>. QED
      BY <3>2
  <2>. QED
    BY <2>1, <2>2
<1>5. ASSUME NEW k \in 1..Len(t) - 1 PROVE t[k] < t[k + 1]
  <2>1. CASE k < Len(s)
    <3>1. k \in 1..Len(s) - 1 /\ k \in 1..Len(s) /\ k + 1 \in 1..Len(s)
      BY <1>2, <2>1
    <3>. QED
      BY <1>2, <3>1
  <2>2. CASE k = Len(s)
    <3>1. k \in 1..Len(s) /\ 1 \in 1..l - n
      BY <1>2, <2>2
    <3>2. t[k] \in 1..n /\ t[k + 1] = n + 1
      BY <1>2, <1>3, <2>2, <3>1
    <3>. QED
      BY <3>2
  <2>3. CASE k > Len(s)
    <3>. DEFINE q == k - Len(s)
    <3>1. q \in 1..l - n /\ q + 1 \in 1..l - n /\ Len(s) + q = k /\ Len(s) + (q + 1) = k + 1
      BY <1>2, <2>3
    <3>. HIDE DEF q
    <3>2. t[k] = n + q /\ t[k + 1] = n + (q + 1)
      BY <1>3, <3>1
    <3>. QED
      BY <3>1, <3>2
  <2>. QED
    BY <1>2, <2>1, <2>2, <2>3
<1>. QED
  BY <1>4, <1>5 DEF t, more

\* Later rows of the bucket that are buffered follow in order.
LEMMA ChunkInOrder ==
    ASSUME NEW w \in WriteBuf, w.buffer = << >>, NEW f, NEW n \in Nat, InOrder(w, f, n),
           NEW u \in WriteBuf, u.file = w.file, WholeRows(rows, u.buffer),
           NEW l \in Nat, n + 1 <= l, RowsOf(u.buffer) = Numbers(n + 1, l),
           \A i \in n + 1..l : BucketOf(i) = f
    PROVE  /\ InOrder(u, f, l)
           /\ RowsOut(w) \in Seq(Nat) /\ RowsOut(u) = RowsOut(w) \o Numbers(n + 1, l)
<1>. DEFINE old == RowsOut(w)
            more == Numbers(n + 1, l)
<1>1. w.file \in Seq(Seq(Cell))
  BY DEF WriteBuf
<1>3. old \in Seq(Nat) /\ RowsOut(u) = old \o more
  <2>1. RowsOut(w) \in Seq(Nat) /\ RowsOut(w) = RowsOfFile(w.file)
    BY BufferLast
  <2>2. PICK g : Gathers(u.file, g) /\ RowsOut(u) = g[Len(u.file)] \o RowsOf(u.buffer)
    BY <1>1, GathersRows
  <2>3. PICK h : Gathers(w.file, h) /\ RowsOfFile(w.file) = h[Len(w.file)]
    BY <1>1, FileGathers
  <2>4. g[Len(w.file)] = h[Len(w.file)]
    <3>. DEFINE file == w.file
    <3>1. /\ file \in Seq(Seq(Cell)) /\ Len(file) \in Nat /\ Len(file) <= Len(file)
          /\ Gathers(file, g) /\ Gathers(file, h)
      BY <1>1, <2>2, <2>3
    <3>. HIDE DEF file
    <3>2. g[Len(file)] = h[Len(file)]
      BY <3>1, GathersSame
    <3>. QED
      BY <3>2 DEF file
  <2>. QED
    BY <1>1, <2>1, <2>2, <2>3, <2>4
<1>4. WholeOutput(rows, u)
  BY <1>1 DEF InOrder, WholeOutput
<1>5. LET s == old \o more
      IN  /\ \A k \in 1..Len(s) : s[k] \in 1..l /\ BucketOf(s[k]) = f
          /\ \A k \in 1..Len(s) - 1 : s[k] < s[k + 1]
  <2>. DEFINE B == {i \in 1..l : BucketOf(i) = f}
  <2>1. /\ \A k \in 1..Len(old) : old[k] \in 1..n /\ BucketOf(old[k]) = f
        /\ \A k \in 1..Len(old) - 1 : old[k] < old[k + 1]
    BY DEF InOrder
  <2>. HIDE DEF old
  <2>2. \A k \in 1..Len(old) : old[k] \in 1..n /\ old[k] \in B
    BY <2>1
  <2>3. n + 1..l \subseteq B
    OBVIOUS
  <2>. HIDE DEF B
  <2>4. LET t == old \o Numbers(n + 1, l)
        IN  /\ \A k \in 1..Len(t) : t[k] \in 1..l /\ t[k] \in B
            /\ \A k \in 1..Len(t) - 1 : t[k] < t[k + 1]
    BY <1>3, <2>1, <2>2, <2>3, NumbersFollow
  <2>5. \A i \in B : BucketOf(i) = f
    BY DEF B
  <2>. QED
    BY <2>4, <2>5, Zenon
<1>6. InOrder(u, f, l)
  BY <1>3, <1>4, <1>5 DEF InOrder
<1>. QED
  BY <1>3, <1>6

\* With one bucket, a chunk of the input is appended to its file.
LEMMA PartitionChunkStep ==
    ASSUME IInv, PartitionChunk
    PROVE  IInv'
<1>. DEFINE c == InputChunks[1]
            l == LastRow(c)
<1>1. /\ program.name = "bpartition" /\ pc = "rows" /\ at <= End /\ program.files = 1
      /\ at' = l + 1 /\ UNCHANGED <<input, run, j, torn, exists, whole, rbufs, out, pc>>
  BY DEF PartitionChunk, Partitions
<1>2. /\ Partitioning /\ TypeOK /\ PartitionInv /\ Len(rows) \in Nat
      /\ Before \in Nat /\ End \in Nat /\ Before <= End /\ End <= Len(rows)
      /\ at \in Nat \ {0} /\ at \in Before + 1..End + 1
  BY <1>1, PartitionParts
<1>3. /\ c \in Seq(Cell) /\ c # << >> /\ WholeRows(rows, c) /\ l \in at..End
      /\ RowsOf(c) = Numbers(at, l)
  BY <1>1, <1>2, FirstInputChunk
<1>4. /\ j = 1 /\ wbufs \in [Files -> WriteBuf]
      /\ \A f \in Files : InOrder(wbufs[f], f, at - 1) /\ wbufs[f].buffer = << >>
      /\ \A i \in Before + 1..at - 1 : IsDumped(i)
  BY <1>1, <1>2 DEF PartitionInv, KeptInv, TypeOK
<1>5. wbufs' = [wbufs EXCEPT ![1] = [wbufs[1] EXCEPT !.file = Append(wbufs[1].file, c)]]
  BY <1>1, Zenon DEF PartitionChunk, Partitioned
<1>. HIDE DEF c, l
<1>6. Files = {1} /\ \A i \in 1..Len(rows) : BucketOf(i) = 1
  <2>1. Files = {1}
    BY <1>1 DEF Files
  <2>. QED
    BY <1>2, <2>1, PartitionGiven
<1>. DEFINE w == wbufs[1]
            u == [buffer |-> c, file |-> w.file]
            v == WriteFlush(u)
<1>7. /\ v \in WriteBuf /\ v.buffer = << >> /\ Extends(w.file, v.file) /\ InOrder(v, 1, l)
      /\ RowsOut(w) \in Seq(Nat) /\ RowsOut(v) = RowsOut(w) \o Numbers(at, l)
  <2>. DEFINE n == at - 1
  <2>1. /\ n \in Nat /\ n + 1 = at /\ l \in Nat /\ n + 1 <= l
        /\ \A i \in n + 1..l : BucketOf(i) = 1
    BY <1>2, <1>3, <1>6
  <2>2. w \in WriteBuf /\ w.buffer = << >> /\ InOrder(w, 1, n)
    BY <1>4, <1>6
  <2>. HIDE DEF n, w, v
  <2>3. u \in WriteBuf /\ u.buffer = c /\ u.file = w.file
    BY <1>3, <2>2 DEF WriteBuf
  <2>. HIDE DEF u
  <2>4. WholeRows(rows, u.buffer) /\ RowsOf(u.buffer) = Numbers(n + 1, l)
    BY <1>3, <2>1, <2>3
  <2>5. /\ InOrder(u, 1, l)
        /\ RowsOut(w) \in Seq(Nat) /\ RowsOut(u) = RowsOut(w) \o Numbers(n + 1, l)
    <3>. DEFINE f == 1
    <3>1. /\ n \in Nat /\ l \in Nat /\ n + 1 <= l /\ w \in WriteBuf /\ w.buffer = << >>
          /\ InOrder(w, f, n) /\ \A i \in n + 1..l : BucketOf(i) = f
      BY <2>1, <2>2
    <3>. HIDE DEF f
    <3>2. InOrder(u, f, l) /\ RowsOut(w) \in Seq(Nat) /\ RowsOut(u) = RowsOut(w) \o Numbers(n + 1, l)
      BY <2>3, <2>4, <3>1, ChunkInOrder, SMTT(60)
    <3>. QED
      BY <3>2, Zenon DEF f
  <2>6. /\ v \in WriteBuf /\ v.buffer = << >> /\ Extends(u.file, v.file)
        /\ InOrder(v, 1, l) /\ RowsOut(v) = RowsOut(u)
    BY <2>3, <2>5, FlushInOrder DEF v
  <2>. QED
    BY <2>1, <2>3, <2>5, <2>6
<1>8. wbufs'[1] = v
  <2>. DEFINE file2 == Append(w.file, c)
  <2>1. w \in WriteBuf /\ w.buffer = << >> /\ wbufs' = [wbufs EXCEPT ![1] = [w EXCEPT !.file = file2]]
    BY <1>4, <1>5, <1>6
  <2>2. 1 \in Files
    BY <1>6
  <2>3. v = [buffer |-> << >>, file |-> file2]
    BY <1>3 DEF WriteFlush
  <2>. HIDE DEF file2, v
  <2>4. wbufs'[1] = [w EXCEPT !.file = file2]
    BY <1>4, <2>1, <2>2
  <2>. HIDE DEF w
  <2>5. w = [buffer |-> << >>, file |-> w.file]
    BY <2>1 DEF WriteBuf
  <2>6. [w EXCEPT !.file = file2] = [buffer |-> << >>, file |-> file2]
    BY <2>5
  <2>. QED
    BY <2>3, <2>4, <2>6
<1>. HIDE DEF u, v
<1>9. wbufs' \in [Files -> WriteBuf]
  <2>1. wbufs'[1] \in WriteBuf
    BY <1>7, <1>8
  <2>2. DOMAIN wbufs' = Files
    BY <1>4, <1>5
  <2>3. wbufs' = [f \in Files |-> wbufs'[f]]
    BY <1>4, <1>5, <2>2
  <2>. QED
    BY <1>6, <2>1, <2>3
<1>10. at' - 1 = l /\ at' \in Before + 1..End + 1 /\ l \in Nat
  BY <1>1, <1>2, <1>3
<1>11. ASSUME NEW i \in Before + 1..at' - 1
       PROVE  i \in ToSet(RowsOut(wbufs'[BucketOf(i)]))
  <2>. DEFINE s == RowsOut(wbufs[1])
              more == Numbers(at, l)
              b == BucketOf(i)
  <2>1. i \in Before + 1..l /\ i \in 1..Len(rows)
    <3>1. i \in Before + 1..l
      BY <1>10
    <3>. QED
      BY <1>2, <1>3, <3>1
  <2>2. b = 1 /\ s \in Seq(Nat) /\ RowsOut(wbufs'[1]) = s \o more
    BY <1>6, <1>7, <1>8, <2>1
  <2>3. more \in Seq(Nat) /\ Len(more) = l + 1 - at /\ \A k \in 1..l + 1 - at : more[k] = at + k - 1
    <3>1. at \in Nat /\ l \in Int /\ at <= l + 1 /\ l <= l
      BY <1>2, <1>3
    <3>2. Numbers(at, l) \in Seq(Nat) /\ Len(Numbers(at, l)) = l + 1 - at
      BY <3>1, NumbersJoin
    <3>. QED
      BY <3>2 DEF Numbers
  <2>4. i \in Before + 1..at - 1 => i \in ToSet(s)
    BY <1>4, <2>2 DEF IsDumped
  <2>. HIDE DEF s, more
  <2>5. s \o more \in Seq(Nat) /\ Starts(s, s \o more)
    BY <2>2, <2>3 DEF Starts
  <2>6. i \in ToSet(s \o more)
    <3>1. CASE i <= at - 1
      <4>1. i \in Before + 1..at - 1
        BY <1>2, <2>1, <3>1
      <4>2. ToSet(s) \subseteq ToSet(s \o more)
        BY <2>2, <2>5, StartsIn
      <4>. QED
        BY <2>4, <4>1, <4>2
    <3>2. CASE ~(i <= at - 1)
      <4>. DEFINE k == i + 1 - at
      <4>1. k \in 1..l + 1 - at /\ at + k - 1 = i
        BY <1>2, <1>3, <2>1, <3>2
      <4>. HIDE DEF k
      <4>2. Len(s) + k \in 1..Len(s \o more) /\ (s \o more)[Len(s) + k] = i
        BY <2>2, <2>3, <4>1
      <4>. QED
        BY <2>5, <4>2, IsIn
    <3>. QED
      BY <3>1, <3>2
  <2>. QED
    BY <2>2, <2>6
<1>12. /\ j' = 1 /\ pc' = "rows" /\ whole' = whole /\ UNCHANGED <<input, run, torn, exists, rbufs, out>>
       /\ j' \in Files /\ pc' \in {"rows", "remove"}
  BY <1>1, <1>4, <1>6
<1>13. \A f \in Files :
           /\ Extends(wbufs[f].file, wbufs'[f].file)
           /\ \/ pc' # "rows" \/ program.files = 1 \/ (at' > End /\ f < j')
              => wbufs'[f].buffer = << >>
           /\ InOrder(wbufs'[f], f, at' - 1)
  BY <1>6, <1>7, <1>8, <1>10
<1>. QED
  BY <1>1, <1>9, <1>10, <1>11, <1>12, <1>13, PartitionGoesOn

-----------------------------------------------------------------------------
\* A step that changes nothing.
LEMMA StutterStep ==
    ASSUME IInv, UNCHANGED vars
    PROVE  IInv'
<1>1. /\ program' = program /\ rows' = rows /\ run' = run /\ at' = at /\ j' = j /\ wbufs' = wbufs
      /\ torn' = torn /\ exists' = exists /\ whole' = whole /\ rbufs' = rbufs /\ out' = out /\ pc' = pc
  BY DEF vars
<1>2. TypeOK'
  BY <1>1 DEF IInv, TypeOK, Files
<1>3. /\ Files' = Files /\ Before' = Before /\ End' = End /\ Selected' = Selected /\ (Zips' <=> Zips)
      /\ (Dupe' <=> Dupe)
  BY <1>1, Zenon DEF Files, Before, End, Selected, Zips, Dupe
<1>4. \A f : /\ ColumnTable(f)' = ColumnTable(f) /\ RowCount(f)' = RowCount(f)
             /\ Dumped(f)' = Dumped(f) /\ RowsIn(f)' = RowsIn(f)
  BY <1>1, <1>3, Zenon DEF ColumnTable, ColumnRow, RowCount, Dumped, RowsIn, End
<1>5. UnzipInv' <=> UnzipInv
  BY <1>1, <1>3, <1>4, Zenon DEF UnzipInv, WritingInv, WrittenInv
<1>6. (\A rb, f, n : ReadUpTo(rb, f, n)' <=> ReadUpTo(rb, f, n))
  BY <1>1, <1>3, <1>4, Zenon DEF ReadUpTo
<1>7. (ZipsWholeRows' <=> ZipsWholeRows)
  BY <1>1, <1>3, <1>4, Zenon DEF ZipsWholeRows
<1>8. (ZipInvertsUnzip' <=> ZipInvertsUnzip)
  BY <1>1, <1>3, <1>4, Zenon DEF ZipInvertsUnzip
<1>9. ZipInv' <=> ZipInv
  BY <1>1, <1>3, <1>4, <1>6, <1>7, <1>8, Zenon DEF ZipInv
<1>10. (\A n : (Fatal(n)' <=> Fatal(n)) /\ Printed(n)' = Printed(n))
  BY <1>1, <1>3, <1>4, Zenon DEF Fatal, Printed
<1>11. (\A n : Text(n)' = Text(n))
  BY <1>1, <1>3, <1>4, <1>10, Zenon DEF Text
<1>12. CatInv' <=> CatInv
  BY <1>1, <1>3, <1>4, <1>6, <1>10, <1>11, Zenon DEF CatInv, CatsHeads
<1>13. (\A i : /\ BucketOf(i)' = BucketOf(i) /\ RunOf(i)' = RunOf(i) /\ Readable(i)' = Readable(i))
  BY <1>1, Zenon DEF BucketOf, RunOf, Readable
<1>14. (\A w, f, n : InOrder(w, f, n)' <=> InOrder(w, f, n))
  BY <1>1, <1>13, Zenon DEF InOrder
<1>15. (\A f, i : Spoilt(f, i)' <=> Spoilt(f, i))
  BY <1>1, <1>13, Zenon DEF Spoilt
<1>16. (\A i : (IsDumped(i)' <=> IsDumped(i)) /\ (CanBeRead(i)' <=> CanBeRead(i)))
  BY <1>1, <1>13, Zenon DEF IsDumped, CanBeRead
<1>17. KeptInv' <=> KeptInv
  BY <1>1, <1>3, <1>13, <1>14, <1>15, <1>16, Zenon DEF KeptInv
<1>18. ListedInv' <=> ListedInv
  BY <1>1, <1>3, Zenon DEF ListedInv, Listing
<1>19. PartitionInv' <=> PartitionInv
  BY <1>1, <1>3, <1>17, <1>18, Zenon DEF PartitionInv
<1>. QED
  BY <1>1, <1>2, <1>5, <1>9, <1>12, <1>19, Zenon DEF IInv

\* Every step keeps the invariant, and a program is of one kind.
LEMMA NextIInv ==
    ASSUME IInv, [Next]_vars
    PROVE  IInv'
<1>1. program.name \in {"bunzip", "bpartition"}
  <2>1. Given(program, rows)
    BY DEF IInv, TypeOK
  <2>. QED
    BY <2>1, Zenon DEF Given
<1>2. CASE program.name = "bunzip"
  <2>1. pc # "remove"
    <3>1. Unzipping /\ pc \in {"open", "rows", "done", "died", program.then}
      BY <1>2, UnzipParts DEF UnzipInv
    <3>2. program.then \in {"zip", "cat"}
      BY <3>1, UnzipGiven
    <3>. QED
      BY <3>1, <3>2
  <2>2. CASE UnzipOpen
    BY <2>2, UnzipOpenStep
  <2>3. CASE UnzipColumn
    BY <2>3, UnzipColumnStep
  <2>4. CASE Kill \/ UnzipBadRow \/ KillWriting
    BY <1>2, <2>4, UnzipKillStep
  <2>5. CASE FlushFile
    BY <1>2, <2>5, UnzipFlushStep
  <2>6. CASE ZipDupe
    BY <2>6, ZipDupeStep
  <2>7. CASE ZipRow
    BY <2>7, ZipRowStep
  <2>8. CASE ZipStop
    BY <2>8, ZipStopStep
  <2>9. CASE CatRow
    BY <2>9, CatRowStep
  <2>10. CASE CatNextFile
    BY <2>10, CatNextFileStep
  <2>11. CASE CatDies
    BY <2>11, CatDiesStep
  <2>12. CASE CatEnd
    BY <2>12, CatEndStep
  <2>13. CASE UNCHANGED vars
    BY <2>13, StutterStep
  <2>14. ~PartitionOpen /\ ~PartitionRow /\ ~PartitionChunk /\ ~RemoveEmpty
    BY <1>2, <2>1 DEF PartitionOpen, PartitionRow, PartitionChunk, Partitions, RemoveEmpty
  <2>. QED
    BY <2>2, <2>3, <2>4, <2>5, <2>6, <2>7, <2>8, <2>9, <2>10, <2>11, <2>12, <2>13, <2>14, Zenon
    DEF Next, Terminated
<1>3. CASE program.name = "bpartition"
  <2>1. pc \notin {"zip", "cat"}
    <3>1. pc \in {"open", "rows", "remove", "done"}
      BY <1>3 DEF IInv, PartitionInv
    <3>. QED
      BY <3>1
  <2>2. CASE PartitionOpen
    BY <2>2, PartitionOpenStep
  <2>3. CASE PartitionRow
    BY <2>3, PartitionRowStep
  <2>4. CASE PartitionChunk
    BY <2>4, PartitionChunkStep
  <2>5. CASE RemoveEmpty
    BY <1>3, <2>5, RemoveEmptyStep
  <2>6. CASE FlushFile
    BY <1>3, <2>6, PartitionFlushStep
  <2>7. CASE Kill \/ KillWriting
    BY <1>3, <2>7, PartitionKillStep
  <2>8. CASE UNCHANGED vars
    BY <2>8, StutterStep
  <2>9. ~UnzipOpen /\ ~UnzipColumn /\ ~UnzipBadRow
    BY <1>3 DEF UnzipOpen, UnzipColumn, UnzipBadRow, Unzips
  <2>10. /\ ~ZipDupe /\ ~ZipRow /\ ~ZipStop
         /\ ~CatRow /\ ~CatNextFile /\ ~CatDies /\ ~CatEnd
    BY <2>1 DEF ZipDupe, ZipRow, ZipStop, CatRow, CatNextFile, CatDies, CatEnd, Cats
  <2>. QED
    BY <2>2, <2>3, <2>4, <2>5, <2>6, <2>7, <2>8, <2>9, <2>10, Zenon DEF Next, Terminated
<1>. QED
  BY <1>1, <1>2, <1>3

\* What was written by bunzip, bpartition, bzip and bcat is what IInv says.
THEOREM Invariance == Spec => []IInv
<1>1. Init => IInv
  BY InitIInv
<1>2. IInv /\ [Next]_vars => IInv'
  BY NextIInv
<1>. QED
  BY <1>1, <1>2, PTL DEF Spec

\* The state of the programs has its type.
THEOREM TypeCorrectness == Spec => []TypeOK
<1>1. IInv => TypeOK
  BY DEF IInv
<1>. QED
  BY <1>1, Invariance, PTL

\* bzip writes whole rows of the table, in their order, from the first.
THEOREM ZipsWhole == Spec => []ZipsWholeRows
<1>1. IInv => ZipsWholeRows
  BY DEF IInv, ZipInv, ZipsWholeRows, Zips
<1>. QED
  BY <1>1, Invariance, PTL

\* bzip inverts bunzip, and fails for no other reason than those named.
THEOREM ZipInverts == Spec => []ZipInvertsUnzip
<1>1. IInv => ZipInvertsUnzip
  BY Zenon DEF IInv, ZipInv, ZipInvertsUnzip, Zips
<1>. QED
  BY <1>1, Invariance, PTL

\* bcat prints the first rows of each file in turn.
THEOREM CatsFirstRows == Spec => []CatsHeads
<1>1. IInv => CatsHeads
  BY Zenon DEF IInv, CatInv, CatsHeads
<1>. QED
  BY <1>1, Invariance, PTL

\* What bpartition keeps of the rows.
LEMMA PartitionKept ==
    ASSUME IInv
    PROVE  PartitionKeepsRows
<1>. SUFFICES ASSUME program.name = "bpartition" PROVE PartitionKeepsRows
  BY DEF PartitionKeepsRows
<1>1. /\ TypeOK /\ PartitionInv /\ Len(rows) \in Nat /\ at \in Nat \ {0}
  BY PartitionParts
<1>2. \A n \in 1..Len(out) :
         out[n][2] \in exists /\ (wbufs[out[n][2]].file # << >> \/ torn[out[n][2]] # << >>)
  BY <1>1 DEF PartitionInv, ListedInv
<1>3. ASSUME NEW f \in Files
      PROVE  LET file == Readable(f)
                 kept == RowsOfFile(file)
             IN  /\ \A c \in 1..Len(file) : WholeRows(rows, file[c])
                 /\ \A n \in 1..Len(kept) : BucketOf(kept[n]) = f
                 /\ \A n \in 1..Len(kept) - 1 : kept[n] < kept[n + 1]
                 /\ \A i \in 1..Len(rows) : BucketOf(i) = f /\ RunOf(i) \in whole /\ ~Spoilt(f, i) =>
                        \E n \in 1..Len(kept) : kept[n] = i
  <2>. DEFINE file == Readable(f)
              kept == RowsOfFile(file)
              all == wbufs[f].file
              s == RowsOut(wbufs[f])
  <2>1. PICK m \in 0..Len(all) : file = SubSeq(all, 1, m) /\ all \in Seq(Seq(Cell)) /\ wbufs[f] \in WriteBuf
    BY <1>1, ReadableChunks
  <2>2. InOrder(wbufs[f], f, at - 1)
    BY <1>1 DEF PartitionInv, KeptInv
  <2>3. /\ \A c \in 1..Len(all) : WholeRows(rows, all[c])
        /\ \A k \in 1..Len(s) : s[k] \in 1..at - 1 /\ BucketOf(s[k]) = f
        /\ \A k \in 1..Len(s) - 1 : s[k] < s[k + 1]
    BY <2>2, Zenon DEF InOrder, WholeOutput
  <2>4. s \in Seq(Nat) /\ RowsOfFile(all) \in Seq(Nat) /\ Starts(RowsOfFile(all), s)
    BY <2>1, BufferLast
  <2>. HIDE DEF file, all, s
  <2>5. /\ file \in Seq(Seq(Cell)) /\ Len(file) = m /\ \A c \in 1..m : file[c] = all[c]
        /\ kept \in Seq(Nat) /\ Starts(kept, RowsOfFile(all))
    BY <2>1, FileStarts
  <2>6. \A c \in 1..Len(file) : WholeRows(rows, file[c])
    <3>1. \A c \in 1..m : c \in 1..Len(all)
      BY <2>1
    <3>. QED
      BY <2>3, <2>5, <3>1, Zenon
  <2>. HIDE DEF kept
  <2>7. Len(kept) \in Nat /\ Len(s) \in Nat /\ Len(kept) <= Len(s) /\ \A k \in 1..Len(kept) : kept[k] = s[k]
    BY <2>4, <2>5 DEF Starts
  <2>8. \A n \in 1..Len(kept) : BucketOf(kept[n]) = f
    <3>1. \A n \in 1..Len(kept) : n \in 1..Len(s)
      BY <2>7
    <3>. QED
      BY <2>3, <2>7, <3>1, Zenon
  <2>9. \A n \in 1..Len(kept) - 1 : kept[n] < kept[n + 1]
    <3>1. \A n \in 1..Len(kept) - 1 : n \in 1..Len(kept) /\ n + 1 \in 1..Len(kept) /\ n \in 1..Len(s) - 1
      BY <2>7
    <3>. QED
      BY <2>3, <2>7, <3>1
  <2>10. ASSUME NEW i \in 1..Len(rows), BucketOf(i) = f, RunOf(i) \in whole, ~Spoilt(f, i)
         PROVE  \E n \in 1..Len(kept) : kept[n] = i
    <3>1. CanBeRead(i)
      BY <1>1, <2>10, Zenon DEF PartitionInv, KeptInv
    <3>2. i \in ToSet(kept)
      BY <2>10, <3>1 DEF CanBeRead, kept, file
    <3>3. DOMAIN kept = 1..Len(kept)
      BY <2>5
    <3>. QED
      BY <3>2, <3>3, Zenon DEF ToSet
  <2>. QED
    BY <2>6, <2>8, <2>9, <2>10 DEF kept, file
<1>. QED
  BY <1>2, <1>3, Zenon DEF PartitionKeepsRows, Files

\* bpartition keeps the rows of each bucket, whole and in order.
THEOREM PartitionKeeps == Spec => []PartitionKeepsRows
<1>1. IInv => PartitionKeepsRows
  BY PartitionKept
<1>. QED
  BY <1>1, Invariance, PTL
=============================================================================
