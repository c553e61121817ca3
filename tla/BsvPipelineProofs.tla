------------------------- MODULE BsvPipelineProofs --------------------------
(***************************************************************************)
(* IInv is an inductive invariant of BsvPipeline, for pipelines, chunks,   *)
(* pipes and inputs of every size, and the four invariants follow from it. *)
(***************************************************************************)
EXTENDS BsvPipeline, Integers, SequenceTheorems, TLAPS

\* The elements of a concatenation, those of the first part first.
LEMMA Joined ==
    ASSUME NEW S, NEW s \in Seq(S), NEW t \in Seq(S)
    PROVE  /\ s \o t \in Seq(S) /\ Len(s \o t) = Len(s) + Len(t)
           /\ Len(s) \in Nat /\ Len(t) \in Nat
           /\ \A k \in 1..Len(s) : (s \o t)[k] = s[k]
           /\ \A k \in 1..Len(t) : (s \o t)[Len(s) + k] = t[k]
<1>1. Len(s) \in Nat /\ Len(t) \in Nat
  OBVIOUS
<1>2. /\ s \o t \in Seq(S) /\ Len(s \o t) = Len(s) + Len(t)
      /\ \A i \in 1..Len(s) + Len(t) : (s \o t)[i] = IF i <= Len(s) THEN s[i] ELSE t[i - Len(s)]
  BY ConcatProperties
<1>3. ASSUME NEW k \in 1..Len(t) PROVE (s \o t)[Len(s) + k] = t[k]
  <2>1. Len(s) + k \in 1..Len(s) + Len(t) /\ ~(Len(s) + k <= Len(s)) /\ Len(s) + k - Len(s) = k
    BY <1>1
  <2>. QED
    BY <1>2, <2>1
<1>. QED
  BY <1>1, <1>2, <1>3

\* Division with remainder, read from right to left.
LEMMA DivMod ==
    ASSUME NEW b \in Nat \ {0}, NEW q \in Nat, NEW r \in 0..b - 1
    PROVE  (q * b + r) \div b = q /\ (q * b + r) % b = r
OBVIOUS

\* Every number has a quotient and a remainder.
LEMMA Divided ==
    ASSUME NEW b \in Nat \ {0}, NEW a \in Nat
    PROVE  \E q \in Nat, r \in 0..b - 1 : a = q * b + r
<1>1. a \div b \in Nat /\ a % b \in 0..b - 1 /\ a = (a \div b) * b + (a % b)
  OBVIOUS
<1>. QED
  BY <1>1

\* Multiples of one number are at least that far apart.
LEMMA NextMultiple ==
    ASSUME NEW b \in Nat \ {0}, NEW i \in Nat, NEW j \in Nat, i < j
    PROVE  (i + 1) * b <= j * b /\ i * b + b = (i + 1) * b /\ i * b \in Nat /\ j * b \in Nat
OBVIOUS

\* A common factor of an inequality.
LEMMA Factor ==
    ASSUME NEW b \in Nat, NEW i \in Nat, NEW j \in Nat, i * b < j * b
    PROVE  i < j
OBVIOUS

\* How many chunks hold c full chunks of rows, and m more.
LEMMA ChunksOf ==
    ASSUME NEW c \in Nat
    PROVE  /\ c * CHUNK_ROWS \in Nat /\ Chunks(c * CHUNK_ROWS) = c
           /\ \A m \in 1..CHUNK_ROWS : Chunks(c * CHUNK_ROWS + m) = c + 1
<1>. DEFINE C == CHUNK_ROWS
<1>1. C \in Nat \ {0} /\ c * C \in Nat
  BY PipelineAssumption
<1>. HIDE DEF C
<1>2. (c * C + (C - 1)) \div C = c
  <2>1. C - 1 \in 0..C - 1
    BY <1>1
  <2>. QED
    BY <1>1, <2>1, DivMod
<1>3. ASSUME NEW m \in 1..C PROVE ((c + 1) * C + (m - 1)) \div C = c + 1
  <2>1. m - 1 \in 0..C - 1 /\ c + 1 \in Nat
    BY <1>1
  <2>. QED
    BY <1>1, <2>1, DivMod
<1>4. c * C + (C - 1) = c * C + C - 1
  BY <1>1
<1>5. ASSUME NEW m \in 1..C PROVE (c + 1) * C + (m - 1) = c * C + m + C - 1
  BY <1>1
<1>. QED
  BY <1>1, <1>2, <1>3, <1>4, <1>5 DEF Chunks, C

\* A number of chunks is a number.
LEMMA ChunksType ==
    ASSUME NEW n \in Nat
    PROVE  Chunks(n) \in Nat
BY PipelineAssumption DEF Chunks

\* The pieces of a file: the size of chunk k, and row j of it.
SizePiece(k) == k * (CHUNK_ROWS + 1) + 1
SizeIn(n, k) == IF (k + 1) * CHUNK_ROWS <= n THEN CHUNK_ROWS ELSE n - k * CHUNK_ROWS

\* Piece j of chunk k of a file is its size, or its j-th row.
LEMMA PieceOfFile ==
    ASSUME NEW n \in Nat, NEW k \in Nat, NEW j \in 0..CHUNK_ROWS,
           SizePiece(k) + j \in 1..n + Chunks(n)
    PROVE  FileOf(n)[SizePiece(k) + j] =
             IF j = 0 THEN SizeOf(SizeIn(n, k)) ELSE RowOf(k * CHUNK_ROWS + j)
<1>. DEFINE full == CHUNK_ROWS + 1
            p == SizePiece(k) + j
<1>1. CHUNK_ROWS \in Nat \ {0} /\ full \in Nat \ {0} /\ j \in 0..full - 1 /\ p - 1 = k * full + j
  BY PipelineAssumption DEF SizePiece
<1>. HIDE DEF full, p
<1>2. (p - 1) \div full = k /\ (p - 1) % full = j
  BY <1>1, DivMod
<1>3. p - 1 - k = k * CHUNK_ROWS + j
  BY <1>1 DEF full
<1>4. FileOf(n)[p] = IF (p - 1) % full = 0
                     THEN SizeOf(IF ((p - 1) \div full + 1) * CHUNK_ROWS <= n THEN CHUNK_ROWS
                                 ELSE n - ((p - 1) \div full) * CHUNK_ROWS)
                     ELSE RowOf(p - 1 - (p - 1) \div full)
  BY DEF FileOf, p, full
<1>. QED
  BY <1>2, <1>3, <1>4 DEF p, SizeIn

\* Every piece of a file is one of those, of a row that the file has.
LEMMA PiecesOfFile ==
    ASSUME NEW n \in Nat, NEW p \in 1..n + Chunks(n)
    PROVE  \E k \in Nat, j \in 0..CHUNK_ROWS :
               p = SizePiece(k) + j /\ k * CHUNK_ROWS + j <= n /\ k * CHUNK_ROWS < n
<1>. DEFINE C == CHUNK_ROWS
<1>1. C \in Nat \ {0} /\ C + 1 \in Nat \ {0} /\ p - 1 \in Nat
  BY PipelineAssumption, ChunksType
<1>2. PICK k \in Nat, j \in 0..C : p - 1 = k * (C + 1) + j
  <2>1. \E q \in Nat, r \in 0..(C + 1) - 1 : p - 1 = q * (C + 1) + r
    BY <1>1, Divided
  <2>. QED
    BY <1>1, <2>1
<1>3. PICK c \in Nat, m \in 0..C - 1 : n = c * C + m
  BY <1>1, Divided
<1>4. p = SizePiece(k) + j
  BY <1>1, <1>2 DEF SizePiece
<1>. HIDE DEF C
<1>5. k * C + j <= n /\ k * C < n
  <2>1. CASE k < c
    <3>1. (k + 1) * C <= c * C /\ k * C + C = (k + 1) * C /\ k * C \in Nat /\ c * C \in Nat
      BY <1>1, <2>1, NextMultiple
    <3>. QED
      BY <1>1, <1>2, <1>3, <3>1
  <2>2. CASE k >= c
    <3>1. m # 0
      <4>1. CASE m = 0
        <5>1. n = c * C
          BY <1>1, <1>3, <4>1
        <5>2. Chunks(n) = c
          BY <5>1, ChunksOf DEF C
        <5>3. k * (C + 1) < c * (C + 1)
          BY <1>1, <1>2, <5>1, <5>2
        <5>4. k < c
          BY <1>1, <5>3, Factor
        <5>. QED
          BY <2>2, <5>4
      <4>. QED
        BY <4>1
    <3>2. Chunks(n) = c + 1
      <4>1. m \in 1..CHUNK_ROWS
        BY <1>1, <1>3, <3>1 DEF C
      <4>. QED
        BY <1>3, <4>1, ChunksOf DEF C
    <3>3. k * (C + 1) + j <= c * (C + 1) + m
      BY <1>1, <1>2, <1>3, <3>2
    <3>4. k = c
      <4>1. k * (C + 1) < (c + 1) * (C + 1)
        BY <1>1, <1>2, <1>3, <3>3
      <4>2. k < c + 1
        BY <1>1, <4>1, Factor
      <4>. QED
        BY <2>2, <4>2
    <3>. QED
      BY <1>1, <1>2, <1>3, <3>1, <3>3, <3>4
  <2>. QED
    BY <2>1, <2>2
<1>. QED
  BY <1>4, <1>5 DEF C

\* No chunk of a file is empty, and none holds more than a buffer does.
LEMMA SizeInType ==
    ASSUME NEW n \in Nat, NEW k \in Nat, k * CHUNK_ROWS < n
    PROVE  SizeIn(n, k) \in 1..CHUNK_ROWS
<1>1. CHUNK_ROWS \in Nat \ {0} /\ k * CHUNK_ROWS \in Nat
      /\ (k + 1) * CHUNK_ROWS = k * CHUNK_ROWS + CHUNK_ROWS
  BY PipelineAssumption
<1>. QED
  BY <1>1 DEF SizeIn

\* A file is a sequence of pieces: its rows, and the size of each chunk.
LEMMA FileType ==
    ASSUME NEW n \in Nat
    PROVE  FileOf(n) \in Seq(Piece) /\ Len(FileOf(n)) = n + Chunks(n) /\ n + Chunks(n) \in Nat
<1>. DEFINE l == n + Chunks(n)
<1>1. l \in Nat /\ CHUNK_ROWS \in Nat
  BY ChunksType, PipelineAssumption
<1>2. FileOf(n) = [p \in 1..l |-> FileOf(n)[p]]
  BY DEF FileOf
<1>3. ASSUME NEW p \in 1..l PROVE FileOf(n)[p] \in Piece
  <2>1. PICK k \in Nat, j \in 0..CHUNK_ROWS :
               p = SizePiece(k) + j /\ k * CHUNK_ROWS + j <= n /\ k * CHUNK_ROWS < n
    BY PiecesOfFile
  <2>2. FileOf(n)[p] = IF j = 0 THEN SizeOf(SizeIn(n, k)) ELSE RowOf(k * CHUNK_ROWS + j)
    BY <2>1, PieceOfFile
  <2>3. SizeIn(n, k) \in Nat /\ k * CHUNK_ROWS + j \in Nat
    <3>1. SizeIn(n, k) \in 1..CHUNK_ROWS
      BY <2>1, SizeInType
    <3>. QED
      BY <1>1, <3>1
  <2>. QED
    BY <2>2, <2>3 DEF SizeOf, RowOf, Piece
<1>. HIDE DEF l
<1>4. FileOf(n) \in [1..l -> Piece]
  BY <1>2, <1>3
<1>5. FileOf(n) \in Seq(Piece) /\ Len(FileOf(n)) = l
  BY <1>1, <1>4
<1>. QED
  BY <1>1, <1>5 DEF l

\* What write_flush() of a buffer that is not empty writes.
LEMMA EncodeType ==
    ASSUME NEW rows \in Seq(Nat)
    PROVE  /\ Encode(rows) \in Seq(Piece)
           /\ Len(Encode(rows)) = IF rows = << >> THEN 0 ELSE Len(rows) + 1
           /\ rows # << >> => /\ Encode(rows)[1] = SizeOf(Len(rows))
                              /\ \A k \in 1..Len(rows) : Encode(rows)[1 + k] = RowOf(rows[k])
<1>1. CASE rows = << >>
  BY <1>1 DEF Encode
<1>2. CASE rows # << >>
  <2>. DEFINE body == [k \in 1..Len(rows) |-> RowOf(rows[k])]
              size == <<SizeOf(Len(rows))>>
  <2>1. Len(rows) \in Nat /\ \A k \in 1..Len(rows) : rows[k] \in Nat
    OBVIOUS
  <2>2. body \in Seq(Piece) /\ Len(body) = Len(rows)
    BY <2>1 DEF Piece, RowOf
  <2>3. size \in Seq(Piece) /\ Len(size) = 1 /\ size[1] = SizeOf(Len(rows))
    BY <2>1 DEF Piece, SizeOf
  <2>4. Encode(rows) = size \o body
    BY <1>2 DEF Encode
  <2>5. \A k \in 1..Len(rows) : body[k] = RowOf(rows[k])
    OBVIOUS
  <2>. HIDE DEF body, size
  <2>6. /\ size \o body \in Seq(Piece) /\ Len(size \o body) = Len(size) + Len(body)
        /\ \A k \in 1..Len(size) : (size \o body)[k] = size[k]
        /\ \A k \in 1..Len(body) : (size \o body)[Len(size) + k] = body[k]
    <3>1. size \in Seq(Piece) /\ body \in Seq(Piece)
      BY <2>2, <2>3
    <3>. QED
      BY <3>1, Joined
  <2>7. Len(size) = 1 /\ Len(body) = Len(rows) /\ 1 \in 1..1
    BY <2>2, <2>3
  <2>. QED
    BY <1>2, <2>1, <2>3, <2>4, <2>5, <2>6, <2>7
<1>. QED
  BY <1>1, <1>2

\* The file of full chunks of rows starts every longer file.
LEMMA FullChunksStart ==
    ASSUME NEW c \in Nat, NEW n \in Nat, c * CHUNK_ROWS <= n,
           NEW p \in 1..c * CHUNK_ROWS + c, p \in 1..n + Chunks(n)
    PROVE  FileOf(n)[p] = FileOf(c * CHUNK_ROWS)[p]
<1>. DEFINE s == c * CHUNK_ROWS
<1>1. CHUNK_ROWS \in Nat \ {0} /\ s \in Nat /\ Chunks(s) = c
  BY PipelineAssumption, ChunksOf
<1>2. PICK k \in Nat, j \in 0..CHUNK_ROWS :
             p = SizePiece(k) + j /\ k * CHUNK_ROWS + j <= s /\ k * CHUNK_ROWS < s
  BY <1>1, PiecesOfFile
<1>3. k < c
  BY <1>1, <1>2, Factor
<1>4. (k + 1) * CHUNK_ROWS <= s
  BY <1>1, <1>3, NextMultiple
<1>. HIDE DEF s
<1>5. SizeIn(n, k) = CHUNK_ROWS /\ SizeIn(s, k) = CHUNK_ROWS
  <2>1. (k + 1) * CHUNK_ROWS \in Nat /\ s <= n
    BY <1>1 DEF s
  <2>. QED
    BY <1>1, <1>4, <2>1 DEF SizeIn
<1>6. p \in 1..s + Chunks(s)
  BY <1>1 DEF s
<1>. QED
  BY <1>1, <1>2, <1>5, <1>6, PieceOfFile DEF s

\* A flush continues the file of the chunks written before it.
LEMMA FileGrows ==
    ASSUME NEW c \in Nat, NEW w \in Seq(Nat), Len(w) <= CHUNK_ROWS,
           \A k \in 1..Len(w) : w[k] = c * CHUNK_ROWS + k
    PROVE  FileOf(c * CHUNK_ROWS + Len(w)) = FileOf(c * CHUNK_ROWS) \o Encode(w)
<1>. DEFINE s == c * CHUNK_ROWS
            m == Len(w)
            f == FileOf(s)
            e == Encode(w)
            g == FileOf(s + m)
<1>1. CHUNK_ROWS \in Nat \ {0} /\ s \in Nat /\ Chunks(s) = c /\ m \in 0..CHUNK_ROWS
  BY PipelineAssumption, ChunksOf, SMTT(30)
<1>2. CASE w = << >>
  <2>1. s + m = s /\ e = << >>
    BY <1>1, <1>2 DEF Encode
  <2>2. f \in Seq(Piece)
    BY <1>1, FileType
  <2>. HIDE DEF f, e, s, m
  <2>3. f \o << >> = f
    BY <2>2
  <2>. QED
    BY <2>1, <2>3 DEF f, e, s, m
<1>3. CASE w # << >>
  <2>1. m \in 1..CHUNK_ROWS
    BY <1>1, <1>3
  <2>2. Chunks(s + m) = c + 1
    BY <2>1, ChunksOf
  <2>3. f \in Seq(Piece) /\ Len(f) = s + c
    BY <1>1, FileType
  <2>4. /\ e \in Seq(Piece) /\ Len(e) = m + 1 /\ e[1] = SizeOf(m)
        /\ \A k \in 1..m : e[1 + k] = RowOf(s + k)
    BY <1>3, EncodeType
  <2>5. g \in Seq(Piece) /\ Len(g) = s + m + c + 1
    <3>1. s + m \in Nat
      BY <1>1
    <3>. QED
      BY <1>1, <2>2, <3>1, FileType
  <2>6. ASSUME NEW p \in 1..s + c PROVE g[p] = f[p]
    <3>1. p \in 1..s + m + Chunks(s + m) /\ s + m \in Nat /\ s <= s + m
      BY <1>1, <2>2
    <3>. QED
      BY <3>1, FullChunksStart
  <2>7. ASSUME NEW j \in 0..m PROVE g[s + c + 1 + j] = e[1 + j]
    <3>1. s + c + 1 = SizePiece(c)
      BY <1>1 DEF SizePiece
    <3>2. s + m \in Nat /\ j \in 0..CHUNK_ROWS /\ SizePiece(c) + j \in 1..s + m + Chunks(s + m)
      <4>. HIDE DEF s, m
      <4>. QED
        BY <1>1, <2>2, <3>1
    <3>3. SizeIn(s + m, c) = m
      <4>1. (c + 1) * CHUNK_ROWS = s + CHUNK_ROWS
        BY <1>1
      <4>. HIDE DEF s
      <4>. QED
        BY <1>1, <4>1 DEF SizeIn, s
    <3>4. g[SizePiece(c) + j] = IF j = 0 THEN SizeOf(SizeIn(s + m, c)) ELSE RowOf(s + j)
      BY <3>2, PieceOfFile
    <3>5. j # 0 => j \in 1..m
      BY <1>1
    <3>. HIDE DEF s, m, e, g
    <3>. QED
      BY <2>4, <3>1, <3>3, <3>4, <3>5
  <2>. HIDE DEF s, m, f, e, g
  <2>8. /\ f \o e \in Seq(Piece) /\ Len(f \o e) = Len(f) + Len(e)
        /\ \A k \in 1..Len(f) : (f \o e)[k] = f[k]
        /\ \A k \in 1..Len(e) : (f \o e)[Len(f) + k] = e[k]
    <3>1. f \in Seq(Piece) /\ e \in Seq(Piece)
      BY <2>3, <2>4
    <3>. QED
      BY <3>1, Joined
  <2>9. f \o e \in Seq(Piece) /\ Len(f \o e) = s + m + c + 1
    BY <1>1, <2>3, <2>4, <2>8
  <2>10. ASSUME NEW p \in 1..s + m + c + 1 PROVE g[p] = (f \o e)[p]
    <3>1. CASE p <= s + c
      BY <1>1, <2>3, <2>6, <2>8, <3>1
    <3>2. CASE p > s + c
      <4>. DEFINE j == p - (s + c + 1)
      <4>1. j \in 0..m /\ 1 + j \in 1..m + 1 /\ p = s + c + 1 + j /\ s + c + (1 + j) = p
        BY <1>1, <3>2
      <4>2. (f \o e)[s + c + (1 + j)] = e[1 + j]
        <5>. HIDE DEF j
        <5>. QED
          BY <2>3, <2>4, <2>8, <4>1
      <4>. HIDE DEF j
      <4>. QED
        BY <2>7, <4>1, <4>2
    <3>3. p <= s + c \/ p > s + c
      BY <1>1
    <3>. QED
      BY <3>1, <3>2, <3>3
  <2>11. g = f \o e
    BY <2>5, <2>9, <2>10, SeqEqual, Zenon
  <2>. QED
    BY <2>11 DEF f, e, g, s, m
<1>. QED
  BY <1>2, <1>3

-----------------------------------------------------------------------------
\* Reading from, and appending to, the rest of a sequence.
LEMMA RestGrows ==
    ASSUME NEW S, NEW s \in Seq(S), NEW t \in Seq(S), NEW e \in Seq(S), NEW n \in Nat,
           IsRest(s, t, n)
    PROVE  IsRest(s \o e, t \o e, n)
<1>. DEFINE u == s \o e
            v == t \o e
<1>1. /\ Len(u) = Len(s) + Len(e) /\ Len(s) \in Nat /\ Len(e) \in Nat
      /\ \A k \in 1..Len(s) : u[k] = s[k]
      /\ \A k \in 1..Len(e) : u[Len(s) + k] = e[k]
  BY Joined
<1>2. /\ Len(v) = Len(t) + Len(e) /\ Len(t) \in Nat
      /\ \A k \in 1..Len(t) : v[k] = t[k]
      /\ \A k \in 1..Len(e) : v[Len(t) + k] = e[k]
  BY Joined
<1>. HIDE DEF u, v
<1>3. n + Len(s) = Len(t) /\ \A k \in 1..Len(s) : s[k] = t[n + k]
  BY DEF IsRest
<1>4. /\ Len(u) = Len(s) + Len(e) /\ Len(v) = Len(t) + Len(e) /\ n + Len(s) = Len(t)
      /\ Len(s) \in Nat /\ Len(e) \in Nat /\ Len(t) \in Nat
  <2>1. Len(u) = Len(s) + Len(e) /\ Len(s) \in Nat /\ Len(e) \in Nat
    BY <1>1
  <2>2. Len(v) = Len(t) + Len(e) /\ Len(t) \in Nat
    BY <1>2
  <2>3. n + Len(s) = Len(t)
    BY <1>3
  <2>. QED
    BY <2>1, <2>2, <2>3
<1>5. n + Len(u) = Len(v)
  BY <1>4, SMTT(30)
<1>6. ASSUME NEW k \in 1..Len(u) PROVE u[k] = v[n + k]
  <2>1. CASE k <= Len(s)
    <3>1. k \in 1..Len(s)
      BY <1>1, <2>1
    <3>2. n + k \in 1..Len(t)
      BY <1>1, <1>2, <1>3, <3>1
    <3>3. u[k] = s[k] /\ s[k] = t[n + k] /\ v[n + k] = t[n + k]
      BY <1>1, <1>2, <1>3, <3>1, <3>2
    <3>. QED
      BY <3>3
  <2>2. CASE k > Len(s)
    <3>. DEFINE j == k - Len(s)
    <3>1. k \in Nat /\ k <= Len(s) + Len(e)
      BY <1>4
    <3>2. j \in 1..Len(e) /\ k = Len(s) + j /\ n + k = Len(t) + j
      <4>1. j \in Nat /\ k = Len(s) + j
        BY <1>4, <2>2, <3>1
      <4>. HIDE DEF j
      <4>2. j \in 1..Len(e)
        BY <1>4, <2>2, <3>1, <4>1
      <4>3. n + k = Len(t) + j
        <5>1. n + Len(s) = Len(t) /\ Len(s) \in Nat /\ Len(t) \in Nat /\ j \in Nat /\ k = Len(s) + j
          BY <1>4, <4>1
        <5>. QED
          BY <5>1, SMTT(30)
      <4>. QED
        BY <4>1, <4>2, <4>3
    <3>. HIDE DEF j
    <3>. QED
      BY <1>1, <1>2, <3>2
  <2>3. k <= Len(s) \/ k > Len(s)
    BY <1>1
  <2>. QED
    BY <2>1, <2>2, <2>3
<1>7. IsRest(u, v, n)
  BY <1>5, <1>6 DEF IsRest
<1>. QED
  BY <1>7 DEF u, v

\* Taking the first element of the rest of a sequence.
LEMMA RestShrinks ==
    ASSUME NEW S, NEW s \in Seq(S), NEW t \in Seq(S), NEW n \in Nat, IsRest(s, t, n), s # << >>
    PROVE  IsRest(Tail(s), t, n + 1) /\ Head(s) = t[n + 1] /\ n + 1 \in 1..Len(t)
<1>. DEFINE u == Tail(s)
<1>1. /\ Len(u) = Len(s) - 1 /\ Head(s) = s[1] /\ Len(s) \in Nat \ {0}
      /\ \A k \in 1..Len(u) : u[k] = s[k + 1]
  BY HeadTailProperties, EmptySeq
<1>2. n + Len(s) = Len(t) /\ \A k \in 1..Len(s) : s[k] = t[n + k]
  BY DEF IsRest
<1>. HIDE DEF u
<1>3. ASSUME NEW k \in 1..Len(u) PROVE u[k] = t[n + 1 + k]
  <2>1. k + 1 \in 1..Len(s) /\ n + (k + 1) = n + 1 + k
    BY <1>1
  <2>. QED
    BY <1>1, <1>2, <2>1
<1>4. 1 \in 1..Len(s)
  BY <1>1
<1>. QED
  BY <1>1, <1>2, <1>3, <1>4 DEF IsRest, u

\* The tail of a concatenation of which the first part is not empty.
LEMMA TailOfJoined ==
    ASSUME NEW S, NEW s \in Seq(S), NEW t \in Seq(S), s # << >>
    PROVE  s \o t # << >> /\ Tail(s \o t) = Tail(s) \o t /\ Head(s \o t) = Head(s)
<1>. DEFINE st == s \o t
            ts == Tail(s)
            u == Tail(st)
            v == ts \o t
<1>1. /\ st \in Seq(S) /\ Len(st) = Len(s) + Len(t) /\ Len(s) \in Nat /\ Len(t) \in Nat
      /\ \A k \in 1..Len(s) : st[k] = s[k]
      /\ \A k \in 1..Len(t) : st[Len(s) + k] = t[k]
  BY Joined
<1>2. /\ ts \in Seq(S) /\ Len(ts) = Len(s) - 1 /\ Head(s) = s[1] /\ Len(s) \in Nat \ {0}
      /\ \A k \in 1..Len(ts) : ts[k] = s[k + 1]
  BY HeadTailProperties, EmptySeq
<1>3. st # << >>
  BY <1>1, <1>2
<1>4. /\ u \in Seq(S) /\ Len(u) = Len(st) - 1 /\ Head(st) = st[1]
      /\ \A k \in 1..Len(u) : u[k] = st[k + 1]
  BY <1>1, <1>3, HeadTailProperties
<1>5. /\ v \in Seq(S) /\ Len(v) = Len(ts) + Len(t)
      /\ \A k \in 1..Len(ts) : v[k] = ts[k]
      /\ \A k \in 1..Len(t) : v[Len(ts) + k] = t[k]
  BY <1>2, Joined
<1>. HIDE DEF st, ts, u, v
<1>6. Len(u) = Len(v)
  BY <1>1, <1>2, <1>4, <1>5
<1>7. ASSUME NEW k \in 1..Len(u) PROVE u[k] = v[k]
  <2>1. u[k] = st[k + 1]
    BY <1>4
  <2>2. CASE k <= Len(ts)
    <3>1. k \in 1..Len(ts) /\ k + 1 \in 1..Len(s)
      BY <1>2, <2>2
    <3>. QED
      BY <1>1, <1>2, <1>5, <2>1, <3>1
  <2>3. CASE ~(k <= Len(ts))
    <3>. DEFINE j == k - Len(ts)
    <3>1. j \in 1..Len(t) /\ k + 1 = Len(s) + j /\ k = Len(ts) + j
      BY <1>1, <1>2, <1>4, <2>3
    <3>. HIDE DEF j
    <3>. QED
      BY <1>1, <1>5, <2>1, <3>1
  <2>. QED
    BY <2>2, <2>3
<1>8. u = v
  BY <1>4, <1>5, <1>6, <1>7, SeqEqual
<1>9. Head(st) = Head(s)
  <2>1. 1 \in 1..Len(s)
    BY <1>2
  <2>. QED
    BY <1>1, <1>2, <1>4, <2>1
<1>. QED
  BY <1>3, <1>8, <1>9 DEF st, ts, u, v

\* Moving an element from the second part of a concatenation to the first.
LEMMA MovedOver ==
    ASSUME NEW S, NEW s \in Seq(S), NEW t \in Seq(S), t # << >>
    PROVE  /\ Append(s, Head(t)) \in Seq(S) /\ Tail(t) \in Seq(S)
           /\ Append(s, Head(t)) \o Tail(t) = s \o t
<1>1. Head(t) \in S /\ Tail(t) \in Seq(S)
  BY HeadTailProperties
<1>2. Append(s, Head(t)) \in Seq(S) /\ Append(s, Head(t)) = s \o <<Head(t)>>
  BY <1>1, AppendProperties, AppendIsConcat
<1>3. t = <<Head(t)>> \o Tail(t)
  <2>. DEFINE h == <<Head(t)>>
              r == Tail(t)
  <2>1. h \in Seq(S) /\ Len(h) = 1 /\ h[1] = Head(t)
    BY <1>1
  <2>2. /\ Len(r) = Len(t) - 1 /\ Head(t) = t[1] /\ Len(t) \in Nat \ {0}
        /\ \A k \in 1..Len(r) : r[k] = t[k + 1]
    BY HeadTailProperties, EmptySeq
  <2>. HIDE DEF h, r
  <2>3. r \in Seq(S)
    BY <1>1 DEF r
  <2>4. /\ h \o r \in Seq(S) /\ Len(h \o r) = Len(h) + Len(r)
        /\ \A k \in 1..Len(h) : (h \o r)[k] = h[k]
        /\ \A k \in 1..Len(r) : (h \o r)[Len(h) + k] = r[k]
    <3>1. h \in Seq(S)
      BY <2>1
    <3>. QED
      BY <2>3, <3>1, Joined
  <2>5. ASSUME NEW k \in 1..Len(t) PROVE (h \o r)[k] = t[k]
    <3>1. CASE k = 1
      BY <2>1, <2>2, <2>4, <3>1
    <3>2. CASE k # 1
      <4>. DEFINE j == k - 1
      <4>1. j \in 1..Len(r) /\ k = Len(h) + j /\ k = j + 1
        BY <2>1, <2>2, <3>2
      <4>. HIDE DEF j
      <4>. QED
        BY <2>2, <2>4, <4>1
    <3>. QED
      BY <3>1, <3>2
  <2>6. Len(h \o r) = Len(t)
    BY <2>1, <2>2, <2>4
  <2>7. h \o r = t
    <3>. DEFINE hr == h \o r
    <3>1. hr \in Seq(S) /\ Len(hr) = Len(t) /\ \A k \in 1..Len(hr) : hr[k] = t[k]
      BY <2>4, <2>5, <2>6
    <3>. HIDE DEF hr
    <3>2. hr = t
      BY <3>1, SeqEqual
    <3>. QED
      BY <3>2 DEF hr
  <2>. QED
    BY <2>7 DEF h, r
<1>4. <<Head(t)>> \in Seq(S)
  BY <1>1
<1>5. (s \o <<Head(t)>>) \o Tail(t) = s \o (<<Head(t)>> \o Tail(t))
  BY <1>1, <1>4, ConcatAssociative
<1>. QED
  BY <1>1, <1>2, <1>3, <1>5

-----------------------------------------------------------------------------
\* More rows never take fewer chunks.
LEMMA ChunksGrow ==
    ASSUME NEW a \in Nat, NEW b \in Nat, a <= b
    PROVE  Chunks(a) <= Chunks(b) /\ Chunks(a) \in Nat /\ Chunks(b) \in Nat
<1>. DEFINE C == CHUNK_ROWS
            x == a + C - 1
            y == b + C - 1
<1>1. C \in Nat \ {0} /\ x \in Nat /\ y \in Nat /\ x <= y
  BY PipelineAssumption
<1>. HIDE DEF C, x, y
<1>2. PICK p \in Nat, r \in 0..C - 1 : x = p * C + r
  BY <1>1, Divided
<1>3. PICK q \in Nat, s \in 0..C - 1 : y = q * C + s
  BY <1>1, Divided
<1>4. x \div C = p /\ y \div C = q
  BY <1>1, <1>2, <1>3, DivMod
<1>5. p <= q
  <2>1. CASE q < p
    <3>1. q * C + C = (q + 1) * C /\ (q + 1) * C <= p * C /\ q * C \in Nat /\ p * C \in Nat
      BY <1>1, <2>1, NextMultiple
    <3>. QED
      BY <1>1, <1>2, <1>3, <3>1
  <2>. QED
    BY <2>1
<1>. QED
  BY <1>4, <1>5, ChunksType DEF Chunks, x, y, C

\* A reader that has read every piece of a file has read every row.
LEMMA AllRead ==
    ASSUME NEW t \in Nat, NEW n \in Nat, NEW s \in Nat, t + n <= s,
           t + Chunks(t + n) = s + Chunks(s)
    PROVE  t = s /\ n = 0
<1>1. t + n \in Nat /\ Chunks(t + n) <= Chunks(s) /\ Chunks(t + n) \in Nat /\ Chunks(s) \in Nat
  <2>1. t + n \in Nat
    OBVIOUS
  <2>. QED
    BY <2>1, ChunksGrow
<1>. QED
  BY <1>1

\* After whole chunks of a file comes the size of the next one.
LEMMA NextSize ==
    ASSUME NEW t \in Nat, NEW s \in Nat, t < s, FullChunks(t)
    PROVE  \E m \in 1..CHUNK_ROWS :
               /\ FileOf(s)[t + Chunks(t) + 1] = SizeOf(m)
               /\ t + m <= s
               /\ FullChunks(t + m) \/ t + m = s
               /\ Chunks(t + m) = Chunks(t) + 1
               /\ \E c \in Nat : c * CHUNK_ROWS <= t /\ t + m <= (c + 1) * CHUNK_ROWS
<1>1. PICK c \in Nat : t = c * CHUNK_ROWS
  BY DEF FullChunks
<1>. DEFINE m == SizeIn(s, c)
<1>2. m \in 1..CHUNK_ROWS
  BY <1>1, SizeInType
<1>3. Chunks(t) = c /\ Chunks(t + m) = c + 1
  BY <1>1, <1>2, ChunksOf
<1>4. CHUNK_ROWS \in Nat \ {0} /\ (c + 1) * CHUNK_ROWS = t + CHUNK_ROWS /\ c + 1 \in Nat
  BY <1>1, PipelineAssumption
<1>5. /\ t + m <= s /\ t + m <= t + CHUNK_ROWS
      /\ t + m = t + CHUNK_ROWS \/ t + m = s
  BY <1>1, <1>4 DEF SizeIn
<1>6. FileOf(s)[t + c + 1] = SizeOf(m)
  <2>1. Chunks(t + m) <= Chunks(s) /\ Chunks(s) \in Nat
    <3>. HIDE DEF m
    <3>1. t + m \in Nat
      BY <1>2, <1>4
    <3>. QED
      BY <1>5, <3>1, ChunksGrow
  <2>2. SizePiece(c) + 0 = t + c + 1 /\ 0 \in 0..CHUNK_ROWS
    BY <1>1, <1>4 DEF SizePiece
  <2>3. t + c + 1 \in 1..s + Chunks(s)
    BY <1>3, <2>1
  <2>. QED
    BY <2>2, <2>3, PieceOfFile
<1>. HIDE DEF m
<1>7. FullChunks(t + m) \/ t + m = s
  BY <1>4, <1>5 DEF FullChunks
<1>8. c * CHUNK_ROWS <= t /\ t + m <= (c + 1) * CHUNK_ROWS
  BY <1>1, <1>4, <1>5
<1>. QED
  BY <1>2, <1>3, <1>5, <1>6, <1>7, <1>8

\* In the middle of a chunk comes the next row.
LEMMA NextRow ==
    ASSUME NEW t \in Nat, NEW n \in Nat \ {0}, NEW s \in Nat, t + n <= s,
           NEW c \in Nat, c * CHUNK_ROWS <= t, t + n <= (c + 1) * CHUNK_ROWS
    PROVE  FileOf(s)[t + Chunks(t + n) + 1] = RowOf(t + 1)
<1>. DEFINE f == c * CHUNK_ROWS
            j == t + 1 - f
<1>1. CHUNK_ROWS \in Nat \ {0} /\ f \in Nat /\ (c + 1) * CHUNK_ROWS = f + CHUNK_ROWS
  BY PipelineAssumption
<1>. HIDE DEF f
<1>2. j \in 1..CHUNK_ROWS /\ f + j = t + 1 /\ t + n - f \in 1..CHUNK_ROWS /\ f + (t + n - f) = t + n
  BY <1>1 DEF f
<1>. HIDE DEF j
<1>3. Chunks(t + n) = c + 1
  <2>1. Chunks(f + (t + n - f)) = c + 1
    BY <1>2, ChunksOf DEF f
  <2>. QED
    BY <1>2, <2>1
<1>4. Chunks(t + n) <= Chunks(s) /\ Chunks(s) \in Nat /\ t + n \in Nat
  <2>1. t + n \in Nat
    OBVIOUS
  <2>. QED
    BY <2>1, ChunksGrow
<1>5. SizePiece(c) + j = t + Chunks(t + n) + 1 /\ j \in 0..CHUNK_ROWS /\ j # 0
  <2>1. SizePiece(c) = f + c + 1
    BY <1>1 DEF SizePiece, f
  <2>. QED
    BY <1>1, <1>2, <1>3, <2>1
<1>6. t + Chunks(t + n) + 1 \in 1..s + Chunks(s)
  BY <1>3, <1>4
<1>7. FileOf(s)[SizePiece(c) + j] = IF j = 0 THEN SizeOf(SizeIn(s, c)) ELSE RowOf(c * CHUNK_ROWS + j)
  BY <1>5, <1>6, PieceOfFile
<1>. QED
  BY <1>2, <1>5, <1>7 DEF f

-----------------------------------------------------------------------------
\* The quantities of which the invariant speaks are numbers.
LEMMA Quantities ==
    ASSUME Typed
    PROVE  /\ total \in Nat
           /\ \A i \in Stage : /\ Taken(i) \in Nat /\ count[i] \in Nat /\ need[i] \in Nat
                               /\ count[i] <= Taken(i) /\ Taken(i) + need[i] \in Nat
                               /\ Read(i) \in Nat /\ limit[i] \in Nat
                               /\ chunk[i] \in Seq(Nat) /\ Len(chunk[i]) \in Nat
                               /\ wbuf[i] \in Seq(Nat) /\ Len(wbuf[i]) \in Nat
                               /\ pending[i] \in Seq(Piece)
           /\ \A i \in 0..N : pipe[i] \in Seq(Piece) /\ Consumed(i) \in Nat
<1>1. total \in Nat /\ NoLimit \in Nat
  BY PipelineAssumption DEF Typed, NoLimit
<1>2. ASSUME NEW i \in Stage
      PROVE  /\ Taken(i) \in Nat /\ count[i] \in Nat /\ need[i] \in Nat
             /\ count[i] <= Taken(i) /\ Taken(i) + need[i] \in Nat
             /\ Read(i) \in Nat /\ limit[i] \in Nat
             /\ chunk[i] \in Seq(Nat) /\ Len(chunk[i]) \in Nat
             /\ wbuf[i] \in Seq(Nat) /\ Len(wbuf[i]) \in Nat
             /\ pending[i] \in Seq(Piece)
  <2>1. /\ count[i] \in Nat /\ need[i] \in Nat /\ limit[i] \in 0..NoLimit
        /\ chunk[i] \in Seq(Nat) /\ wbuf[i] \in Seq(Nat) /\ pending[i] \in Seq(Piece)
    BY DEF Typed
  <2>2. Len(chunk[i]) \in Nat /\ Len(wbuf[i]) \in Nat /\ limit[i] \in Nat
    BY <1>1, <2>1
  <2>3. Taken(i) \in Nat /\ count[i] <= Taken(i) /\ Taken(i) + need[i] \in Nat
    BY <2>1, <2>2, SMTT(30) DEF Taken
  <2>4. Read(i) \in Nat
    BY <2>3, ChunksType DEF Read
  <2>. QED
    BY <2>1, <2>2, <2>3, <2>4
<1>3. ASSUME NEW i \in 0..N PROVE pipe[i] \in Seq(Piece) /\ Consumed(i) \in Nat
  <2>1. pipe[i] \in Seq(Piece)
    BY DEF Typed
  <2>2. i # N => i + 1 \in Stage
    BY PipelineAssumption DEF Stage
  <2>3. Consumed(i) \in Nat
    BY <1>2, <2>2 DEF Consumed
  <2>. QED
    BY <2>1, <2>3
<1>. QED
  BY <1>1, <1>2, <1>3

\* What a stage has sent are rows that it has dumped.
LEMMA SentType ==
    ASSUME IInv, NEW i \in 0..N
    PROVE  /\ Sent(i) \in Nat /\ Unread(i) \in Seq(Piece)
           /\ i # 0 => i \in Stage /\ Sent(i) <= count[i] /\ Sent(i) + Len(wbuf[i]) = count[i]
           /\ FileOf(Sent(i)) \in Seq(Piece)
           /\ Len(FileOf(Sent(i))) = Sent(i) + Chunks(Sent(i))
<1>1. Typed /\ \A k \in Stage : WriterInv(k)
  BY DEF IInv
<1>2. CASE i = 0
  <2>1. Sent(i) \in Nat /\ Unread(i) \in Seq(Piece)
    BY <1>1, <1>2, Quantities DEF Sent, Unread
  <2>. QED
    BY <1>2, <2>1, FileType
<1>3. CASE i # 0
  <2>1. i \in Stage
    BY <1>3, PipelineAssumption DEF Stage
  <2>2. /\ count[i] \in Nat /\ Len(wbuf[i]) \in Nat /\ Len(wbuf[i]) <= count[i]
        /\ pending[i] \in Seq(Piece) /\ pipe[i] \in Seq(Piece)
    BY <1>1, <2>1, Quantities DEF WriterInv
  <2>3. Sent(i) = count[i] - Len(wbuf[i]) /\ Unread(i) = pipe[i] \o pending[i]
    BY <1>3 DEF Sent, Unread
  <2>4. Sent(i) \in Nat /\ Sent(i) <= count[i] /\ Sent(i) + Len(wbuf[i]) = count[i]
    BY <2>2, <2>3
  <2>5. Unread(i) \in Seq(Piece)
    BY <2>2, <2>3
  <2>. QED
    BY <2>1, <2>4, <2>5, FileType
<1>. QED
  BY <1>2, <1>3

\* What stage i finds in its pipe begins where it has read to.
LEMMA NextPiece ==
    ASSUME IInv, NEW i \in Stage, Available(i)
    PROVE  /\ Head(pipe[i - 1]) = FileOf(Sent(i - 1))[Read(i) + 1]
           /\ Read(i) + 1 \in 1..Sent(i - 1) + Chunks(Sent(i - 1))
           /\ IsRest(IF i = 1 THEN Tail(pipe[i - 1]) ELSE Tail(pipe[i - 1]) \o pending[i - 1],
                     FileOf(Sent(i - 1)), Read(i) + 1)
<1>. DEFINE h == i - 1
<1>1. h \in 0..N /\ h # N /\ h + 1 = i /\ (h = 0 <=> i = 1) /\ (h # 0 => h \in Stage)
  BY PipelineAssumption DEF Stage
<1>2. Typed /\ StreamInv(h)
  BY <1>1 DEF IInv
<1>. HIDE DEF h
<1>3. Consumed(h) = Read(i) /\ Read(i) \in Nat
  BY <1>1, <1>2, Quantities DEF Consumed
<1>4. /\ Unread(h) \in Seq(Piece) /\ FileOf(Sent(h)) \in Seq(Piece)
      /\ Len(FileOf(Sent(h))) = Sent(h) + Chunks(Sent(h))
  BY <1>1, SentType
<1>5. pipe[h] \in Seq(Piece) /\ pipe[h] # << >>
  BY <1>1, <1>2, Quantities DEF Available, h
<1>6. /\ Unread(h) # << >> /\ Head(Unread(h)) = Head(pipe[h])
      /\ Tail(Unread(h)) = IF i = 1 THEN Tail(pipe[h]) ELSE Tail(pipe[h]) \o pending[h]
  <2>1. CASE h = 0
    BY <1>1, <1>5, <2>1 DEF Unread
  <2>2. CASE h # 0
    <3>1. pending[h] \in Seq(Piece)
      BY <1>1, <1>2, <2>2, Quantities
    <3>2. /\ pipe[h] \o pending[h] # << >>
          /\ Tail(pipe[h] \o pending[h]) = Tail(pipe[h]) \o pending[h]
          /\ Head(pipe[h] \o pending[h]) = Head(pipe[h])
      BY <1>5, <3>1, TailOfJoined
    <3>. QED
      BY <1>1, <2>2, <3>2 DEF Unread
  <2>. QED
    BY <2>1, <2>2
<1>7. IsRest(Unread(h), FileOf(Sent(h)), Read(i))
  BY <1>2, <1>3 DEF StreamInv
<1>8. /\ IsRest(Tail(Unread(h)), FileOf(Sent(h)), Read(i) + 1)
      /\ Head(Unread(h)) = FileOf(Sent(h))[Read(i) + 1]
      /\ Read(i) + 1 \in 1..Len(FileOf(Sent(h)))
  BY <1>3, <1>4, <1>6, <1>7, RestShrinks
<1>. QED
  BY <1>4, <1>6, <1>8 DEF h

\* A program that waits at the end of its input, with nobody dead before it,
\* has read all of the input, or all that the program before it has dumped.
LEMMA Drained ==
    ASSUME IInv, NEW i \in Stage, Running(i), WriterGone(i), i > 1 => ~Died(i - 1)
    PROVE  /\ Taken(i) = Sent(i - 1) /\ need[i] = 0
           /\ i > 1 => closing[i - 1] /\ Sent(i - 1) = count[i - 1]
<1>. DEFINE h == i - 1
<1>1. h \in 0..N /\ h # N /\ h + 1 = i /\ (h # 0 <=> i > 1) /\ (h # 0 => h \in Stage)
  BY PipelineAssumption DEF Stage
<1>2. Typed /\ StreamInv(h) /\ ReaderInv(i)
      /\ \A k \in Stage : StatusInv(k) /\ WriterInv(k)
  BY <1>1 DEF IInv
<1>. HIDE DEF h
<1>3. pipe[h] = << >>
  BY DEF WriterGone, Available, h
<1>4. h # 0 => closing[h] /\ pending[h] = << >>
  <2>1. CASE h # 0
    <3>1. status[h] \in {"run", "ok", "short", "full", "killed"} /\ StatusInv(h)
      BY <1>1, <1>2, <2>1 DEF Typed
    <3>2. ~Running(h) /\ ~Died(h)
      BY <1>1, <2>1 DEF WriterGone, h
    <3>3. status[h] = "ok"
      BY <1>1, <3>1, <3>2 DEF Running, Died, StatusInv
    <3>. QED
      BY <1>1, <3>1, <3>3 DEF StatusInv, Flushed
  <2>. QED
    BY <2>1
<1>5. Unread(h) = << >>
  BY <1>3, <1>4 DEF Unread
<1>6. Read(i) = Sent(h) + Chunks(Sent(h))
  <2>1. Consumed(h) = Read(i) /\ Read(i) \in Nat
    BY <1>1, <1>2, Quantities DEF Consumed
  <2>2. Read(i) + 0 = Len(FileOf(Sent(h)))
    BY <1>2, <1>5, <2>1 DEF StreamInv, IsRest
  <2>. QED
    BY <1>1, <2>1, <2>2, SentType
<1>7. /\ Taken(i) \in Nat /\ need[i] \in Nat /\ Sent(h) \in Nat
      /\ Taken(i) + need[i] <= Sent(h)
  BY <1>1, <1>2, Quantities, SentType DEF ReaderInv, h
<1>8. Taken(i) = Sent(h) /\ need[i] = 0
  BY <1>6, <1>7, AllRead DEF Read
<1>9. h # 0 => Sent(h) = count[h]
  <2>1. CASE h # 0
    <3>1. wbuf[h] = << >> /\ count[h] \in Nat
      BY <1>1, <1>2, <1>4, <2>1, Quantities DEF WriterInv
    <3>. QED
      BY <2>1, <3>1 DEF Sent
  <2>. QED
    BY <2>1
<1>. QED
  BY <1>1, <1>4, <1>8, <1>9 DEF h

-----------------------------------------------------------------------------
\* Initially every stage has all of its input before it.
LEMMA InitInvariant == Init => IInv
<1>. SUFFICES ASSUME Init PROVE IInv
  OBVIOUS
<1>1. /\ total \in 0..MaxRows /\ total \in Nat /\ N \in Nat \ {0} /\ CHUNK_ROWS \in Nat \ {0}
      /\ limit \in [Stage -> 0..NoLimit] /\ Chunks(0) = 0
      /\ \A i \in Stage : limit[i] \in Nat
  <2>1. 0 * CHUNK_ROWS = 0 /\ 0 \in Nat /\ NoLimit \in Nat
    BY PipelineAssumption DEF NoLimit
  <2>2. limit \in [Stage -> 0..NoLimit] /\ total \in 0..MaxRows
    BY PipelineAssumption DEF Init
  <2>3. Chunks(0) = 0
    BY <2>1, ChunksOf
  <2>. QED
    BY <2>1, <2>2, <2>3, PipelineAssumption
<1>2. /\ pipe = [i \in 0..N |-> IF i = 0 THEN FileOf(total) ELSE << >>]
      /\ need = [i \in Stage |-> 0] /\ chunk = [i \in Stage |-> << >>]
      /\ count = [i \in Stage |-> 0] /\ wbuf = [i \in Stage |-> << >>]
      /\ pending = [i \in Stage |-> << >>] /\ closing = [i \in Stage |-> FALSE]
      /\ status = [i \in Stage |-> "run"]
  BY DEF Init
<1>3. FileOf(total) \in Seq(Piece) /\ FileOf(0) = << >>
  <2>1. FileOf(total) \in Seq(Piece) /\ FileOf(0) \in Seq(Piece) /\ Len(FileOf(0)) = 0 + Chunks(0)
    BY <1>1, FileType
  <2>2. Len(FileOf(0)) = 0
    BY <1>1, <2>1
  <2>. QED
    BY <2>1, <2>2, EmptySeq
<1>4. \A i \in Stage : Taken(i) = 0 /\ Read(i) = 0
  <2>1. \A i \in Stage : Taken(i) = 0 /\ need[i] = 0
    BY <1>2 DEF Taken
  <2>. QED
    BY <1>1, <2>1 DEF Read
<1>5. \A i \in Stage : Sent(i) = 0
  BY <1>1, <1>2 DEF Sent, Stage
<1>6. Typed
  <2>1. pipe \in [0..N -> Seq(Piece)]
    BY <1>2, <1>3
  <2>. QED
    BY <1>1, <1>2, <2>1 DEF Typed
<1>7. ASSUME NEW i \in 0..N PROVE StreamInv(i)
  <2>1. Consumed(i) = 0
    <3>1. i # N => i + 1 \in Stage
      BY <1>1 DEF Stage
    <3>. QED
      BY <1>4, <3>1 DEF Consumed
  <2>2. CASE i = 0
    <3>1. Unread(i) = FileOf(total) /\ Sent(i) = total
      BY <1>2, <2>2 DEF Unread, Sent
    <3>. DEFINE f == FileOf(total)
    <3>2. Len(f) \in Nat
      BY <1>3
    <3>. HIDE DEF f
    <3>3. IsRest(f, f, 0)
      BY <3>2 DEF IsRest
    <3>. QED
      BY <2>1, <3>1, <3>3 DEF StreamInv, f
  <2>3. CASE i # 0
    <3>1. i \in Stage
      BY <2>3 DEF Stage
    <3>2. Unread(i) = << >> /\ FileOf(Sent(i)) = << >>
      BY <1>2, <1>3, <1>5, <2>3, <3>1 DEF Unread
    <3>. QED
      BY <2>1, <3>2 DEF StreamInv, IsRest
  <2>. QED
    BY <2>2, <2>3
<1>8. FullChunks(0)
  <2>1. 0 = 0 * CHUNK_ROWS
    BY <1>1
  <2>. QED
    BY <2>1 DEF FullChunks
<1>9. ASSUME NEW i \in Stage PROVE ReaderInv(i) /\ WriterInv(i) /\ OrderInv(i) /\ StatusInv(i)
  <2>1. Sent(i - 1) \in Nat
    <3>1. i - 1 = 0 \/ i - 1 \in Stage
      BY <1>1 DEF Stage
    <3>2. Sent(0) = total
      BY DEF Sent
    <3>. QED
      BY <1>1, <1>5, <3>1, <3>2
  <2>2. /\ Taken(i) + need[i] = 0 /\ need[i] = 0 /\ chunk[i] = << >> /\ wbuf[i] = << >>
        /\ count[i] = 0 /\ ~closing[i] /\ status[i] = "run"
    BY <1>2, <1>4
  <2>3. ReaderInv(i)
    BY <1>8, <2>1, <2>2 DEF ReaderInv
  <2>4. WriterInv(i)
    BY <1>1, <1>5, <1>8, <2>2 DEF WriterInv
  <2>5. OrderInv(i)
    <3>1. \A j \in 1..i - 1 : j \in Stage
      BY <1>1 DEF Stage
    <3>. QED
      BY <1>1, <1>2, <1>4, <3>1 DEF OrderInv
  <2>6. StatusInv(i)
    BY <2>2 DEF StatusInv
  <2>. QED
    BY <2>3, <2>4, <2>5, <2>6
<1>. QED
  BY <1>6, <1>7, <1>9 DEF IInv

-----------------------------------------------------------------------------
\* A stream keeps its invariant if a step leaves it alone.
LEMMA StreamFrame ==
    ASSUME NEW k \in 0..N, StreamInv(k), Unread(k)' = Unread(k),
           Sent(k)' = Sent(k), Consumed(k)' = Consumed(k)
    PROVE  StreamInv(k)'
BY DEF StreamInv, IsRest

\* The steps at which a program ends.
LEMMA StatusStep ==
    ASSUME IInv, NEW i \in Stage, Running(i), NEW v \in {"ok", "short", "full", "killed"},
           status' = [status EXCEPT ![i] = v], UNCHANGED <<args, pipe, reader, count, writer>>,
           v = "short" => i > 1 /\ Died(i - 1),
           v = "full" => i = N,
           v = "ok" => Flushed(i) \/ (i < N /\ ~Running(i + 1))
    PROVE  IInv'
<1>1. Typed /\ \A k \in 0..N : StreamInv(k)
  BY DEF IInv
<1>2. \A k \in Stage : ReaderInv(k) /\ WriterInv(k) /\ OrderInv(k) /\ StatusInv(k)
  BY DEF IInv
<1>3. /\ total' = total /\ limit' = limit /\ pipe' = pipe /\ need' = need /\ chunk' = chunk
      /\ count' = count /\ wbuf' = wbuf /\ pending' = pending /\ closing' = closing
  BY DEF args, reader, writer
<1>4. Typed'
  <2>1. status' \in [Stage -> {"run", "ok", "short", "full", "killed"}]
    BY <1>1 DEF Typed
  <2>. QED
    BY <1>1, <1>3, <2>1 DEF Typed
<1>5. /\ \A k \in 0..N : Unread(k)' = Unread(k) /\ Sent(k)' = Sent(k) /\ Consumed(k)' = Consumed(k)
      /\ \A k \in Stage : Taken(k)' = Taken(k)
  BY <1>3 DEF Unread, Sent, Consumed, Read, Taken
<1>6. \A k \in 0..N : StreamInv(k)'
  BY <1>1, <1>5, StreamFrame
<1>7. /\ \A k \in Stage \ {i} : status'[k] = status[k]
      /\ status'[i] = v /\ status[i] = "run"
      /\ i \in Nat /\ N \in Nat
  BY <1>1, PipelineAssumption DEF Typed, Running, Stage
<1>8. ASSUME NEW k \in Stage PROVE /\ Died(k) => Died(k)'
                                   /\ ~Running(k) => ~Running(k)'
  BY <1>7 DEF Died, Running
<1>9. ASSUME NEW k \in Stage PROVE ReaderInv(k)' /\ WriterInv(k)' /\ OrderInv(k)'
  <2>1. k - 1 \in 0..N
    BY <1>7 DEF Stage
  <2>2. ReaderInv(k)'
    BY <1>2, <1>3, <1>5, <2>1 DEF ReaderInv
  <2>3. WriterInv(k)'
    <3>1. Sent(k)' = Sent(k)
      BY <1>3 DEF Sent
    <3>. QED
      BY <1>2, <1>3, <3>1 DEF WriterInv
  <2>4. OrderInv(k)'
    BY <1>2, <1>3, <1>5 DEF OrderInv
  <2>. QED
    BY <2>2, <2>3, <2>4
<1>10. ASSUME NEW k \in Stage PROVE StatusInv(k)'
  <2>1. /\ k > 1 => k - 1 \in Stage
        /\ k < N => k + 1 \in Stage
        /\ \A j \in 1..k - 1 : j \in Stage
    BY <1>7 DEF Stage
  <2>2. (closing[k] => \/ count[k] = total
                       \/ \E j \in 1..k : count[k] = limit[j]
                       \/ \E j \in 1..k - 1 : Died(j))'
    BY <1>2, <1>3, <1>8, <2>1 DEF StatusInv
  <2>3. CASE k = i
    <3>1. status'[k] = v
      BY <1>7, <2>3
    <3>2. v = "short" => k > 1 /\ Died(k - 1)'
      BY <1>8, <2>1, <2>3
    <3>3. v = "ok" => Flushed(k)' \/ (k < N /\ ~Running(k + 1)')
      <4>1. Flushed(i)' <=> Flushed(i)
        BY <1>3 DEF Flushed
      <4>. QED
        BY <1>8, <2>1, <2>3, <4>1
    <3>. QED
      BY <2>2, <2>3, <3>1, <3>2, <3>3 DEF StatusInv
  <2>4. CASE k # i
    <3>1. status'[k] = status[k]
      BY <1>7, <2>4
    <3>2. status[k] = "short" => k > 1 /\ Died(k - 1)'
      BY <1>2, <1>8, <2>1 DEF StatusInv
    <3>3. status[k] = "ok" => Flushed(k)' \/ (k < N /\ ~Running(k + 1)')
      <4>1. Flushed(k)' <=> Flushed(k)
        BY <1>3 DEF Flushed
      <4>. QED
        BY <1>2, <1>8, <2>1, <4>1 DEF StatusInv
    <3>4. status[k] = "full" => k = N
      BY <1>2 DEF StatusInv
    <3>. QED
      BY <2>2, <3>1, <3>2, <3>3, <3>4 DEF StatusInv
  <2>. QED
    BY <2>3, <2>4
<1>. QED
  BY <1>4, <1>6, <1>9, <1>10 DEF IInv

-----------------------------------------------------------------------------
\* The steps at which stage i takes a piece from its pipe.
LEMMA ReadStep ==
    ASSUME IInv, NEW i \in Stage, Available(i), Consume(i),
           UNCHANGED <<args, count, writer, status>>,
           need' \in [Stage -> Nat], chunk' \in [Stage -> Seq(Nat)],
           \A k \in Stage \ {i} : need'[k] = need[k] /\ chunk'[k] = chunk[k],
           Read(i)' = Read(i) + 1, ReaderInv(i)', OrderInv(i)'
    PROVE  IInv'
<1>. DEFINE h == i - 1
<1>1. Typed /\ \A k \in 0..N : StreamInv(k)
  BY DEF IInv
<1>2. \A k \in Stage : ReaderInv(k) /\ WriterInv(k) /\ OrderInv(k) /\ StatusInv(k)
  BY DEF IInv
<1>3. /\ total' = total /\ limit' = limit /\ status' = status
      /\ count' = count /\ wbuf' = wbuf /\ pending' = pending /\ closing' = closing
  BY DEF args, writer
<1>4. /\ h \in 0..N /\ h # N /\ h + 1 = i /\ (h = 0 <=> i = 1)
      /\ i \in Nat /\ N \in Nat
  BY PipelineAssumption DEF Stage
<1>5. pipe \in [0..N -> Seq(Piece)] /\ pipe' = [pipe EXCEPT ![h] = Tail(@)]
      /\ pipe[h] \in Seq(Piece) /\ pipe[h] # << >>
  BY <1>1, <1>4 DEF Typed, Consume, Available
<1>. HIDE DEF h
<1>6. /\ pipe' \in [0..N -> Seq(Piece)] /\ pipe'[h] = Tail(pipe[h])
      /\ \A k \in (0..N) \ {h} : pipe'[k] = pipe[k]
  <2>1. Tail(pipe[h]) \in Seq(Piece)
    BY <1>5, HeadTailProperties
  <2>. QED
    BY <1>4, <1>5, <2>1
<1>7. Typed'
  BY <1>1, <1>3, <1>6 DEF Typed
<1>8. \A k \in 0..N : Sent(k)' = Sent(k)
  BY <1>3 DEF Sent
<1>9. \A k \in Stage \ {i} : Taken(k)' = Taken(k) /\ Read(k)' = Read(k) /\ need'[k] = need[k]
  BY <1>3 DEF Taken, Read
<1>10. ASSUME NEW k \in 0..N PROVE StreamInv(k)'
  <2>1. CASE k = h
    <3>1. IsRest(IF h = 0 THEN Tail(pipe[h]) ELSE Tail(pipe[h]) \o pending[h], FileOf(Sent(h)), Read(i) + 1)
      BY <1>4, NextPiece DEF h
    <3>2. Unread(h)' = IF h = 0 THEN Tail(pipe[h]) ELSE Tail(pipe[h]) \o pending[h]
      BY <1>3, <1>6 DEF Unread
    <3>3. Consumed(h)' = Read(i) + 1
      BY <1>4 DEF Consumed
    <3>4. IsRest(Unread(h)', FileOf(Sent(h)'), Consumed(h)')
      BY <1>4, <1>8, <3>1, <3>2, <3>3
    <3>. QED
      BY <2>1, <3>4 DEF StreamInv, IsRest
  <2>2. CASE k # h
    <3>1. Unread(k)' = Unread(k)
      BY <1>3, <1>6, <2>2 DEF Unread
    <3>2. k # N => k + 1 \in Stage \ {i}
      BY <1>4, <2>2 DEF Stage, h
    <3>3. Consumed(k)' = Consumed(k)
      BY <1>9, <3>2 DEF Consumed
    <3>. QED
      BY <1>1, <1>8, <3>1, <3>3, StreamFrame
  <2>. QED
    BY <2>1, <2>2
<1>11. ASSUME NEW k \in Stage PROVE ReaderInv(k)' /\ WriterInv(k)' /\ OrderInv(k)' /\ StatusInv(k)'
  <2>1. k - 1 \in 0..N /\ k \in 0..N
    BY <1>4 DEF Stage
  <2>2. ReaderInv(k)' /\ OrderInv(k)'
    <3>1. CASE k = i
      BY <3>1
    <3>2. CASE k # i
      <4>1. chunk'[k] = chunk[k] /\ count' = count
        BY <1>3, <3>2
      <4>2. ReaderInv(k)'
        BY <1>2, <1>8, <1>9, <2>1, <3>2, <4>1 DEF ReaderInv
      <4>3. OrderInv(k)'
        BY <1>2, <1>3, <1>9, <3>2 DEF OrderInv
      <4>. QED
        BY <4>2, <4>3
    <3>. QED
      BY <3>1, <3>2
  <2>3. WriterInv(k)'
    BY <1>2, <1>3, <1>8, <2>1 DEF WriterInv
  <2>4. StatusInv(k)'
    BY <1>2, <1>3, SMTT(30) DEF StatusInv, Flushed, Running, Died
  <2>. QED
    BY <2>2, <2>3, <2>4
<1>. QED
  BY <1>7, <1>10, <1>11 DEF IInv

\* The size of the next chunk.
LEMMA ReadSizeStep ==
    ASSUME IInv, NEW i \in Stage, ReadSize(i)
    PROVE  IInv'
<1>. DEFINE s == Sent(i - 1)
            t == Taken(i)
<1>1. /\ need[i] = 0 /\ chunk[i] = << >> /\ Available(i) /\ Consume(i)
      /\ need' = [need EXCEPT ![i] = Head(pipe[i - 1])[2]]
      /\ UNCHANGED <<args, chunk, count, writer, status>>
  BY DEF ReadSize
<1>2. Typed /\ ReaderInv(i) /\ OrderInv(i)
  BY DEF IInv
<1>3. i - 1 \in 0..N /\ i \in Nat /\ N \in Nat
  BY PipelineAssumption DEF Stage
<1>4. s \in Nat /\ t \in Nat /\ t + need[i] = t /\ Read(i) = t + Chunks(t)
  <2>1. s \in Nat
    BY <1>3, SentType
  <2>2. t \in Nat /\ t + need[i] = t
    BY <1>1, <1>2, Quantities
  <2>. QED
    BY <2>1, <2>2 DEF Read
<1>5. t <= s /\ (FullChunks(t) \/ t = s)
  BY <1>2, <1>4 DEF ReaderInv
<1>6. /\ Head(pipe[i - 1]) = FileOf(s)[t + Chunks(t) + 1]
      /\ t + Chunks(t) + 1 \in 1..s + Chunks(s)
  BY <1>1, <1>4, NextPiece
<1>. HIDE DEF s, t
<1>7. t < s /\ FullChunks(t)
  BY <1>4, <1>5, <1>6, ChunksType
<1>8. PICK m \in 1..CHUNK_ROWS :
           /\ FileOf(s)[t + Chunks(t) + 1] = SizeOf(m)
           /\ t + m <= s
           /\ FullChunks(t + m) \/ t + m = s
           /\ Chunks(t + m) = Chunks(t) + 1
           /\ \E c \in Nat : c * CHUNK_ROWS <= t /\ t + m <= (c + 1) * CHUNK_ROWS
  BY <1>4, <1>7, NextSize
<1>9. m \in Nat
  BY PipelineAssumption
<1>10. need' = [need EXCEPT ![i] = m]
  <2>1. Head(pipe[i - 1]) = SizeOf(m)
    BY <1>6, <1>8
  <2>2. SizeOf(m)[2] = m
    BY DEF SizeOf
  <2>3. Head(pipe[i - 1])[2] = m
    BY <2>1, <2>2
  <2>. QED
    BY <1>1, <2>3
<1>11. /\ need' \in [Stage -> Nat] /\ need'[i] = m
       /\ \A k \in Stage \ {i} : need'[k] = need[k]
  BY <1>2, <1>9, <1>10 DEF Typed
<1>12. chunk' = chunk /\ count' = count /\ total' = total /\ wbuf' = wbuf
  BY <1>1 DEF args, writer
<1>13. Taken(i)' = t /\ Sent(i - 1)' = s
  BY <1>12 DEF Taken, Sent, s, t
<1>14. Read(i)' = Read(i) + 1
  <2>1. Read(i)' = t + Chunks(t + m)
    BY <1>11, <1>13 DEF Read
  <2>. QED
    BY <1>4, <1>8, <2>1, ChunksType
<1>15. ReaderInv(i)'
  BY <1>2, <1>8, <1>11, <1>12, <1>13 DEF ReaderInv
<1>16. OrderInv(i)'
  BY <1>2, <1>12, <1>13 DEF OrderInv, t
<1>17. /\ chunk' \in [Stage -> Seq(Nat)]
       /\ \A k \in Stage \ {i} : need'[k] = need[k] /\ chunk'[k] = chunk[k]
       /\ UNCHANGED <<args, count, writer, status>>
  BY <1>1, <1>2, <1>11, <1>12 DEF Typed
<1>. QED
  BY <1>1, <1>11, <1>14, <1>15, <1>16, <1>17, ReadStep

\* The next row of a chunk.
LEMMA ReadBodyStep ==
    ASSUME IInv, NEW i \in Stage, ReadBody(i)
    PROVE  IInv'
<1>. DEFINE s == Sent(i - 1)
            t == Taken(i)
            n == need[i]
            l == Len(chunk[i])
<1>1. /\ n > 0 /\ Available(i) /\ Consume(i)
      /\ need' = [need EXCEPT ![i] = @ - 1]
      /\ chunk' = [chunk EXCEPT ![i] = Append(@, Head(pipe[i - 1])[2])]
      /\ UNCHANGED <<args, count, writer, status>>
  BY DEF ReadBody
<1>2. Typed /\ \A k \in Stage : ReaderInv(k) /\ WriterInv(k) /\ OrderInv(k)
  BY DEF IInv
<1>3. /\ i - 1 \in 0..N /\ i \in Nat /\ N \in Nat
      /\ i - 1 # 0 => i - 1 \in Stage
  BY PipelineAssumption DEF Stage
<1>4. /\ s \in Nat /\ t \in Nat /\ n \in Nat \ {0} /\ l \in Nat /\ count[i] \in Nat
      /\ t = count[i] + l /\ chunk[i] \in Seq(Nat) /\ Read(i) = t + Chunks(t + n)
  <2>1. s \in Nat
    BY <1>3, SentType
  <2>2. t \in Nat /\ n \in Nat /\ l \in Nat /\ chunk[i] \in Seq(Nat) /\ count[i] \in Nat
    BY <1>2, Quantities
  <2>. QED
    BY <1>1, <2>1, <2>2 DEF Read, Taken
<1>5. /\ t + n <= s
      /\ FullChunks(t + n) \/ t + n = s
  BY <1>2 DEF ReaderInv
<1>6. PICK c \in Nat : c * CHUNK_ROWS <= t /\ t + n <= (c + 1) * CHUNK_ROWS
  BY <1>1, <1>2 DEF ReaderInv
<1>7. \A k \in 1..l : chunk[i][k] = count[i] + k
  BY <1>2 DEF ReaderInv
<1>8. Head(pipe[i - 1])[2] = t + 1
  <2>1. Head(pipe[i - 1]) = FileOf(s)[t + Chunks(t + n) + 1]
    BY <1>1, <1>4, NextPiece
  <2>. HIDE DEF s, t, n
  <2>2. t + n <= s
    BY <1>5
  <2>3. FileOf(s)[t + Chunks(t + n) + 1] = RowOf(t + 1)
    BY <1>4, <1>6, <2>2, NextRow
  <2>. QED
    BY <2>1, <2>3 DEF RowOf
<1>9. chunk'[i] = Append(chunk[i], t + 1) /\ need'[i] = n - 1
  BY <1>1, <1>2, <1>8 DEF Typed
<1>10. /\ count' = count /\ total' = total /\ wbuf' = wbuf
  BY <1>1 DEF args, writer
<1>11. /\ need' \in [Stage -> Nat] /\ chunk' \in [Stage -> Seq(Nat)]
       /\ \A k \in Stage \ {i} : need'[k] = need[k] /\ chunk'[k] = chunk[k]
  <2>1. n - 1 \in Nat /\ t + 1 \in Nat
    BY <1>4
  <2>2. Append(chunk[i], t + 1) \in Seq(Nat)
    BY <1>4, <2>1
  <2>. HIDE DEF t
  <2>. QED
    BY <1>1, <1>2, <1>8, <2>1, <2>2 DEF Typed
<1>12. Len(chunk[i])' = l + 1 /\ \A k \in 1..l + 1 : (chunk[i])'[k] = count[i] + k
  <2>. DEFINE a == Append(chunk[i], t + 1)
  <2>1. t + 1 \in Nat
    BY <1>4
  <2>2. Len(a) = l + 1 /\ a[l + 1] = t + 1 /\ \A k \in 1..l : a[k] = chunk[i][k]
    BY <1>4, <2>1, AppendProperties
  <2>3. t + 1 = count[i] + (l + 1)
    BY <1>4
  <2>. HIDE DEF a, l, t
  <2>4. \A k \in 1..l + 1 : k \in 1..l \/ k = l + 1
    BY <1>4
  <2>. QED
    BY <1>7, <1>9, <2>2, <2>3, <2>4 DEF a
<1>13. Taken(i)' = t + 1 /\ need'[i] = n - 1 /\ Sent(i - 1)' = s
       /\ t + 1 + (n - 1) = t + n
  <2>1. Taken(i)' = count[i] + (l + 1)
    BY <1>10, <1>12 DEF Taken
  <2>2. Sent(i - 1)' = s
    BY <1>10 DEF Sent
  <2>. HIDE DEF s, t, n, l
  <2>3. Taken(i)' = t + 1
    <3>1. t = count[i] + l /\ l \in Nat /\ count[i] \in Nat
      BY <1>4
    <3>2. count[i] + (l + 1) = count[i] + l + 1
      BY <3>1
    <3>. QED
      BY <2>1, <3>1, <3>2
  <2>4. t + 1 + (n - 1) = t + n
    BY <1>4
  <2>. QED
    BY <1>9, <2>2, <2>3, <2>4
<1>. HIDE DEF s, t, n, l
<1>14. Read(i)' = Read(i) + 1
  <2>1. Read(i)' = t + 1 + Chunks(t + n)
    BY <1>13 DEF Read
  <2>. DEFINE c2 == Chunks(t + n)
  <2>2. c2 \in Nat /\ t \in Nat /\ Read(i) = t + c2 /\ Read(i)' = t + 1 + c2
    <3>1. t + n \in Nat /\ t \in Nat
      BY <1>4
    <3>2. Chunks(t + n) \in Nat
      BY <3>1, ChunksType
    <3>. QED
      BY <1>4, <2>1, <3>1, <3>2
  <2>. HIDE DEF c2
  <2>. QED
    BY <2>2
<1>15. ReaderInv(i)'
  <2>1. c * CHUNK_ROWS <= t + 1
    <3>1. c * CHUNK_ROWS \in Nat
      BY PipelineAssumption
    <3>. QED
      BY <1>4, <1>6, <3>1
  <2>. QED
    BY <1>5, <1>6, <1>10, <1>12, <1>13, <2>1 DEF ReaderInv
<1>16. OrderInv(i)'
  <2>1. t + 1 <= s
    BY <1>4, <1>5
  <2>2. CASE i = 1
    BY <1>4, <1>10, <1>13, <2>1, <2>2 DEF OrderInv, Sent, s
  <2>3. CASE i # 1
    <3>. DEFINE h == i - 1
    <3>1. h \in Stage /\ h # 0 /\ h \in 0..N /\ total \in Nat
      BY <1>2, <1>3, <2>3, Quantities DEF Stage
    <3>2. s <= count[h] /\ count[h] <= Taken(h) /\ Taken(h) \in Nat /\ count[h] \in Nat
      BY <1>2, <3>1, Quantities, SentType DEF s
    <3>3. Taken(h) <= total /\ \A j \in 1..h - 1 : Taken(h) <= count[j]
      BY <1>2, <3>1 DEF OrderInv
    <3>4. t + 1 <= total
      BY <1>4, <2>1, <3>1, <3>2, <3>3, SMTT(30)
    <3>5. ASSUME NEW j \in 1..h PROVE t + 1 <= count[j]
      <4>1. CASE j = h
        BY <1>4, <2>1, <3>2, <4>1, SMTT(30)
      <4>2. CASE j # h
        <5>1. j \in 1..h - 1 /\ j \in Stage
          <6>1. h \in Nat /\ h <= N /\ j \in Nat /\ 1 <= j /\ j <= h
            BY <1>3, <3>1 DEF Stage
          <6>. HIDE DEF h
          <6>. QED
            BY <1>3, <4>2, <6>1 DEF Stage
        <5>2. Taken(h) <= count[j] /\ count[j] \in Nat
          BY <1>2, <3>3, <5>1, Quantities
        <5>3. t + 1 <= s /\ s <= count[h] /\ count[h] <= Taken(h) /\ Taken(h) <= count[j]
          BY <2>1, <3>2, <5>2
        <5>4. t \in Nat /\ s \in Nat /\ count[h] \in Nat /\ Taken(h) \in Nat /\ count[j] \in Nat
          BY <1>4, <3>2, <5>2
        <5>. HIDE DEF h
        <5>. QED
          BY <5>3, <5>4
      <4>. QED
        BY <4>1, <4>2
    <3>. QED
      BY <1>10, <1>13, <3>4, <3>5 DEF OrderInv
  <2>. QED
    BY <2>2, <2>3
<1>. QED
  BY <1>1, <1>11, <1>14, <1>15, <1>16, ReadStep

-----------------------------------------------------------------------------
\* The steps at which stage i dumps, flushes or writes.
LEMMA WriterStep ==
    ASSUME IInv, Typed', NEW i \in Stage,
           total' = total, limit' = limit, need' = need, status' = status,
           \A k \in (0..N) \ {i} : pipe'[k] = pipe[k],
           \A k \in Stage \ {i} :
               /\ chunk'[k] = chunk[k] /\ count'[k] = count[k] /\ wbuf'[k] = wbuf[k]
               /\ pending'[k] = pending[k] /\ closing'[k] = closing[k],
           Taken(i)' = Taken(i), count[i] <= count'[i],
           \A k \in 1..Len(chunk[i])' : (chunk[i])'[k] = count'[i] + k,
           Sent(i) <= Sent(i)', Sent(i)' = Sent(i) \/ FullChunks(Sent(i)),
           StreamInv(i)', WriterInv(i)', StatusInv(i)'
    PROVE  IInv'
<1>1. Typed /\ \A k \in 0..N : StreamInv(k)
  BY DEF IInv
<1>2. \A k \in Stage : ReaderInv(k) /\ WriterInv(k) /\ OrderInv(k) /\ StatusInv(k)
  BY DEF IInv
<1>3. N \in Nat \ {0} /\ i \in Nat /\ i # 0 /\ i \in 0..N
  BY PipelineAssumption DEF Stage
<1>4. \A k \in Stage : Taken(k)' = Taken(k) /\ Read(k)' = Read(k)
  <2>1. \A k \in Stage : Taken(k)' = Taken(k)
    BY DEF Taken
  <2>. QED
    BY <2>1 DEF Read
<1>5. \A k \in (0..N) \ {i} : Sent(k)' = Sent(k)
  <2>1. \A k \in (0..N) \ {i} : k # 0 => k \in Stage \ {i}
    BY <1>3 DEF Stage
  <2>. QED
    BY <2>1 DEF Sent
<1>6. ASSUME NEW k \in 0..N PROVE StreamInv(k)'
  <2>1. CASE k # i
    <3>1. Unread(k)' = Unread(k)
      <4>1. k # 0 => k \in Stage \ {i}
        BY <1>3, <2>1 DEF Stage
      <4>. QED
        BY <2>1, <4>1 DEF Unread
    <3>2. Consumed(k)' = Consumed(k)
      <4>1. k # N => k + 1 \in Stage
        BY <1>3 DEF Stage
      <4>. QED
        BY <1>4, <4>1 DEF Consumed
    <3>. QED
      BY <1>1, <1>5, <2>1, <3>1, <3>2, StreamFrame
  <2>. QED
    BY <2>1
<1>7. ASSUME NEW k \in Stage PROVE ReaderInv(k)'
  <2>. DEFINE e == Taken(k) + need[k]
              h == k - 1
  <2>1. /\ h \in 0..N /\ Sent(h) \in Nat /\ Sent(i) \in Nat
        /\ e \in Nat
    <3>1. h \in 0..N
      BY <1>3 DEF Stage
    <3>2. e \in Nat
      BY <1>1, Quantities
    <3>. QED
      BY <1>3, <3>1, <3>2, SentType
  <2>2. /\ e <= Sent(h)
        /\ FullChunks(e) \/ e = Sent(h)
        /\ need[k] > 0 => \E c \in Nat : c * CHUNK_ROWS <= Taken(k) /\ e <= (c + 1) * CHUNK_ROWS
    BY <1>2 DEF ReaderInv
  <2>3. Taken(k)' + need'[k] = e
    BY <1>4
  <2>. HIDE DEF e, h
  <2>4. /\ e <= Sent(h)'
        /\ FullChunks(e) \/ e = Sent(h)'
    <3>1. CASE h = i
      <4>1. Sent(h)' \in Nat
        <5>1. /\ count'[i] \in Nat /\ Len(wbuf'[i]) \in Nat /\ Len(wbuf'[i]) <= count'[i]
          BY DEF Typed, WriterInv
        <5>2. Sent(i)' = count'[i] - Len(wbuf'[i])
          BY <1>3 DEF Sent
        <5>. QED
          BY <3>1, <5>1, <5>2
      <4>. QED
        BY <2>1, <2>2, <3>1, <4>1
    <3>2. CASE h # i
      BY <1>5, <2>1, <2>2, <3>2
    <3>. QED
      BY <3>1, <3>2
  <2>5. \A l \in 1..Len(chunk[k])' : (chunk[k])'[l] = count'[k] + l
    <3>1. CASE k = i
      BY <3>1
    <3>2. CASE k # i
      BY <1>2, <3>2 DEF ReaderInv
    <3>. QED
      BY <3>1, <3>2
  <2>6. \/ ~(need[k] > 0)
        \/ \E c \in Nat : c * CHUNK_ROWS <= Taken(k)' /\ e <= (c + 1) * CHUNK_ROWS
    BY <1>4, <2>2
  <2>. QED
    BY <2>3, <2>4, <2>5, <2>6 DEF ReaderInv, h
<1>8. ASSUME NEW k \in Stage PROVE WriterInv(k)'
  <2>1. CASE k # i
    <3>1. Sent(k)' = Sent(k)
      BY <1>5, <2>1 DEF Stage
    <3>. QED
      BY <1>2, <2>1, <3>1 DEF WriterInv
  <2>. QED
    BY <2>1
<1>9. ASSUME NEW k \in Stage PROVE OrderInv(k)'
  <2>1. ASSUME NEW j \in 1..k - 1 PROVE Taken(k) <= count'[j]
    <3>1. j \in Stage /\ Taken(k) <= count[j]
      BY <1>2, <1>3 DEF OrderInv, Stage
    <3>2. CASE j = i
      <4>1. Taken(k) \in Nat /\ count[j] \in Nat /\ count'[j] \in Nat
        BY <1>1, <3>1, Quantities DEF Typed
      <4>. QED
        BY <3>1, <3>2, <4>1
    <3>3. CASE j # i
      BY <3>1, <3>3
    <3>. QED
      BY <3>2, <3>3
  <2>. QED
    BY <1>2, <1>4, <2>1 DEF OrderInv
<1>10. ASSUME NEW k \in Stage PROVE StatusInv(k)'
  <2>1. CASE k # i
    BY <1>2, <2>1 DEF StatusInv, Flushed, Running, Died
  <2>. QED
    BY <2>1
<1>. QED
  BY <1>6, <1>7, <1>8, <1>9, <1>10 DEF IInv

\* A write moves a piece from the writer's hands to the pipe.
LEMMA WriteStep ==
    ASSUME IInv, NEW i \in Stage, Write(i)
    PROVE  IInv'
<1>1. /\ pending[i] # << >> /\ Running(i)
      /\ pipe' = [pipe EXCEPT ![i] = Append(@, Head(pending[i]))]
      /\ pending' = [pending EXCEPT ![i] = Tail(@)]
      /\ UNCHANGED <<args, reader, count, wbuf, closing, status>>
  BY DEF Write
<1>2. /\ total' = total /\ limit' = limit /\ need' = need /\ status' = status
      /\ chunk' = chunk /\ count' = count /\ wbuf' = wbuf /\ closing' = closing
  BY <1>1 DEF args, reader
<1>3. Typed /\ StreamInv(i) /\ ReaderInv(i) /\ WriterInv(i) /\ StatusInv(i)
  BY DEF IInv, Stage
<1>4. i \in 0..N /\ i # 0
  BY DEF Stage
<1>5. pipe[i] \in Seq(Piece) /\ pending[i] \in Seq(Piece)
  BY <1>3, <1>4, Quantities
<1>6. /\ Append(pipe[i], Head(pending[i])) \in Seq(Piece) /\ Tail(pending[i]) \in Seq(Piece)
      /\ Append(pipe[i], Head(pending[i])) \o Tail(pending[i]) = pipe[i] \o pending[i]
  BY <1>1, <1>5, MovedOver
<1>7. pipe \in [0..N -> Seq(Piece)] /\ pending \in [Stage -> Seq(Piece)]
  BY <1>3 DEF Typed
<1>8. /\ pipe' \in [0..N -> Seq(Piece)] /\ pending' \in [Stage -> Seq(Piece)]
      /\ pipe'[i] = Append(pipe[i], Head(pending[i])) /\ pending'[i] = Tail(pending[i])
      /\ \A k \in (0..N) \ {i} : pipe'[k] = pipe[k]
      /\ \A k \in Stage \ {i} : pending'[k] = pending[k]
  BY <1>1, <1>4, <1>6, <1>7
<1>9. Typed'
  BY <1>2, <1>3, <1>8 DEF Typed
<1>10. Taken(i)' = Taken(i) /\ Sent(i)' = Sent(i) /\ Sent(i) \in Nat /\ count[i] \in Nat
  BY <1>2, <1>3, <1>4, SentType, Quantities DEF Taken, Sent
<1>11. StreamInv(i)'
  <2>1. Unread(i)' = Unread(i)
    BY <1>4, <1>6, <1>8 DEF Unread
  <2>2. Consumed(i)' = Consumed(i)
    BY <1>2 DEF Consumed, Read, Taken
  <2>. QED
    BY <1>3, <1>4, <1>10, <2>1, <2>2, StreamFrame
<1>12. WriterInv(i)'
  BY <1>2, <1>3, <1>10 DEF WriterInv
<1>13. StatusInv(i)'
  BY <1>1, <1>2, <1>3 DEF StatusInv, Running, Died
<1>14. \A k \in 1..Len(chunk[i])' : (chunk[i])'[k] = count'[i] + k
  BY <1>2, <1>3 DEF ReaderInv
<1>15. count[i] <= count'[i] /\ Sent(i) <= Sent(i)'
  BY <1>2, <1>10
<1>. QED
  BY <1>2, <1>8, <1>9, <1>10, <1>11, <1>12, <1>13, <1>14, <1>15, WriterStep

\* A flush hands over all that the stage has dumped.
LEMMA Flush ==
    ASSUME IInv, NEW i \in Stage, pending[i] = << >>, ~closing[i]
    PROVE  /\ IsRest(pipe[i], FileOf(Sent(i)), Consumed(i)) /\ pipe[i] \o << >> = pipe[i]
           /\ IsRest(pipe[i] \o Encode(wbuf[i]), FileOf(count[i]), Consumed(i))
           /\ FullChunks(Sent(i)) /\ Encode(wbuf[i]) \in Seq(Piece)
<1>1. Typed /\ StreamInv(i) /\ WriterInv(i)
  BY DEF IInv, Stage
<1>2. i \in 0..N /\ i # 0
  BY DEF Stage
<1>3. pipe[i] \in Seq(Piece) /\ wbuf[i] \in Seq(Nat) /\ Consumed(i) \in Nat
  BY <1>1, <1>2, Quantities
<1>4. pipe[i] \o << >> = pipe[i]
  BY <1>3
<1>5. IsRest(pipe[i], FileOf(Sent(i)), Consumed(i))
  BY <1>1, <1>2, <1>4 DEF StreamInv, Unread
<1>6. PICK c \in Nat : Sent(i) = c * CHUNK_ROWS
  BY <1>1 DEF WriterInv, FullChunks
<1>7. /\ Len(wbuf[i]) <= CHUNK_ROWS
      /\ \A k \in 1..Len(wbuf[i]) : wbuf[i][k] = c * CHUNK_ROWS + k
  BY <1>1, <1>6 DEF WriterInv
<1>8. FileOf(c * CHUNK_ROWS + Len(wbuf[i])) = FileOf(c * CHUNK_ROWS) \o Encode(wbuf[i])
  BY <1>3, <1>7, FileGrows
<1>9. FileOf(count[i]) = FileOf(Sent(i)) \o Encode(wbuf[i])
  <2>1. count[i] = Sent(i) + Len(wbuf[i])
    BY <1>2, SentType
  <2>. QED
    BY <1>6, <1>8, <2>1
<1>10. Encode(wbuf[i]) \in Seq(Piece) /\ FileOf(Sent(i)) \in Seq(Piece)
  BY <1>2, <1>3, EncodeType, SentType
<1>11. IsRest(pipe[i] \o Encode(wbuf[i]), FileOf(Sent(i)) \o Encode(wbuf[i]), Consumed(i))
  BY <1>3, <1>5, <1>10, RestGrows
<1>. QED
  BY <1>1, <1>4, <1>5, <1>9, <1>10, <1>11 DEF WriterInv

\* The main loop dumps a row, which flushes the buffer if it is full.
LEMMA CopyRowStep ==
    ASSUME IInv, NEW i \in Stage, CopyRow(i)
    PROVE  IInv'
<1>. DEFINE full == Len(wbuf[i]) = CHUNK_ROWS
            row == Head(chunk[i])
            w == wbuf[i]
            n == count[i]
<1>1. /\ HasRow(i) /\ n < limit[i] /\ chunk[i] # << >>
      /\ pending[i] = << >> /\ ~closing[i] /\ status[i] = "run" /\ need[i] = 0
  BY DEF CopyRow, HasRow, Loading, Running
<1>2. /\ count' = [count EXCEPT ![i] = n + 1]
      /\ chunk' = [chunk EXCEPT ![i] = Tail(chunk[i])]
      /\ pending' = [pending EXCEPT ![i] = IF full THEN Encode(w) ELSE << >>]
      /\ wbuf' = [wbuf EXCEPT ![i] = IF full THEN <<row>> ELSE Append(w, row)]
  BY DEF CopyRow
<1>3. /\ total' = total /\ limit' = limit /\ need' = need /\ status' = status
      /\ pipe' = pipe /\ closing' = closing
  BY DEF CopyRow, args
<1>4. Typed /\ StreamInv(i) /\ ReaderInv(i) /\ WriterInv(i) /\ StatusInv(i)
  BY DEF IInv, Stage
<1>5. i \in 0..N /\ i # 0
  BY DEF Stage
<1>6. /\ n \in Nat /\ chunk[i] \in Seq(Nat) /\ w \in Seq(Nat) /\ Len(w) \in Nat
      /\ Len(chunk[i]) \in Nat /\ CHUNK_ROWS \in Nat \ {0} /\ limit[i] \in Nat
  BY <1>4, Quantities, PipelineAssumption
<1>7. /\ Tail(chunk[i]) \in Seq(Nat) /\ Len(Tail(chunk[i])) = Len(chunk[i]) - 1
      /\ row = chunk[i][1] /\ Len(chunk[i]) # 0
      /\ \A k \in 1..Len(Tail(chunk[i])) : Tail(chunk[i])[k] = chunk[i][k + 1]
  BY <1>1, <1>6, HeadTailProperties, EmptySeq
<1>8. row = n + 1
  <2>1. 1 \in 1..Len(chunk[i])
    BY <1>6, <1>7
  <2>. QED
    BY <1>4, <1>7, <2>1 DEF ReaderInv
<1>9. /\ Sent(i) \in Nat /\ Sent(i) + Len(w) = n /\ FullChunks(Sent(i))
      /\ IsRest(pipe[i], FileOf(Sent(i)), Consumed(i)) /\ pipe[i] \o << >> = pipe[i]
      /\ IsRest(pipe[i] \o Encode(w), FileOf(n), Consumed(i))
      /\ Encode(w) \in Seq(Piece)
  BY <1>1, <1>5, SentType, Flush
<1>10. Len(w) <= CHUNK_ROWS /\ \A k \in 1..Len(w) : w[k] = Sent(i) + k
  BY <1>4 DEF WriterInv
<1>. HIDE DEF full, row, w, n
<1>11. /\ count'[i] = n + 1 /\ (chunk[i])' = Tail(chunk[i])
       /\ pending'[i] = IF full THEN Encode(w) ELSE << >>
       /\ wbuf'[i] = IF full THEN <<row>> ELSE Append(w, row)
       /\ \A k \in Stage \ {i} :
               /\ chunk'[k] = chunk[k] /\ count'[k] = count[k] /\ wbuf'[k] = wbuf[k]
               /\ pending'[k] = pending[k] /\ closing'[k] = closing[k]
  BY <1>2, <1>3, <1>4 DEF Typed
<1>12. Typed'
  <2>1. n + 1 \in Nat /\ row \in Nat
    BY <1>6, <1>8
  <2>2. <<row>> \in Seq(Nat) /\ Append(w, row) \in Seq(Nat) /\ << >> \in Seq(Piece)
    BY <1>6, <2>1
  <2>3. count' \in [Stage -> Nat]
    BY <1>2, <1>4, <2>1 DEF Typed
  <2>4. chunk' \in [Stage -> Seq(Nat)]
    BY <1>2, <1>4, <1>7 DEF Typed
  <2>5. wbuf' \in [Stage -> Seq(Nat)]
    BY <1>2, <1>4, <2>2 DEF Typed
  <2>6. pending' \in [Stage -> Seq(Piece)]
    BY <1>2, <1>4, <1>9, <2>2 DEF Typed
  <2>. QED
    BY <1>3, <1>4, <2>3, <2>4, <2>5, <2>6 DEF Typed
<1>13. Taken(i)' = Taken(i) /\ Consumed(i)' = Consumed(i)
  <2>. DEFINE l == Len(chunk[i])
  <2>1. Taken(i)' = n + 1 + (l - 1) /\ Taken(i) = n + l
    BY <1>7, <1>11 DEF Taken, n
  <2>2. n \in Nat /\ l \in Nat
    BY <1>6
  <2>. HIDE DEF l
  <2>3. n + 1 + (l - 1) = n + l
    BY <2>2
  <2>4. Taken(i)' = Taken(i)
    BY <2>1, <2>3
  <2>5. i # N => i + 1 \in Stage \ {i}
    BY PipelineAssumption DEF Stage
  <2>. QED
    BY <1>3, <1>11, <2>4, <2>5 DEF Consumed, Read, Taken
<1>14. \A k \in 1..Len(chunk[i])' : (chunk[i])'[k] = count'[i] + k
  <2>. SUFFICES ASSUME NEW k \in 1..Len(Tail(chunk[i])) PROVE Tail(chunk[i])[k] = n + 1 + k
    BY <1>11
  <2>1. k + 1 \in 1..Len(chunk[i]) /\ n + 1 + k = n + (k + 1)
    BY <1>6, <1>7
  <2>2. chunk[i][k + 1] = n + (k + 1)
    BY <1>4, <2>1 DEF ReaderInv, n
  <2>. QED
    BY <1>7, <2>1, <2>2
<1>15. CASE full
  <2>1. Len(w) = CHUNK_ROWS
    BY <1>15 DEF full, w
  <2>2. Len(wbuf'[i]) = 1 /\ wbuf'[i] = <<row>> /\ pending'[i] = Encode(w)
    BY <1>11, <1>15
  <2>3. Sent(i)' = n /\ n = Sent(i) + CHUNK_ROWS
    <3>1. Sent(i)' = (n + 1) - 1
      <4>1. count'[i] = n + 1 /\ Len(wbuf'[i]) = 1
        BY <1>11, <2>2
      <4>2. Sent(i)' = count'[i] - Len(wbuf'[i])
        BY <1>5 DEF Sent
      <4>. QED
        BY <4>1, <4>2
    <3>. QED
      BY <1>6, <1>9, <2>1, <3>1
  <2>4. FullChunks(n)
    <3>1. PICK c \in Nat : Sent(i) = c * CHUNK_ROWS
      BY <1>9 DEF FullChunks
    <3>2. n = (c + 1) * CHUNK_ROWS /\ c + 1 \in Nat
      BY <1>6, <2>3, <3>1
    <3>. QED
      BY <3>2 DEF FullChunks
  <2>5. StreamInv(i)'
    <3>1. Unread(i)' = pipe[i] \o Encode(w)
      BY <1>3, <1>5, <2>2 DEF Unread
    <3>. QED
      BY <1>9, <1>13, <2>3, <3>1 DEF StreamInv, IsRest
  <2>6. WriterInv(i)'
    <3>1. \A k \in 1..Len(wbuf'[i]) : wbuf'[i][k] = n + k
      BY <1>8, <2>2
    <3>2. 1 <= CHUNK_ROWS /\ 1 <= n + 1 /\ n + 1 <= limit[i]
      BY <1>1, <1>6 DEF n
    <3>. QED
      BY <1>1, <1>3, <1>11, <2>2, <2>3, <2>4, <3>1, <3>2 DEF WriterInv
  <2>7. Sent(i) <= Sent(i)' /\ n <= count'[i]
    BY <1>6, <1>9, <1>11, <2>3
  <2>8. StatusInv(i)'
    BY <1>1, <1>3 DEF StatusInv
  <2>. QED
    BY <1>3, <1>9, <1>11, <1>12, <1>13, <1>14, <2>5, <2>6, <2>7, <2>8, WriterStep DEF n
<1>16. CASE ~full
  <2>1. Len(w) < CHUNK_ROWS
    BY <1>6, <1>10, <1>16 DEF full, w
  <2>2. row \in Nat
    BY <1>6, <1>8
  <2>3. /\ Len(wbuf'[i]) = Len(w) + 1 /\ wbuf'[i][Len(w) + 1] = row
        /\ \A k \in 1..Len(w) : wbuf'[i][k] = w[k]
        /\ pending'[i] = << >>
    BY <1>6, <1>11, <1>16, <2>2, AppendProperties
  <2>4. Sent(i)' = Sent(i)
    <3>1. Sent(i)' = (n + 1) - (Len(w) + 1)
      <4>1. count'[i] = n + 1 /\ Len(wbuf'[i]) = Len(w) + 1
        BY <1>11, <2>3
      <4>2. Sent(i)' = count'[i] - Len(wbuf'[i])
        BY <1>5 DEF Sent
      <4>. QED
        BY <4>1, <4>2
    <3>2. n \in Nat /\ Len(w) \in Nat /\ Sent(i) \in Nat /\ Sent(i) + Len(w) = n
      BY <1>6, <1>9
    <3>3. (n + 1) - (Len(w) + 1) = Sent(i)
      BY <3>2
    <3>. QED
      BY <3>1, <3>3
  <2>5. StreamInv(i)'
    <3>1. Unread(i)' = pipe[i]
      BY <1>3, <1>5, <1>9, <2>3 DEF Unread
    <3>. QED
      BY <1>9, <1>13, <2>4, <3>1 DEF StreamInv, IsRest
  <2>6. WriterInv(i)'
    <3>1. \A k \in 1..Len(wbuf'[i]) : wbuf'[i][k] = Sent(i) + k
      <4>1. row = Sent(i) + (Len(w) + 1)
        BY <1>6, <1>8, <1>9
      <4>2. \A k \in 1..Len(w) + 1 : k \in 1..Len(w) \/ k = Len(w) + 1
        BY <1>6
      <4>. QED
        BY <1>10, <2>3, <4>1, <4>2
    <3>2. Len(w) + 1 <= CHUNK_ROWS /\ Len(w) + 1 <= n + 1 /\ n + 1 <= limit[i]
      BY <1>1, <1>6, <1>9, <2>1 DEF n
    <3>. QED
      BY <1>1, <1>3, <1>9, <1>11, <2>3, <2>4, <3>1, <3>2 DEF WriterInv
  <2>7. Sent(i) <= Sent(i)' /\ n <= count'[i]
    BY <1>6, <1>9, <1>11, <2>4
  <2>8. StatusInv(i)'
    BY <1>1, <1>3 DEF StatusInv
  <2>. QED
    BY <1>3, <1>11, <1>12, <1>13, <1>14, <2>4, <2>5, <2>6, <2>7, <2>8, WriterStep DEF n
<1>. QED
  BY <1>15, <1>16

\* A program leaves its loop when no row is wanted or none is left, which is
\* when it has dumped all the rows that the programs up to it let through.
LEMMA CloseStep ==
    ASSUME IInv, NEW i \in Stage, Close(i)
    PROVE  IInv'
<1>1. /\ pending[i] = << >> /\ ~closing[i] /\ status[i] = "run" /\ need[i] = 0
      /\ \/ chunk[i] = << >> /\ WriterGone(i)
         \/ count[i] >= limit[i]
  BY DEF Close, HasRow, Loading, Running
<1>2. /\ closing' = [closing EXCEPT ![i] = TRUE]
      /\ pending' = [pending EXCEPT ![i] = Encode(wbuf[i])]
      /\ wbuf' = [wbuf EXCEPT ![i] = << >>]
  BY DEF Close
<1>3. /\ total' = total /\ limit' = limit /\ need' = need /\ status' = status
      /\ pipe' = pipe /\ chunk' = chunk /\ count' = count
  BY DEF Close, args, reader
<1>4. /\ Typed /\ StreamInv(i) /\ ReaderInv(i) /\ WriterInv(i)
      /\ \A k \in Stage : StatusInv(k)
  BY DEF IInv, Stage
<1>5. i \in 0..N /\ i # 0 /\ i \in Nat /\ N \in Nat
  BY PipelineAssumption DEF Stage
<1>6. /\ count[i] \in Nat /\ limit[i] \in Nat /\ CHUNK_ROWS \in Nat
      /\ Taken(i) \in Nat
  BY <1>4, Quantities, PipelineAssumption
<1>7. /\ Sent(i) \in Nat /\ Sent(i) <= count[i] /\ FullChunks(Sent(i))
      /\ IsRest(pipe[i] \o Encode(wbuf[i]), FileOf(count[i]), Consumed(i))
      /\ Encode(wbuf[i]) \in Seq(Piece)
  BY <1>1, <1>5, SentType, Flush
<1>8. /\ closing'[i] = TRUE /\ pending'[i] = Encode(wbuf[i]) /\ wbuf'[i] = << >>
      /\ \A k \in Stage \ {i} :
             /\ chunk'[k] = chunk[k] /\ count'[k] = count[k] /\ wbuf'[k] = wbuf[k]
             /\ pending'[k] = pending[k] /\ closing'[k] = closing[k]
  BY <1>2, <1>3, <1>4 DEF Typed
<1>9. Typed'
  <2>1. << >> \in Seq(Nat)
    OBVIOUS
  <2>2. wbuf' \in [Stage -> Seq(Nat)] /\ closing' \in [Stage -> BOOLEAN]
    BY <1>2, <1>4, <2>1 DEF Typed
  <2>3. pending' \in [Stage -> Seq(Piece)]
    BY <1>2, <1>4, <1>7 DEF Typed
  <2>. QED
    BY <1>3, <1>4, <2>2, <2>3 DEF Typed
<1>10. Sent(i)' = count[i]
  <2>1. Sent(i)' = count'[i] - Len(wbuf'[i])
    BY <1>5 DEF Sent
  <2>2. Len(wbuf'[i]) = 0 /\ count'[i] = count[i]
    BY <1>3, <1>8
  <2>. QED
    BY <1>6, <2>1, <2>2
<1>11. Taken(i)' = Taken(i) /\ Consumed(i)' = Consumed(i)
  BY <1>3 DEF Taken, Consumed, Read
<1>12. StreamInv(i)'
  <2>1. Unread(i)' = pipe[i] \o Encode(wbuf[i])
    BY <1>3, <1>5, <1>8 DEF Unread
  <2>. QED
    BY <1>7, <1>10, <1>11, <2>1 DEF StreamInv, IsRest
<1>13. WriterInv(i)'
  <2>1. Len(wbuf'[i]) = 0
    BY <1>8
  <2>2. count[i] <= limit[i]
    BY <1>4 DEF WriterInv
  <2>. QED
    BY <1>3, <1>6, <1>8, <2>1, <2>2 DEF WriterInv
<1>14. \/ count[i] = total
       \/ \E j \in 1..i : count[i] = limit[j]
       \/ \E j \in 1..i - 1 : Died(j)
  <2>1. CASE count[i] >= limit[i]
    <3>1. count[i] = limit[i] /\ i \in 1..i
      BY <1>4, <1>5, <1>6, <2>1 DEF WriterInv
    <3>. QED
      BY <3>1
  <2>2. CASE chunk[i] = << >> /\ WriterGone(i) /\ i > 1 /\ Died(i - 1)
    <3>1. i - 1 \in 1..i - 1
      BY <1>5, <2>2
    <3>. QED
      BY <2>2, <3>1
  <2>3. CASE chunk[i] = << >> /\ WriterGone(i) /\ ~(i > 1 /\ Died(i - 1))
    <3>1. Taken(i) = Sent(i - 1) /\ (i > 1 => closing[i - 1] /\ Sent(i - 1) = count[i - 1])
      BY <1>1, <2>3, Drained DEF Running
    <3>2. Taken(i) = count[i]
      BY <1>6, <2>3 DEF Taken
    <3>3. CASE i = 1
      BY <3>1, <3>2, <3>3 DEF Sent
    <3>4. CASE i > 1
      <4>. DEFINE h == i - 1
      <4>1. h \in Stage /\ h \in 1..i - 1
        BY <1>5, <3>4 DEF Stage
      <4>2. 1..h \subseteq 1..i /\ 1..h - 1 \subseteq 1..i - 1
        BY <1>5
      <4>3. closing[h] /\ count[i] = count[h]
        BY <3>1, <3>2, <3>4
      <4>. HIDE DEF h
      <4>4. \/ count[h] = total
            \/ \E j \in 1..h : count[h] = limit[j]
            \/ \E j \in 1..h - 1 : Died(j)
        BY <1>4, <4>1, <4>3 DEF StatusInv
      <4>. QED
        BY <4>2, <4>3, <4>4
    <3>. QED
      BY <1>5, <3>3, <3>4
  <2>. QED
    BY <1>1, <2>1, <2>2, <2>3
<1>15. StatusInv(i)'
  <2>1. \A j \in 1..i - 1 : Died(j) => Died(j)'
    BY <1>3 DEF Died
  <2>. QED
    BY <1>1, <1>3, <1>14, <2>1 DEF StatusInv
<1>16. \A k \in 1..Len(chunk[i])' : (chunk[i])'[k] = count'[i] + k
  BY <1>3, <1>4 DEF ReaderInv
<1>17. count[i] <= count'[i] /\ Sent(i) <= Sent(i)'
  BY <1>3, <1>6, <1>7, <1>10
<1>. QED
  BY <1>3, <1>7, <1>8, <1>9, <1>11, <1>12, <1>13, <1>15, <1>16, <1>17, WriterStep

-----------------------------------------------------------------------------
\* Every step of a program, and every death, preserves the invariant.
LEMMA NextInvariant == IInv /\ [Next]_vars => IInv'
<1>. SUFFICES ASSUME IInv, [Next]_vars PROVE IInv'
  OBVIOUS
<1>1. ASSUME NEW i \in Stage, Step(i) PROVE IInv'
  <2>1. CASE ReadSize(i)
    BY <2>1, ReadSizeStep
  <2>2. CASE ReadBody(i)
    BY <2>2, ReadBodyStep
  <2>3. CASE ShortBody(i)
    <3>1. /\ Running(i) /\ need[i] > 0 /\ WriterGone(i)
          /\ status' = [status EXCEPT ![i] = "short"]
          /\ UNCHANGED <<args, pipe, reader, count, writer>>
      BY <2>3 DEF ShortBody, Loading
    <3>2. i > 1 /\ Died(i - 1)
      <4>1. CASE ~(i > 1 /\ Died(i - 1))
        <5>1. need[i] = 0
          BY <3>1, <4>1, Drained
        <5>. QED
          BY <3>1, <5>1
      <4>. QED
        BY <4>1
    <3>. QED
      BY <3>1, <3>2, StatusStep
  <2>4. CASE CopyRow(i)
    BY <2>4, CopyRowStep
  <2>5. CASE Close(i)
    BY <2>5, CloseStep
  <2>6. CASE Write(i)
    BY <2>6, WriteStep
  <2>7. CASE SigPipe(i)
    <3>1. /\ Running(i) /\ status' = [status EXCEPT ![i] = "ok"]
          /\ UNCHANGED <<args, pipe, reader, count, writer>>
          /\ i < N /\ ~Running(i + 1)
      BY <2>7 DEF SigPipe, ReaderGone
    <3>. QED
      BY <3>1, StatusStep
  <2>8. CASE Exit(i)
    <3>1. /\ Running(i) /\ status' = [status EXCEPT ![i] = "ok"]
          /\ UNCHANGED <<args, pipe, reader, count, writer>>
          /\ Flushed(i)
      BY <2>8 DEF Exit, Flushed
    <3>. QED
      BY <3>1, StatusStep
  <2>. QED
    BY <1>1, <2>1, <2>2, <2>3, <2>4, <2>5, <2>6, <2>7, <2>8 DEF Step
<1>2. ASSUME NEW i \in Stage, WriteFails(i) PROVE IInv'
  <2>1. /\ Running(i) /\ status' = [status EXCEPT ![i] = "full"]
        /\ UNCHANGED <<args, pipe, reader, count, writer>> /\ i = N
    BY <1>2 DEF WriteFails
  <2>. QED
    BY <2>1, StatusStep
<1>3. ASSUME NEW i \in Stage, Kill(i) PROVE IInv'
  <2>1. /\ Running(i) /\ status' = [status EXCEPT ![i] = "killed"]
        /\ UNCHANGED <<args, pipe, reader, count, writer>>
    BY <1>3 DEF Kill
  <2>. QED
    BY <2>1, StatusStep
<1>4. CASE UNCHANGED vars
  <2>1. /\ total' = total /\ limit' = limit /\ pipe' = pipe /\ need' = need /\ chunk' = chunk
        /\ count' = count /\ wbuf' = wbuf /\ pending' = pending /\ closing' = closing
        /\ status' = status
    BY <1>4 DEF vars, args, reader, writer
  <2>. QED
    BY <2>1 DEF IInv, Typed, StreamInv, ReaderInv, WriterInv, OrderInv, StatusInv, Unread, Consumed,
                Read, Taken, Sent, Flushed, Died, Running, IsRest
<1>. QED
  BY <1>1, <1>2, <1>3, <1>4 DEF Next, Terminated

\* The inductive invariant: between any two steps of any programs, what is in a
\* pipe, and what is left of the write at its end, continues what the reader at
\* its other end has taken; and no exit status claims more than was done.
THEOREM Invariance == Spec => []IInv
<1>1. Init => IInv
  BY InitInvariant
<1>2. IInv /\ [Next]_vars => IInv'
  BY NextInvariant
<1>. QED
  BY <1>1, <1>2, PTL DEF Spec

-----------------------------------------------------------------------------
\* The rows that the last program has written are let through by all.
LEMMA WrittenLetThrough ==
    ASSUME IInv
    PROVE  /\ N \in Stage /\ N \in 0..N /\ Sent(N) \in 0..total
           /\ LetThrough(Sent(N)) /\ LetThrough(count[N]) /\ count[N] \in 0..total
           /\ pipe[N] \in Seq(Piece) /\ pending[N] \in Seq(Piece)
           /\ FileOf(Sent(N)) \in Seq(Piece)
           /\ IsRest(pipe[N] \o pending[N], FileOf(Sent(N)), 0)
<1>1. N \in Stage /\ N \in 0..N /\ N # 0 /\ N \in Nat
  BY PipelineAssumption DEF Stage
<1>2. Typed /\ StreamInv(N) /\ \A i \in Stage : OrderInv(i) /\ WriterInv(i)
  BY <1>1 DEF IInv
<1>3. /\ count[N] \in Nat /\ total \in Nat /\ Taken(N) \in Nat /\ count[N] <= Taken(N)
      /\ pipe[N] \in Seq(Piece) /\ pending[N] \in Seq(Piece)
  BY <1>1, <1>2, Quantities
<1>4. Sent(N) \in Nat /\ Sent(N) <= count[N] /\ FileOf(Sent(N)) \in Seq(Piece)
  BY <1>1, SentType
<1>5. count[N] <= total /\ Sent(N) <= total
  <2>1. Taken(N) <= total
    BY <1>1, <1>2 DEF OrderInv
  <2>. QED
    BY <1>3, <1>4, <2>1
<1>6. ASSUME NEW i \in Stage PROVE count[N] <= limit[i] /\ Sent(N) <= limit[i]
  <2>1. count[i] \in Nat /\ limit[i] \in Nat /\ count[i] <= limit[i]
    BY <1>2, Quantities DEF WriterInv
  <2>2. CASE i = N
    BY <1>3, <1>4, <2>1, <2>2
  <2>3. CASE i # N
    <3>1. i \in 1..N - 1
      BY <1>1, <2>3 DEF Stage
    <3>2. Taken(N) <= count[i]
      BY <1>1, <1>2, <3>1 DEF OrderInv
    <3>. QED
      BY <1>3, <1>4, <2>1, <3>2
  <2>. QED
    BY <2>2, <2>3
<1>7. LetThrough(count[N]) /\ LetThrough(Sent(N))
  BY <1>5, <1>6 DEF LetThrough
<1>8. IsRest(pipe[N] \o pending[N], FileOf(Sent(N)), 0)
  BY <1>1, <1>2 DEF StreamInv, Unread, Consumed
<1>. QED
  BY <1>1, <1>3, <1>4, <1>5, <1>7, <1>8

\* With nothing left to write, the output is the file of what is dumped.
LEMMA WrittenWhole ==
    ASSUME IInv, Flushed(N)
    PROVE  pipe[N] = FileOf(count[N])
<1>1. N \in Stage /\ N # 0
  BY PipelineAssumption DEF Stage
<1>2. pending[N] = << >> /\ closing[N] /\ Typed /\ WriterInv(N)
  BY <1>1 DEF Flushed, IInv
<1>3. Sent(N) = count[N]
  <2>1. wbuf[N] = << >> /\ count[N] \in Nat
    BY <1>1, <1>2, Quantities DEF WriterInv
  <2>2. Sent(N) = count[N] - Len(wbuf[N])
    BY <1>1 DEF Sent
  <2>. QED
    BY <2>1, <2>2
<1>. DEFINE f == FileOf(count[N])
            p == pipe[N]
<1>4. p \in Seq(Piece) /\ f \in Seq(Piece) /\ p \o << >> = p /\ IsRest(p, f, 0)
  <2>1. p \in Seq(Piece) /\ f \in Seq(Piece) /\ IsRest(p \o pending[N], f, 0)
    BY <1>3, WrittenLetThrough
  <2>2. p \o << >> = p
    BY <2>1
  <2>. QED
    BY <1>2, <2>1, <2>2
<1>. HIDE DEF f, p
<1>5. Len(p) = Len(f) /\ \A k \in 1..Len(p) : p[k] = f[k]
  <2>1. Len(p) \in Nat /\ Len(f) \in Nat
    BY <1>4
  <2>2. 0 + Len(p) = Len(f) /\ \A k \in 1..Len(p) : p[k] = f[0 + k]
    BY <1>4 DEF IsRest
  <2>3. \A k \in 1..Len(p) : 0 + k = k
    OBVIOUS
  <2>. QED
    BY <2>1, <2>2, <2>3
<1>6. p = f
  BY <1>4, <1>5, SeqEqual
<1>. QED
  BY <1>6 DEF p, f

\* OutputIsPrefix: whoever is killed, exits early or meets a full disk between
\* two pieces of write_flush(), the output is the beginning of the file of some
\* first rows that every program of the pipeline lets through.
THEOREM OutputInOrder == Spec => []OutputIsPrefix
<1>1. IInv => OutputIsPrefix
  <2>. SUFFICES ASSUME IInv PROVE OutputIsPrefix
    OBVIOUS
  <2>. DEFINE p == pipe[N]
              r == pending[N]
              n == Sent(N)
              f == FileOf(n)
              u == p \o r
  <2>1. /\ n \in 0..total /\ LetThrough(n) /\ p \in Seq(Piece) /\ r \in Seq(Piece)
        /\ f \in Seq(Piece) /\ IsRest(u, f, 0)
    BY WrittenLetThrough
  <2>. HIDE DEF p, r, n
  <2>2. /\ u \in Seq(Piece) /\ Len(u) = Len(p) + Len(r) /\ Len(p) \in Nat /\ Len(r) \in Nat
        /\ \A k \in 1..Len(p) : u[k] = p[k]
    BY <2>1, Joined
  <2>. HIDE DEF f, u
  <2>3. /\ Len(u) = Len(f)
        /\ \A k \in 1..Len(u) : u[k] = f[k]
    <3>1. 0 + Len(u) = Len(f) /\ \A k \in 1..Len(u) : u[k] = f[0 + k]
      BY <2>1 DEF IsRest
    <3>2. \A k \in 1..Len(u) : 0 + k = k
      OBVIOUS
    <3>. QED
      BY <2>2, <3>1, <3>2
  <2>4. Len(p) <= Len(f) /\ \A k \in 1..Len(p) : k \in 1..Len(u)
    BY <2>2, <2>3
  <2>5. \A k \in 1..Len(p) : p[k] = f[k]
    BY <2>2, <2>3, <2>4
  <2>. DEFINE q == SubSeq(f, 1, Len(p))
  <2>6. q \in Seq(Piece) /\ Len(q) = Len(p) /\ \A k \in 1..Len(p) : q[k] = f[k]
    BY <2>1, <2>2, <2>4, SubSeqProperties
  <2>. HIDE DEF q
  <2>7. p = q
    BY <2>1, <2>5, <2>6, SeqEqual
  <2>. QED
    BY <2>1, <2>4, <2>7 DEF OutputIsPrefix, p, q, f
<1>. QED
  BY <1>1, Invariance, PTL

\* StatusSound: if every program exits with status 0, those among them that the
\* handler of SIGPIPE ended, the output is the whole file of the rows that the
\* pipeline lets through.
THEOREM PipefailSound == Spec => []StatusSound
<1>1. IInv => StatusSound
  <2>. SUFFICES ASSUME IInv, \A i \in Stage : status[i] = "ok" PROVE pipe[N] = FileOf(Passed)
    BY DEF StatusSound
  <2>. DEFINE n == count[N]
              Whole(m) == LetThrough(m) /\ (m = total \/ \E i \in Stage : m = limit[i])
  <2>1. N \in Stage /\ n \in 0..total /\ LetThrough(n) /\ total \in Nat
    BY WrittenLetThrough, Quantities DEF IInv
  <2>2. StatusInv(N) /\ \A i \in Stage : limit[i] \in Nat
    BY <2>1, Quantities DEF IInv
  <2>3. Flushed(N)
    BY <2>1, <2>2, PipelineAssumption DEF StatusInv
  <2>4. \/ n = total
        \/ \E j \in 1..N : n = limit[j]
    <3>1. \A j \in 1..N - 1 : ~Died(j)
      BY PipelineAssumption DEF Died, Stage
    <3>. QED
      BY <2>2, <2>3, <3>1 DEF StatusInv, Flushed
  <2>. HIDE DEF n
  <2>5. Whole(n)
    BY <2>1, <2>4 DEF Stage
  <2>6. ASSUME NEW m \in 0..total, Whole(m) PROVE m = n
    <3>1. \A i \in Stage : m <= limit[i] /\ n <= limit[i]
      BY <2>5, <2>6 DEF LetThrough
    <3>2. m <= n
      <4>1. CASE n = total
        BY <2>1, <4>1
      <4>2. CASE \E i \in Stage : n = limit[i]
        BY <3>1, <4>2
      <4>. QED
        BY <2>5, <4>1, <4>2
    <3>3. n <= m
      <4>1. CASE m = total
        BY <2>1, <4>1
      <4>2. CASE \E i \in Stage : m = limit[i]
        BY <3>1, <4>2
      <4>. QED
        BY <2>6, <4>1, <4>2
    <3>. QED
      BY <2>1, <3>2, <3>3
  <2>7. Passed = CHOOSE m \in 0..total : Whole(m)
    BY Zenon DEF Passed
  <2>. HIDE DEF Whole
  <2>8. Passed = n
    BY <2>1, <2>5, <2>6, <2>7
  <2>. QED
    BY <2>3, <2>8, WrittenWhole DEF n
<1>. QED
  BY <1>1, Invariance, PTL

\* ShortOnlyAfterDeath: the assertion of read_bytes() on the body of a chunk
\* fails only behind a program that was killed, or that died of it too.
THEOREM ShortMeansDeath == Spec => []ShortOnlyAfterDeath
<1>1. IInv => ShortOnlyAfterDeath
  BY DEF IInv, StatusInv, Died, ShortOnlyAfterDeath
<1>. QED
  BY <1>1, Invariance, PTL

\* OutputIsWhole: a last program that reports success leaves whole chunks, even
\* if the programs before it did not.
THEOREM WholeChunksLeft == Spec => []OutputIsWhole
<1>1. IInv => OutputIsWhole
  <2>. SUFFICES ASSUME IInv, status[N] = "ok", NEW p \in 1..Len(pipe[N]), pipe[N][p][1] = "size"
                PROVE  p + pipe[N][p][2] <= Len(pipe[N])
    BY DEF OutputIsWhole
  <2>. DEFINE n == count[N]
  <2>1. N \in Stage /\ n \in Nat /\ StatusInv(N)
    BY WrittenLetThrough, Quantities DEF IInv
  <2>2. Flushed(N)
    BY <2>1, PipelineAssumption DEF StatusInv
  <2>. HIDE DEF n
  <2>3. pipe[N] = FileOf(n) /\ Len(FileOf(n)) = n + Chunks(n)
    BY <2>1, <2>2, WrittenWhole, FileType DEF n
  <2>4. p \in 1..n + Chunks(n)
    BY <2>3
  <2>5. PICK k \in Nat, j \in 0..CHUNK_ROWS :
             p = SizePiece(k) + j /\ k * CHUNK_ROWS + j <= n /\ k * CHUNK_ROWS < n
    BY <2>1, <2>4, PiecesOfFile
  <2>6. FileOf(n)[p] = IF j = 0 THEN SizeOf(SizeIn(n, k)) ELSE RowOf(k * CHUNK_ROWS + j)
    BY <2>1, <2>4, <2>5, PieceOfFile
  <2>7. j = 0 /\ FileOf(n)[p][2] = SizeIn(n, k)
    BY <2>3, <2>6 DEF SizeOf, RowOf
  <2>. DEFINE m == SizeIn(n, k)
              f == k * CHUNK_ROWS
  <2>8. m \in 1..CHUNK_ROWS /\ Chunks(f + m) = k + 1
    BY <2>1, <2>5, SizeInType, ChunksOf
  <2>9. CHUNK_ROWS \in Nat /\ f \in Nat /\ (k + 1) * CHUNK_ROWS = f + CHUNK_ROWS
    BY PipelineAssumption
  <2>10. f + m <= n
    BY <2>1, <2>5, <2>9 DEF SizeIn
  <2>11. p = f + k + 1
    BY <2>5, <2>7, <2>9 DEF SizePiece
  <2>. HIDE DEF m, f
  <2>12. k + 1 <= Chunks(n) /\ Chunks(n) \in Nat
    <3>1. f + m \in Nat
      BY <2>8, <2>9
    <3>. QED
      BY <2>1, <2>8, <2>10, <3>1, ChunksGrow
  <2>13. m \in Nat
    BY <2>8, <2>9
  <2>14. p + m <= n + Chunks(n)
    BY <2>1, <2>9, <2>10, <2>11, <2>12, <2>13
  <2>. QED
    BY <2>3, <2>7, <2>14 DEF m
<1>. QED
  BY <1>1, Invariance, PTL
=============================================================================
