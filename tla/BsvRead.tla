------------------------------- MODULE BsvRead -------------------------------
(***************************************************************************)
(* The read buffer of util/read.h and the row reader of util/load.h, as    *)
(* operators over the state of one readbuf_t reading one file:             *)
(*   buffer      the bytes of the chunk last read                          *)
(*   chunk_size  and offset, as in the code                                *)
(*   at, bytes   the result of the last read: where buf->buffer points     *)
(*               (an index into buffer) and how many bytes it has          *)
(*   next        how many chunks of the file have been read                *)
(*   dead        an assertion of read_bytes() failed                       *)
(***************************************************************************)
EXTENDS BsvFormat

ReadBuf == [buffer : Seq(Cell), chunk_size : Int, offset : Int,
            at : Int, bytes : Int, next : Nat, dead : BOOLEAN]

\* chunk_size = offset, so that the first read fetches a chunk.
RbufInit == [buffer |-> << >>, chunk_size |-> BUFFER_SIZE, offset |-> BUFFER_SIZE,
             at |-> 0, bytes |-> 0, next |-> 0, dead |-> FALSE]

BytesLeft(rb) == rb.chunk_size - rb.offset
AtEnd(rb, file) == BytesLeft(rb) = 0 /\ rb.next = Len(file)

Die(rb) == [rb EXCEPT !.dead = TRUE]

\* The result of a read is bytes bytes at position at, and offset is after it.
Advance(rb, at, bytes, offset) ==
    [rb EXCEPT !.at = at, !.bytes = bytes, !.offset = offset]

\* The chunk size could not be read: end of file, and nothing was read.
ReadEof(rb) == Advance([rb EXCEPT !.chunk_size = 0], 0, 0, 0)

\* The next chunk replaces what the buffer holds.
Fetch(rb, chunk) ==
    [rb EXCEPT !.buffer = chunk, !.chunk_size = Len(chunk), !.next = @ + 1]

ReadChunk(rb, size, chunk) ==
    IF Len(chunk) > BUFFER_SIZE \/ size > Len(chunk) THEN Die(rb)
    ELSE Advance(Fetch(rb, chunk), 0, size, size)

\* Mutant: buf->buffer is not moved along.
ReadInChunkStaysPut(rb, size) ==
    IF BytesLeft(rb) < 0 \/ size > BytesLeft(rb) THEN Die(rb)
    ELSE Advance(rb, rb.at, size, rb.offset + size)

ReadInChunk(rb, size) ==
    IF BytesLeft(rb) < 0 \/ size > BytesLeft(rb) THEN Die(rb)
    ELSE Advance(rb, rb.offset, size, rb.offset + size)

ReadBytes(rb, size, file) ==
    IF BytesLeft(rb) # 0 THEN ReadInChunk(rb, size)
    ELSE IF rb.next = Len(file) THEN ReadEof(rb)
    ELSE ReadChunk(rb, size, file[rb.next + 1])

\* The first cell of the bytes last read.
FirstCell(rb) == rb.buffer[rb.at + 1]

\* The result of load_next(): the buffer after it, the row number it decoded
\* (0 when the bytes it took for a row were not one) and how it ended.
Loaded(rb, row, outcome) == [rbuf |-> rb, row |-> row, outcome |-> outcome]

\* The bytes read as max, sizes and columns are those three parts of row i.
WholeRow(i, r, max, sizes, columns) ==
    /\ FirstCell(max) = [row |-> i, byte |-> 1]
    /\ FirstCell(sizes) = [row |-> i, byte |-> 3]
    /\ FirstCell(columns) = [row |-> i, byte |-> HeaderSize(r) + 1]

(***************************************************************************)
(* load_next(): three reads, for max, the sizes and the columns, the last  *)
(* two of which must return what they ask for.  What max and the sizes are *)
(* comes from the row whose bytes were read.  LoadRow is the part after    *)
(* the first read, which left the buffer as max.                           *)
(***************************************************************************)
LoadRow(max, rows, file) ==
    LET i == FirstCell(max).row
        r == rows[i]
        sizes == ReadBytes(max, 2 * (r.max + 1), file)
        columns == ReadBytes(sizes, r.data, file)
    IN  IF \/ sizes.dead \/ sizes.bytes # 2 * (r.max + 1)
           \/ columns.dead \/ columns.bytes # r.data
        THEN Loaded(sizes, 0, "fatal")
        ELSE Loaded(columns, IF WholeRow(i, r, max, sizes, columns) THEN i ELSE 0, "row")

LoadNext(rb, rows, file) ==
    LET max == ReadBytes(rb, 2, file) IN
    CASE max.dead -> Loaded(max, 0, "fatal")
      [] ~max.dead /\ max.bytes = 0 -> Loaded(max, 0, "stop")
      [] ~max.dead /\ max.bytes # 0 -> LoadRow(max, rows, file)

-----------------------------------------------------------------------------
\* Row i is the next row of the block that the buffer holds.
HeldRow(rows, rb, i) ==
    /\ rb \in ReadBuf /\ ~rb.dead
    /\ Block(rows, rb.buffer) /\ rb.chunk_size = Len(rb.buffer)
    /\ rb.offset \in 0..Len(rb.buffer) - 1
    /\ rb.buffer[rb.offset + 1] = [row |-> i, byte |-> 1]

\* The chunk held is used up, and row i starts the next chunk of the file.
NextRow(rows, rb, file, i) ==
    /\ rb \in ReadBuf /\ ~rb.dead /\ rb.offset = rb.chunk_size
    /\ file \in Seq(Seq(Cell)) /\ rb.next < Len(file)
    /\ Chunk(rows, file[rb.next + 1]) /\ FirstRow(file[rb.next + 1]) = i

\* load_next() returns row n next: it is in the block held, which ends where
\* the last chunk read does, or starts the chunk after it.  Row hi is the last
\* one of the file.
UpcomingTo(rows, file, rb, hi, n) ==
    IF rb.offset = rb.chunk_size
    THEN n = IF rb.next = Len(file) THEN hi + 1 ELSE FirstRow(file[rb.next + 1])
    ELSE /\ HeldRow(rows, rb, n)
         /\ rb.next # 0 /\ LastRow(rb.buffer) = LastRow(file[rb.next])

Upcoming(rows, file, rb, n) == UpcomingTo(rows, file, rb, Len(rows), n)
=============================================================================
