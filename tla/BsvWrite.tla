------------------------------ MODULE BsvWrite ------------------------------
(***************************************************************************)
(* The write buffer of util/write.h and the row writer of util/dump.h, as  *)
(* operators over the state of one writebuf_t: the bytes buffered so far   *)
(* (the code's offset is their number) and the chunks already written.     *)
(***************************************************************************)
EXTENDS BsvFormat

WriteBuf == [buffer : Seq(Cell), file : Seq(Seq(Cell))]

WbufInit == [buffer |-> << >>, file |-> << >>]

WriteBytes(w, bytes) == [w EXCEPT !.buffer = @ \o bytes]

\* A flush of an empty buffer is a nop; otherwise the buffer becomes a chunk.
WriteFlush(w) ==
    IF w.buffer = << >> THEN w
    ELSE [buffer |-> << >>, file |-> Append(w.file, w.buffer)]

WriteStartDies(size) == size > BUFFER_SIZE

\* Mutants: the test for room is off by one, either way.
WriteStartTooLate(w, size) ==
    IF size > BUFFER_SIZE - Len(w.buffer) + 1 THEN WriteFlush(w) ELSE w
WriteStartTooEarly(w, size) ==
    IF size >= BUFFER_SIZE - Len(w.buffer) THEN WriteFlush(w) ELSE w

\* Makes room for size bytes, so that what is written next stays in one chunk.
WriteStart(w, size) ==
    IF size > BUFFER_SIZE - Len(w.buffer) THEN WriteFlush(w) ELSE w

\* dump() exits before write_start() for too many columns, and in it for a
\* row no buffer can hold ...
DumpDiesEarly(r) == r.max > MAX_COLUMNS \/ WriteStartDies(RowSize(r))
\* ... and after write_start(), while it writes the sizes, for a wide column.
DumpDiesLate(r) == r.widest > MAX_COLUMNS - 1
DumpDies(r) == DumpDiesEarly(r) \/ DumpDiesLate(r)

\* dump() of row number i, which is r, when no assertion fails.
Dump(w, i, r) == WriteBytes(WriteStart(w, RowSize(r)), RowBytes(i, r))

-----------------------------------------------------------------------------
\* The last row that is in a chunk already written.
Flushed(w) == FileEnd(w.file, 1)

(***************************************************************************)
(* What holds of a writer that has dumped rows lo to n of rows: the chunks *)
(* written hold them in order and the buffer continues the last of them up *)
(* to row n.  The writer packs if what it wrote is packed and the last     *)
(* chunk had no room for the row that the buffer starts with.              *)
(***************************************************************************)
WriterRun(rows, w, lo, n) ==
    /\ FileRun(rows, w.file, lo)
    /\ IF w.buffer = << >> THEN FileEnd(w.file, lo) = n
       ELSE /\ Chunk(rows, w.buffer)
            /\ FirstRow(w.buffer) = FileEnd(w.file, lo) + 1
            /\ LastRow(w.buffer) = n

NoRoomFor(rows, file, i) ==
    file # << >> => Len(file[Len(file)]) + RowSize(rows[i]) > BUFFER_SIZE

PacksSoFar(rows, w) ==
    /\ Packed(rows, w.file)
    /\ w.buffer # << >> => NoRoomFor(rows, w.file, FirstRow(w.buffer))

\* If the buffer is empty, the last chunk had no room for the row dumped next.
ReadyFor(rows, w, i) == w.buffer = << >> => NoRoomFor(rows, w.file, i)

WriterState(rows, w, n) == WriterRun(rows, w, 1, n) /\ PacksSoFar(rows, w)
=============================================================================
