----------------------------- MODULE BsvRawRow ------------------------------
(***************************************************************************)
(* Raw rows (util/row.h): a row that was loaded, as a pointer to its header*)
(* in a buffer and its size.  A raw row is what the buffer holds when the  *)
(* pointer is followed, and so it is modelled: a buffer is a sequence of   *)
(* cells (see BsvFormat), a pointer an index into it.                      *)
(***************************************************************************)
EXTENDS BsvWrite, BsvRead

\* What lies in memory outside the chunk a buffer holds: bytes of no row.
NoCell == [row |-> 0, byte |-> 0]

CellAt(buffer, p) == IF p \in 1..Len(buffer) THEN buffer[p] ELSE NoCell

\* raw_row_t: meta is the file, the rest points into a buffer.
RawRows == [meta : Nat, header : Int, header_size : Nat, buffer_size : Nat]

\* Mutant: max is not counted as part of the header.
RowToRawNoMax(meta, rb, rows) ==
    LET r == rows[FirstCell(rb).row] IN
    [meta |-> meta, header |-> rb.at - (HeaderSize(r) - 2),
     header_size |-> HeaderSize(r) - 2, buffer_size |-> r.data]

\* row_to_raw() of the row just loaded: its header ends where its columns
\* begin, which is where rb points.
RowToRaw(meta, rb, rows) ==
    LET r == rows[FirstCell(rb).row] IN
    [meta |-> meta, header |-> rb.at - HeaderSize(r),
     header_size |-> HeaderSize(r), buffer_size |-> r.data]

\* The bytes a raw row points to, and the row whose first column it shows.
RawBytes(raw, buffer) ==
    [k \in 1..raw.header_size + raw.buffer_size |-> CellAt(buffer, raw.header + k)]
RawRow(raw, buffer) == CellAt(buffer, raw.header + raw.header_size + 1).row

\* Rows are compared by rank: compare() on the first columns, or for -r the
\* same turned around.  The key of a row is what it compares.
Rank(i, rows, reversed) ==
    IF i \notin 1..Len(rows) THEN 0
    ELSE IF reversed THEN -rows[i].key ELSE rows[i].key

\* The bytes are one row, from its first to its last.
ShowsRow(raw, buffer, rows) ==
    LET i == RawRow(raw, buffer) IN
    i \in 1..Len(rows) /\ RawBytes(raw, buffer) = RowBytes(i, rows[i])

\* dump_raw(): its bytes were read from a chunk, so they fit a buffer.
DumpRaw(w, raw, buffer) ==
    LET bytes == RawBytes(raw, buffer) IN WriteBytes(WriteStart(w, Len(bytes)), bytes)

-----------------------------------------------------------------------------
\* The rows whose first bytes are in a sequence of cells, and all that were
\* dumped: those in the chunks written and those in the buffer.
RowsOf(s) ==
    LET upto[k \in 0..Len(s)] ==
            IF k = 0 THEN << >>
            ELSE IF s[k].byte <= 1 THEN Append(upto[k - 1], s[k].row) ELSE upto[k - 1]
    IN  upto[Len(s)]

RowsOut(w) ==
    LET upto[c \in 0..Len(w.file)] ==
            IF c = 0 THEN << >> ELSE upto[c - 1] \o RowsOf(w.file[c])
    IN  upto[Len(w.file)] \o RowsOf(w.buffer)

\* A writer that was given whole rows.
WholeOutput(rows, w) ==
    /\ w \in WriteBuf /\ WholeRows(rows, w.buffer)
    /\ \A c \in 1..Len(w.file) : WholeRows(rows, w.file[c])
=============================================================================
