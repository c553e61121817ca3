------------------------------ MODULE BsvFormat ------------------------------
(***************************************************************************)
(* The bsv data format, as util/util.h, util/row.h and util/dump.h lay it  *)
(* out in memory and on the wire: a stream is a sequence of chunks, a chunk*)
(* is a sequence of bytes, and the bytes of a chunk are whole rows.        *)
(*                                                                         *)
(* The bytes of a row are data: what matters is which byte of which row a  *)
(* buffer position holds.  A byte is therefore a cell [row, byte]: byte    *)
(* number "byte" of the encoding of row number "row" of some table of rows.*)
(* The values of those bytes are left out.                                 *)
(***************************************************************************)
EXTENDS Integers, Sequences

CONSTANTS
    BUFFER_SIZE,    \* capacity in bytes of every read and write buffer
    MAX_COLUMNS,    \* the limit the format checks compare against
    Row             \* the rows a run may contain

(***************************************************************************)
(* max is the zero based index of the last column, data the bytes of all   *)
(* the columns with their trailing zeros, widest the size of the largest.  *)
(***************************************************************************)
ASSUME FormatAssumption ==
    /\ BUFFER_SIZE \in Nat \ {0}
    /\ MAX_COLUMNS \in Nat
    /\ \A r \in Row : /\ r.max \in Nat /\ r.data \in Nat /\ r.widest \in Nat
                      /\ r.data >= r.max + 1 + r.widest

\* max:u16 and one u16 per column precede the column bytes.
HeaderSize(r) == 2 + 2 * (r.max + 1)
RowSize(r) == HeaderSize(r) + r.data

Cell == [row : Nat, byte : Nat]
RowBytes(i, r) == [k \in 1..RowSize(r) |-> [row |-> i, byte |-> k]]

\* The rows whose bytes start and end a sequence of cells.
FirstRow(s) == s[1].row
LastRow(s) == s[Len(s)].row

(***************************************************************************)
(* A block is a nonempty sequence of whole rows, numbered consecutively:   *)
(* every cell of it determines the row around it.  A chunk is a block that *)
(* fits a buffer.                                                          *)
(***************************************************************************)
WholeRows(rows, s) ==
    \A p \in 1..Len(s) :
        LET i == s[p].row
            start == p - s[p].byte
        IN  /\ i \in 1..Len(rows)
            /\ s[p].byte \in 1..RowSize(rows[i])
            /\ start >= 0 /\ start + RowSize(rows[i]) <= Len(s)
            /\ \A k \in 1..RowSize(rows[i]) : s[start + k] = [row |-> i, byte |-> k]

Consecutive(rows, s) ==
    \A p \in 1..Len(s) - 1 :
        s[p].byte = RowSize(rows[s[p].row])
            => s[p + 1] = [row |-> s[p].row + 1, byte |-> 1]

Block(rows, s) == s # << >> /\ WholeRows(rows, s) /\ Consecutive(rows, s)
Chunk(rows, s) == Block(rows, s) /\ Len(s) <= BUFFER_SIZE

\* A file is a sequence of chunks, which hold rows lo, lo + 1 and so on.
FileRun(rows, file, lo) ==
    /\ \A c \in 1..Len(file) : Chunk(rows, file[c])
    /\ file # << >> => FirstRow(file[1]) = lo
    /\ \A c \in 1..Len(file) - 1 : FirstRow(file[c + 1]) = LastRow(file[c]) + 1

\* The last row of a file that starts with row lo, lo - 1 if it has no row.
FileEnd(file, lo) == IF file = << >> THEN lo - 1 ELSE LastRow(file[Len(file)])

\* A file that holds rows lo to hi, and one that holds all of the rows.
HoldsRows(rows, file, lo, hi) ==
    /\ rows \in Seq(Row) /\ file \in Seq(Seq(Cell))
    /\ FileRun(rows, file, lo) /\ FileEnd(file, lo) = hi

WholeFile(rows, file) == HoldsRows(rows, file, 1, Len(rows))

\* It is greedily packed when no chunk could also have held the first row of
\* the chunk after it.
Packed(rows, file) ==
    \A c \in 1..Len(file) - 1 :
        Len(file[c]) + RowSize(rows[FirstRow(file[c + 1])]) > BUFFER_SIZE
=============================================================================
