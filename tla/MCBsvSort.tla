----------------------------- MODULE MCBsvSort ------------------------------
(***************************************************************************)
(* A small instance of BsvSort: up to four rows in buffers of 12 bytes,    *)
(* which hold two of the small rows or one large row.                      *)
(***************************************************************************)
EXTENDS BsvSort, SequencesExt

Small(k) == [max |-> 0, data |-> 1, widest |-> 0, key |-> k]    \* 5 bytes
Large(k) == [max |-> 0, data |-> 4, widest |-> 3, key |-> k]    \* 8 bytes

MCRow == {Small(k) : k \in 1..2} \union {Large(k) : k \in {1, 3}}

FileOf(rows) ==
    LET w == FoldLeft(LAMBDA b, i : Dump(b, i, rows[i]), WbufInit, [k \in 1..Len(rows) |-> k])
    IN  WriteFlush(w).file

MCInputs ==
    {[rows |-> rows, file |-> FileOf(rows), reversed |-> reversed] :
        rows \in BoundedSeq(MCRow, 4), reversed \in BOOLEAN}
=============================================================================
