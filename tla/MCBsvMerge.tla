----------------------------- MODULE MCBsvMerge -----------------------------
(***************************************************************************)
(* A small instance of BsvMerge: buffers of 12 bytes, which hold two of the*)
(* small rows or one large row, and files that one writer wrote.           *)
(***************************************************************************)
EXTENDS BsvMerge, SequencesExt

Small(k) == [max |-> 0, data |-> 1, widest |-> 0, key |-> k]    \* 5 bytes
Large(k) == [max |-> 0, data |-> 4, widest |-> 3, key |-> k]    \* 8 bytes

MCRow == {Small(k) : k \in 1..3} \union {Large(k) : k \in 1..2}

\* The file of rows from + 1 to upto.
FileOf(rows, from, upto) ==
    LET w == FoldLeft(LAMBDA b, i : Dump(b, i, rows[i]), WbufInit,
                      [k \in 1..upto - from |-> from + k])
    IN  WriteFlush(w).file

\* The input whose files hold the given sequences of rows.
InputOf(lists, reversed) ==
    LET before == [f \in 0..Len(lists) |-> SumFunction([k \in 1..f |-> Len(lists[k])])]
        rows == FlattenSeq(lists)
    IN  [rows |-> rows,
         contents |-> [f \in 1..Len(lists) |->
                          [k \in 1..Len(lists[f]) |-> before[f - 1] + k]],
         files |-> [f \in 1..Len(lists) |-> FileOf(rows, before[f - 1], before[f])],
         reversed |-> reversed]

\* Two files, of up to three rows and of up to two; three files of up to two
\* rows; and five files of one.
MCInputs ==
    LET rows == {Small(1), Small(2), Large(1)}
        lists == (BoundedSeq(rows, 3) \X BoundedSeq(rows, 2))
                 \union TupleOf(BoundedSeq({Small(1), Large(2)}, 2), 3)
                 \union TupleOf({<<Small(k)>> : k \in 1..3}, 5)
    IN  {InputOf(l, reversed) : l \in lists, reversed \in BOOLEAN}
=============================================================================
