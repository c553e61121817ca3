------------------------------ MODULE MCBsvCsv ------------------------------
(***************************************************************************)
(* A small instance of BsvCsvOut: buffers of four characters, at most three *)
(* columns, and every file of up to eight characters, or five when there   *)
(* are null bytes among them.                                              *)
(***************************************************************************)
EXTENDS BsvCsvOut

FileOf(kinds) == [i \in 1..Len(kinds) |-> [kind |-> kinds[i], at |-> i]]

MCFiles ==
    {FileOf(k) : k \in BoundedSeq({"char", "delimiter", "newline"}, 8)}
    \union {FileOf(k) : k \in BoundedSeq({"char", "delimiter", "newline", "null"}, 5)}
=============================================================================
