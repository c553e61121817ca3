----------------------------- MODULE MCBsvFiles -----------------------------
(***************************************************************************)
(* A small instance of BsvFiles.  A buffer of 12 bytes holds two values of *)
(* one byte (6 bytes with their sizes and zeros) or one of four (9 bytes). *)
(***************************************************************************)
EXTENDS BsvFiles

\* Tables of two or three columns; the last row may have fewer or more columns.
Sized(k) == [1..k -> {1, 4}]
Job(p, tables) == [programs |-> p, tables |-> tables]

UnzipJob(n, len) ==
    Job({[name |-> "bunzip", files |-> n, ends |-> <<len>>, then |-> "zip", selected |-> s] :
            s \in {<<1>>, <<2, 1>>, <<1, n>>, <<1, 1>>, <<2, 1, 2>>}}
          \union {[name |-> "bunzip", files |-> n, ends |-> <<len>>, then |-> "cat",
                   selected |-> s, head |-> h] : s \in {<<2, 1>>, <<1, 1>>}, h \in 0..2},
        {t \in BoundedSeq(Sized(n), len) : Len(t) = len}
          \union (IF len < 2 THEN {}
                  ELSE {[t EXCEPT ![len] = bad] :
                           t \in [1..len -> Sized(n)], bad \in {<<1>>, <<1, 1, 1, 1>>}}))

\* Rows for bpartition: one small, one large column, with a hash.
Rows == {[max |-> 0, data |-> n + 1, widest |-> n, hash |-> h] : n \in {1, 4}, h \in {5, 6, 9}}
PartitionJobs ==
    {Job({[name |-> "bpartition", files |-> n, ends |-> ends] :
             n \in 1..3, ends \in {<<len>>} \union {<<m, len>> : m \in 0..len}},
         [1..len -> Rows]) : len \in 0..3}

MCInputs == {UnzipJob(2, len) : len \in 0..4} \union {UnzipJob(3, 2)} \union PartitionJobs
MCRow == {OneColumn(n) : n \in {0, 1, 4}} \union Rows
=============================================================================
