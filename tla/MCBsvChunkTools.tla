-------------------------- MODULE MCBsvChunkTools --------------------------
(***************************************************************************)
(* A small instance of BsvChunkTools: every sorted stream of at most       *)
(* MaxRows rows of three sizes.  Two small rows or a small and a medium    *)
(* one share a chunk of 12 bytes; a large one fills it.                    *)
(***************************************************************************)
EXTENDS BsvChunkTools, SequencesExt

CONSTANT MaxRows

MCRow == [max : {0}, data : {1, 3, 8}, widest : {0}, before : BOOLEAN]

Sorted(s) == \A i \in 1..Len(s) - 1 : s[i + 1].before => s[i].before
MCTables == {s \in BoundedSeq(MCRow, MaxRows) : Sorted(s)}

\* The chunks of a program that wrote rows lo to hi of s.
Written(s, lo, hi) ==
    WriteFlush(FoldLeft(LAMBDA w, i : Dump(w, i, s[i]), WbufInit,
                        [k \in 1..hi - lo + 1 |-> lo + k - 1])).file

MCWritten == {[rows |-> s, file |-> Written(s, 1, Len(s))] : s \in MCTables}
=============================================================================
