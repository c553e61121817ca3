------------------------------ MODULE BsvTopN -------------------------------
(***************************************************************************)
(* src/btopn.c: keeps rows in a heap with the best one at the root, cuts   *)
(* the heap back to top_n rows when it has grown to more than a multiple of*)
(* that, and at the end takes the best row top_n times.  The rows are      *)
(* copied out of the read buffer (row_to_raw_malloc), so a heap entry is   *)
(* the number of a row here; how rows are read is the subject of BsvStream.*)
(***************************************************************************)
EXTENDS BsvHeap, FiniteSets

CONSTANTS
    Inputs,     \* the keys of the rows, in their order, that may come in
    TopN,       \* the values of the argument N
    FACTOR      \* the heap may grow to FACTOR times N: 128 in the code

ASSUME TopNAssumption ==
    /\ \A keys \in Inputs : keys \in Seq(Int)
    /\ TopN \subseteq Nat
    /\ FACTOR \in Nat \ {0}

VARIABLES
    keys,       \* the key of each row of the input
    top_n,      \* the argument
    loaded,     \* the number of rows loaded
    heap,       \* the rows kept
    out,        \* the rows written
    pc          \* "load", "dump" or "done"

vars == <<keys, top_n, loaded, heap, out, pc>>

Init ==
    /\ keys \in Inputs
    /\ top_n \in TopN
    /\ loaded = 0
    /\ heap = << >>
    /\ out = << >>
    /\ pc = "load"

\* HEAP_COMPARE: here the greater key belongs nearer to the root.  With -r
\* it is the smaller one, which is the same as other keys.
Ranks == [i \in 1..Len(keys) |-> -keys[i]]

\* heap_truncate(): a heap longer than n becomes one of its n first roots.
Roots(h, n) ==
    LET after[k \in 0..n] == IF k = 0 THEN h ELSE HeapDelete(after[k - 1], Ranks)
    IN  [k \in 1..n |-> after[k - 1][1]]

\* Mutant: the loop that saves roots ends one too early.
TruncateShort(h, n) ==
    LET roots == Roots(h, n)
        kept[k \in 0..n] == IF k <= 1 THEN << >> ELSE HeapInsert(kept[k - 1], roots[k - 1], Ranks)
    IN  IF Len(h) <= n THEN h ELSE kept[n]

Truncate(h, n) ==
    LET roots == Roots(h, n)
        kept[k \in 0..n] == IF k = 0 THEN << >> ELSE HeapInsert(kept[k - 1], roots[k], Ranks)
    IN  IF Len(h) <= n THEN h ELSE kept[n]

InsertRow ==
    /\ pc = "load" /\ loaded < Len(keys)
    /\ \E h \in {HeapInsert(heap, loaded + 1, Ranks)} :
         heap' = IF Len(h) > top_n * FACTOR THEN Truncate(h, top_n) ELSE h
    /\ loaded' = loaded + 1
    /\ UNCHANGED <<keys, top_n, out, pc>>

AllLoaded ==
    /\ pc = "load" /\ loaded = Len(keys)
    /\ pc' = "dump"
    /\ UNCHANGED <<keys, top_n, loaded, heap, out>>

\* Mutant: rows are written in the order of the array, not of the heap.
DumpRowInPlace ==
    /\ pc = "dump" /\ heap # << >> /\ Len(out) < top_n
    /\ out' = Append(out, heap[1])
    /\ heap' = Tail(heap)
    /\ UNCHANGED <<keys, top_n, loaded, pc>>

DumpRow ==
    /\ pc = "dump" /\ heap # << >> /\ Len(out) < top_n
    /\ out' = Append(out, heap[1])
    /\ heap' = HeapDelete(heap, Ranks)
    /\ UNCHANGED <<keys, top_n, loaded, pc>>

Finish ==
    /\ pc = "dump" /\ (heap = << >> \/ Len(out) = top_n)
    /\ pc' = "done"
    /\ UNCHANGED <<keys, top_n, loaded, heap, out>>

Terminated == pc = "done" /\ UNCHANGED vars

Next == InsertRow \/ AllLoaded \/ DumpRow \/ Finish \/ Terminated

Spec == Init /\ [][Next]_vars

-----------------------------------------------------------------------------
Kept == {heap[k] : k \in 1..Len(heap)} \union {out[k] : k \in 1..Len(out)}

(***************************************************************************)
(* The heap holds no more than FACTOR * N rows once a row has been dealt   *)
(* with, and a row that was loaded and is no longer kept is not needed:    *)
(* there are top_n rows, kept or written, and none of them is worse.       *)
(***************************************************************************)
DropsOnlyTheWorst ==
    /\ Len(heap) <= top_n * FACTOR
    /\ \A i \in 1..loaded \ Kept :
         Cardinality({j \in Kept : keys[j] >= keys[i]}) >= top_n

(***************************************************************************)
(* What is written are different rows, the best first, and none that was   *)
(* not written is better than one that was; there are as many of them as   *)
(* the argument says, if there are as many in the input.                   *)
(***************************************************************************)
WritesTheBest ==
    /\ \A i, j \in 1..Len(out) : i < j => out[i] # out[j] /\ keys[out[i]] >= keys[out[j]]
    /\ \A k \in 1..Len(out), i \in 1..loaded :
         (\A m \in 1..Len(out) : out[m] # i) => keys[i] <= keys[out[k]]
    /\ pc = "done" => Len(out) = IF Len(keys) < top_n THEN Len(keys) ELSE top_n

-----------------------------------------------------------------------------
(***************************************************************************)
(* The inductive invariant: the rows kept are in the heap or written, and  *)
(* none is in both; what is written is not worse than what is in the heap, *)
(* and its order is that in which it was written.                          *)
(***************************************************************************)
Typed ==
    /\ keys \in Inputs /\ top_n \in TopN /\ loaded \in 0..Len(keys)
    /\ pc \in {"load", "dump", "done"}
    /\ IsHeap(heap, 1..Len(keys), Ranks)
    /\ out \in Seq(1..Len(keys)) /\ Once(out)

PlacesInv ==
    /\ Kept \subseteq 1..loaded /\ Held(heap) \cap Held(out) = {}
    /\ Len(out) <= top_n

PhaseInv ==
    /\ pc = "load" => out = << >>
    /\ pc # "load" => loaded = Len(keys)
    /\ pc = "done" => heap = << >> \/ Len(out) = top_n

BestInv ==
    /\ \A k, m \in 1..Len(out) : k < m => keys[out[k]] >= keys[out[m]]
    /\ \A k \in 1..Len(out), i \in Held(heap) : keys[i] <= keys[out[k]]

IInv == Typed /\ PlacesInv /\ PhaseInv /\ BestInv /\ DropsOnlyTheWorst
=============================================================================
