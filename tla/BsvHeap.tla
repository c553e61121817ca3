------------------------------ MODULE BsvHeap -------------------------------
(***************************************************************************)
(* The binary heap of vendor/heap.h, as operators on the sequence of its   *)
(* nodes: nodes[i] of the code is h[i + 1] here.  rank stands for the macro*)
(* HEAP_COMPARE(meta, x, y), which each program defines before it includes *)
(* the file: x belongs nearer to the root than y when rank[x] < rank[y].   *)
(***************************************************************************)
EXTENDS Integers, Sequences

Parent(i) == i \div 2

(***************************************************************************)
(* x goes up from the new last node: every node it passes takes what its   *)
(* parent held, and x goes where it stays.                                 *)
(***************************************************************************)
HeapInsert(h, x, rank) ==
    LET Stays(i) == i = 1 \/ rank[x] >= rank[h[Parent(i)]]
        up[i \in 1..Len(h) + 1] == {i} \union (IF Stays(i) THEN {} ELSE up[Parent(i)])
    IN  [i \in 1..Len(h) + 1 |-> IF i \notin up[Len(h) + 1] THEN h[i]
                                 ELSE IF Stays(i) THEN x ELSE h[Parent(i)]]

\* The child of node i that x changes places with, or i: the right child
\* when it belongs nearer to the root than both x and the left one.
SmallestLeft(h, i, x, rank) ==
    IF 2 * i <= Len(h) /\ rank[h[2 * i]] < rank[x] THEN 2 * i ELSE i

Smallest(h, i, x, rank) ==
    LET left == SmallestLeft(h, i, x, rank)
        held == IF left = i THEN x ELSE h[left]
    IN  IF 2 * i + 1 <= Len(h) /\ rank[h[2 * i + 1]] < rank[held] THEN 2 * i + 1 ELSE left

\* The root goes down until it stays where it is: every node it passes takes
\* what the next one held.
HeapHeapify(h, rank) ==
    LET Next(i) == Smallest(h, i, h[1], rank)
        down[i \in 1..Len(h)] == {i} \union (IF Next(i) = i THEN {} ELSE down[Next(i)])
    IN  [i \in 1..Len(h) |-> IF i \notin down[1] THEN h[i]
                             ELSE IF Next(i) = i THEN h[1] ELSE h[Next(i)]]

\* The last node replaces the root and goes down.
HeapDelete(h, rank) ==
    IF Len(h) <= 1 THEN << >>
    ELSE HeapHeapify([i \in 1..Len(h) - 1 |-> IF i = 1 THEN h[Len(h)] ELSE h[i]], rank)

-----------------------------------------------------------------------------
\* What a sequence holds; that it holds it once; and what makes it a heap.
Held(h) == {h[k] : k \in 1..Len(h)}

Once(h) == \A i, j \in 1..Len(h) : i # j => h[i] # h[j]

HeapOrder(h, rank) == \A i \in 2..Len(h) : rank[h[Parent(i)]] <= rank[h[i]]

IsHeap(h, S, rank) == h \in Seq(S) /\ Once(h) /\ HeapOrder(h, rank)
=============================================================================
