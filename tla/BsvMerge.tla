----------------------------- MODULE BsvMerge -------------------------------
(***************************************************************************)
(* src/bmerge.c: merges files that are sorted by their first column.  The  *)
(* heap holds, for each file that has rows left, a raw row in the read     *)
(* buffer of that file.  Only load_next() on that same file may replace    *)
(* what it points to (the first note of util/load.h).                      *)
(***************************************************************************)
EXTENDS BsvRawRow, BsvHeap

CONSTANT
    Inputs      \* what the program may be given: the rows of all the files,
                \* the numbers of those in each file, the files, and -r

\* The chunks of a file hold the rows of c, which are numbered on from c[1].
HoldsContents(rows, file, c) ==
    IF c = << >> THEN file = << >>
    ELSE /\ \A k \in 1..Len(c) : c[k] = c[1] + k - 1
         /\ HoldsRows(rows, file, c[1], c[Len(c)])

\* The files that can be numbered: meta of raw_row_t has 16 bits.
MAX_FILES == 65536

\* Every row is in one file, and every file was written by one writer.
MergeInput(in) ==
    /\ in.rows \in Seq(Row) /\ \A i \in 1..Len(in.rows) : in.rows[i].key \in Int
    /\ in.contents \in Seq(Seq(1..Len(in.rows))) /\ Len(in.files) = Len(in.contents)
    /\ Len(in.files) <= MAX_FILES
    /\ \A f \in 1..Len(in.contents) : HoldsContents(in.rows, in.files[f], in.contents[f])
    /\ \A i \in 1..Len(in.rows) : \E f \in 1..Len(in.contents) : i \in Held(in.contents[f])
    /\ \A f, g \in 1..Len(in.contents) :
         f # g => Held(in.contents[f]) \cap Held(in.contents[g]) = {}
    /\ in.reversed \in BOOLEAN

ASSUME MergeInputsAssumption == \A in \in Inputs : MergeInput(in)

VARIABLES
    input,      \* one of Inputs
    rbuf,       \* a read buffer for each file
    heap,       \* raw rows; meta is the file
    wbuf,       \* the write buffer, and the chunks written
    seeded,     \* the number of files whose first row was loaded
    pc          \* "seed", "merge", "done" or "fatal"

vars == <<input, rbuf, heap, wbuf, seeded, pc>>

Init ==
    /\ input \in Inputs
    /\ rbuf = [f \in 1..Len(input.files) |-> RbufInit]
    /\ heap = << >>
    /\ wbuf = WbufInit
    /\ seeded = 0
    /\ pc = "seed"

-----------------------------------------------------------------------------
RankOf(i) == Rank(i, input.rows, input.reversed)

\* HEAP_COMPARE: the first columns are compared where they are, in rb.
Ranks(h, rb) ==
    [raw \in {h[k] : k \in 1..Len(h)} |-> RankOf(RawRow(raw, rb[raw.meta].buffer))]

Insert(h, raw, rb) == HeapInsert(h, raw, Ranks(Append(h, raw), rb))
Delete(h, rb) == HeapDelete(h, Ranks(h, rb))

\* load_next() on file f, and the row it loads goes into the heap h.
LoadInto(h, f) ==
    \E loaded \in {LoadNext(rbuf[f], input.rows, input.files[f])} :
    \E rb \in {[rbuf EXCEPT ![f] = loaded.rbuf]} :
        /\ rbuf' = rb
        /\ heap' = IF loaded.outcome = "row" THEN Insert(h, RowToRaw(f, rb[f], input.rows), rb) ELSE h
        /\ pc' = IF loaded.outcome = "fatal" THEN "fatal" ELSE pc

\* Mutant: the last file is not among those the heap is seeded from.
SeededEarly ==
    /\ pc = "seed" /\ seeded >= Len(input.files) - 1
    /\ pc' = "merge"
    /\ UNCHANGED <<input, rbuf, heap, wbuf, seeded>>

\* The first row of the next file.
Seed ==
    /\ pc = "seed" /\ seeded < Len(input.files)
    /\ LoadInto(heap, seeded + 1)
    /\ seeded' = seeded + 1
    /\ UNCHANGED <<input, wbuf>>

Seeded ==
    /\ pc = "seed" /\ seeded = Len(input.files)
    /\ pc' = "merge"
    /\ UNCHANGED <<input, rbuf, heap, wbuf, seeded>>

\* Mutant: the row is written after the next one was loaded.
MergeRowLate ==
    /\ pc = "merge" /\ heap # << >>
    /\ LoadInto(Delete(heap, rbuf), heap[1].meta)
    /\ wbuf' = DumpRaw(wbuf, heap[1], rbuf'[heap[1].meta].buffer)
    /\ UNCHANGED <<input, seeded>>

\* The first row of the heap is written, and the next row of its file takes
\* its place.
MergeRow ==
    /\ pc = "merge" /\ heap # << >>
    /\ wbuf' = DumpRaw(wbuf, heap[1], rbuf[heap[1].meta].buffer)
    /\ LoadInto(Delete(heap, rbuf), heap[1].meta)
    /\ UNCHANGED <<input, seeded>>

Finish ==
    /\ pc = "merge" /\ heap = << >>
    /\ wbuf' = WriteFlush(wbuf)
    /\ pc' = "done"
    /\ UNCHANGED <<input, rbuf, heap, seeded>>

Terminated == pc \in {"done", "fatal"} /\ UNCHANGED vars

Next == Seed \/ Seeded \/ MergeRow \/ Finish \/ Terminated

\* The program runs on: nothing it waits for is missing from a file.
Spec == Init /\ [][Next]_vars /\ WF_vars(Seed \/ Seeded \/ MergeRow \/ Finish)
-----------------------------------------------------------------------------
Written == Held(RowsOut(wbuf))

\* The rows of c that are not in W, and those of file f that were not written.
Without(c, W) ==
    LET upto[k \in 0..Len(c)] ==
            IF k = 0 THEN << >>
            ELSE IF c[k] \in W THEN upto[k - 1] ELSE Append(upto[k - 1], c[k])
    IN  upto[Len(c)]

Left(f) == Without(input.contents[f], Written)

(***************************************************************************)
(* No pointer in the heap is stale: between two rounds of either loop each *)
(* raw row shows the first row of its file that was not written, whole,    *)
(* and no file that has such a row is missing from the heap.               *)
(***************************************************************************)
HeapShowsHeads ==
    /\ \A k \in 1..Len(heap) :
         LET f == heap[k].meta IN
         /\ ShowsRow(heap[k], rbuf[f].buffer, input.rows)
         /\ Left(f) # << >> /\ RawRow(heap[k], rbuf[f].buffer) = Left(f)[1]
    /\ \A f \in 1..Len(input.files) :
         f <= seeded /\ Left(f) # << >> => \E k \in 1..Len(heap) : heap[k].meta = f

(***************************************************************************)
(* The header and the columns of a raw row are copied to the output, from  *)
(* wherever the pointers point at that time: what is written is whole rows.*)
(***************************************************************************)
WritesWholeRows ==
    \A c \in 1..Len(wbuf.file) : WholeRows(input.rows, wbuf.file[c])

(***************************************************************************)
(* The output is sorted at all times when the files are, and at the end it *)
(* has every row of every file.  DESCRIPTION: "merge sorted files".        *)
(***************************************************************************)
SortedFiles ==
    \A f \in 1..Len(input.contents) : \A i, j \in 1..Len(input.contents[f]) :
        i < j => RankOf(input.contents[f][i]) <= RankOf(input.contents[f][j])

MergesSorted ==
    SortedFiles =>
        LET out == RowsOut(wbuf) IN
        /\ \A i, j \in 1..Len(out) : i < j => RankOf(out[i]) <= RankOf(out[j])
        /\ pc = "done" => /\ wbuf.buffer = << >> /\ Len(out) = Len(input.rows)
                          /\ \A i \in 1..Len(input.rows) : \E k \in 1..Len(out) : out[k] = i

(***************************************************************************)
(* Sorted or not, the program takes a least head as long as there is one,  *)
(* which also keeps the rows of each file in their order.                  *)
(***************************************************************************)
Ranked(s) == [k \in 1..Len(s) |-> [row |-> s[k], rank |-> RankOf(s[k])]]

Queues == [f \in 1..Len(input.files) |-> Ranked(Left(f))]

Heads == INSTANCE LeastHead WITH queue <- Queues, out <- Ranked(RowsOut(wbuf))

TakesLeastHeads == Heads!FairSpec

-----------------------------------------------------------------------------
(***************************************************************************)
(* The inductive invariant: of each file a first part was written; a raw   *)
(* row in the heap shows the row after that part, and the read buffer of   *)
(* the file is in front of the next one; a file that was seeded and is not *)
(* in the heap was written to its end.                                     *)
(***************************************************************************)
\* The rows of file f before number p of it were written, the others not.
WrittenBefore(f, p) ==
    \A k \in 1..Len(input.contents[f]) : input.contents[f][k] \in Written <=> k < p

Typed ==
    /\ input \in Inputs /\ rbuf \in [1..Len(input.files) -> ReadBuf]
    /\ heap \in Seq(RawRows) /\ WholeOutput(input.rows, wbuf)
    /\ seeded \in 0..Len(input.files)
    /\ pc \in {"seed", "merge", "done"}

PhaseInv ==
    /\ pc = "seed" => RowsOut(wbuf) = << >>
    /\ pc # "seed" => seeded = Len(input.files)
    /\ pc = "done" => heap = << >> /\ wbuf.buffer = << >>

HeapInv ==
    /\ Once(heap) /\ HeapOrder(heap, Ranks(heap, rbuf))
    /\ \A raw1, raw2 \in Held(heap) : raw1 # raw2 => raw1.meta # raw2.meta

\* A raw row shows number p of the rows of its file, and rb is the read buffer
\* of that file.
ShowsHead(in, rb, raw, p) ==
    LET file == in.files[raw.meta]
        c == in.contents[raw.meta]
    IN  /\ ShowsRow(raw, rb.buffer, in.rows) /\ RawRow(raw, rb.buffer) = c[p]
        /\ ~rb.dead /\ rb.next \in 1..Len(file) /\ rb.buffer = file[rb.next]
        /\ UpcomingTo(in.rows, file, rb, c[Len(c)], c[p] + 1)

HeadsInv ==
    \A raw \in Held(heap) :
        /\ raw.meta \in 1..seeded
        /\ \E p \in 1..Len(input.contents[raw.meta]) :
             ShowsHead(input, rbuf[raw.meta], raw, p) /\ WrittenBefore(raw.meta, p)

FilesInv ==
    \A f \in 1..Len(input.files) :
        /\ f > seeded => rbuf[f] = RbufInit
        /\ f <= seeded /\ (\A raw \in Held(heap) : raw.meta # f)
             => WrittenBefore(f, Len(input.contents[f]) + 1)

OutInv ==
    LET out == RowsOut(wbuf) IN
    /\ out \in Seq(1..Len(input.rows)) /\ Once(out)
    /\ SortedFiles =>
         /\ \A i, j \in 1..Len(out) : i < j => RankOf(out[i]) <= RankOf(out[j])
         /\ \A k \in 1..Len(out), raw \in Held(heap) :
              RankOf(out[k]) <= RankOf(RawRow(raw, rbuf[raw.meta].buffer))

IInv == Typed /\ PhaseInv /\ HeapInv /\ HeadsInv /\ FilesInv /\ OutInv
=============================================================================
