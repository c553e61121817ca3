------------------------------ MODULE BsvSort -------------------------------
(***************************************************************************)
(* src/bsort.c: loads all rows, keeping raw rows (see BsvRawRow) in an     *)
(* array, sorts the array by the first column, and writes what it points   *)
(* to.  The pointers outlive the chunk they were made for because bsort.c  *)
(* defines READ_GROWING: read_bytes() then allocates a buffer for every    *)
(* chunk and leaves the earlier ones alone.                                *)
(***************************************************************************)
EXTENDS BsvRawRow

CONSTANT Inputs     \* the rows of a file and the file, and the -r flag

ASSUME SortInputsAssumption ==
    \A in \in Inputs :
        /\ WholeFile(in.rows, in.file) /\ \A k \in 1..Len(in.rows) : in.rows[k].key \in Int
        /\ in.reversed \in BOOLEAN

VARIABLES
    input,      \* one of Inputs
    rbuf,       \* the read buffer
    memory,     \* what every buffer that was ever allocated holds
    array,      \* raw rows; meta is the buffer they point into
    wbuf,       \* the write buffer, and the chunks written
    written,    \* the number of raw rows dumped
    pc          \* "load", "write", "done" or "fatal"

vars == <<input, rbuf, memory, array, wbuf, written, pc>>

Init ==
    /\ input \in Inputs
    /\ rbuf = RbufInit
    /\ memory = << >>
    /\ array = << >>
    /\ wbuf = WbufInit
    /\ written = 0
    /\ pc = "load"

RankAt(raw) ==
    Rank(RawRow(raw, memory[raw.meta]), input.rows, input.reversed)

Permutation(n) == {p \in [1..n -> 1..n] : \A i, j \in 1..n : i # j => p[i] # p[j]}

\* Mutant: without READ_GROWING there is one buffer, for all chunks.
MemoryAfterReused(rb) == [c \in 1..rb.next |-> rb.buffer]

\* A chunk that was just read is in a buffer of its own.
MemoryAfter(rb) == IF rb.next > Len(memory) THEN Append(memory, rb.buffer) ELSE memory

Load ==
    /\ pc = "load"
    /\ \E loaded \in {LoadNext(rbuf, input.rows, input.file)} :
         /\ loaded.outcome # "stop"
         /\ rbuf' = loaded.rbuf
         /\ memory' = MemoryAfter(loaded.rbuf)
         /\ array' = IF loaded.outcome = "row"
                     THEN Append(array, RowToRaw(loaded.rbuf.next, loaded.rbuf, input.rows))
                     ELSE array
         /\ pc' = IF loaded.outcome = "row" THEN pc ELSE "fatal"
    /\ UNCHANGED <<input, wbuf, written>>

\* The end of the input: row_tim_sort() of vendor/sort.h sorts the array.
Sort ==
    /\ pc = "load"
    /\ \E loaded \in {LoadNext(rbuf, input.rows, input.file)} :
         loaded.outcome = "stop" /\ rbuf' = loaded.rbuf
    /\ \E sorted \in {[k \in 1..Len(array) |-> array[p[k]]] : p \in Permutation(Len(array))} :
         /\ \A i, j \in 1..Len(array) : i < j => RankAt(sorted[i]) <= RankAt(sorted[j])
         /\ array' = sorted
    /\ pc' = "write"
    /\ UNCHANGED <<input, memory, wbuf, written>>

WriteRow ==
    /\ pc = "write" /\ written < Len(array)
    /\ LET raw == array[written + 1] IN wbuf' = DumpRaw(wbuf, raw, memory[raw.meta])
    /\ written' = written + 1
    /\ UNCHANGED <<input, rbuf, memory, array, pc>>

Finish ==
    /\ pc = "write" /\ written = Len(array)
    /\ wbuf' = WriteFlush(wbuf)
    /\ pc' = "done"
    /\ UNCHANGED <<input, rbuf, memory, array, written>>

Terminated == pc \in {"done", "fatal"} /\ UNCHANGED vars

Next == Load \/ Sort \/ WriteRow \/ Finish \/ Terminated

Spec == Init /\ [][Next]_vars /\ WF_vars(Load \/ Sort \/ WriteRow \/ Finish)

-----------------------------------------------------------------------------
(***************************************************************************)
(* Every raw row in the array still shows a whole row, and no two the same *)
(* one, however many chunks were read since (the first note of util/load.h *)
(* says that memory may be mutated by the next call: not here).            *)
(***************************************************************************)
ArrayStaysValid ==
    /\ \A k \in 1..Len(array) : ShowsRow(array[k], memory[array[k].meta], input.rows)
    /\ \A k, m \in 1..Len(array) :
         k # m => RawRow(array[k], memory[array[k].meta]) # RawRow(array[m], memory[array[m].meta])

(***************************************************************************)
(* The program ends, and has then written every row once, in order, in     *)
(* chunks of whole rows.                                                   *)
(***************************************************************************)
SortedOutput ==
    LET out == RowsOut(wbuf)
        rank == [k \in 1..Len(out) |-> Rank(out[k], input.rows, input.reversed)]
    IN  /\ \A c \in 1..Len(wbuf.file) : WholeRows(input.rows, wbuf.file[c])
        /\ wbuf.buffer = << >>
        /\ Len(out) = Len(input.rows)
        /\ \A i \in 1..Len(input.rows) : \E k \in 1..Len(out) : out[k] = i
        /\ \A i, j \in 1..Len(out) : i < j => rank[i] <= rank[j]

SortsEverything == <>(pc = "done" /\ SortedOutput)

-----------------------------------------------------------------------------
(***************************************************************************)
(* The inductive invariant: what is in memory is what the file holds, so   *)
(* that a raw row shows the same row for ever; while rows are loaded they  *)
(* are in the array in the order of the input, and afterwards in the order *)
(* of their ranks; the rows dumped are the first ones of the array.        *)
(***************************************************************************)
Shown(k) == RawRow(array[k], memory[array[k].meta])

Typed ==
    /\ input \in Inputs /\ pc \in {"load", "write", "done"}
    /\ rbuf \in ReadBuf /\ ~rbuf.dead /\ rbuf.next \in 0..Len(input.file)
    /\ array \in Seq(RawRows) /\ written \in 0..Len(array)
    /\ WholeOutput(input.rows, wbuf)

MemoryInv ==
    /\ rbuf.next # 0 => rbuf.buffer = input.file[rbuf.next]
    /\ memory \in Seq(Seq(Cell)) /\ Len(memory) = rbuf.next
    /\ \A c \in 1..Len(memory) : memory[c] = input.file[c]

ValidInv ==
    \A k \in 1..Len(array) :
        /\ array[k].meta \in 1..Len(memory)
        /\ ShowsRow(array[k], memory[array[k].meta], input.rows)

LoadInv ==
    pc = "load" =>
        /\ Len(array) <= Len(input.rows) /\ written = 0
        /\ Upcoming(input.rows, input.file, rbuf, Len(array) + 1)
        /\ \A k \in 1..Len(array) : Shown(k) = k

OrderInv ==
    pc # "load" =>
        /\ Len(array) = Len(input.rows)
        /\ \A i \in 1..Len(array) : \E k \in 1..Len(array) : Shown(k) = i
        /\ \A k, m \in 1..Len(array) : k # m => Shown(k) # Shown(m)
        /\ \A i, j \in 1..Len(array) : i < j => RankAt(array[i]) <= RankAt(array[j])

WrittenInv ==
    /\ RowsOut(wbuf) = [k \in 1..written |-> Shown(k)]
    /\ pc = "done" => written = Len(array) /\ wbuf.buffer = << >>

IInv == Typed /\ MemoryInv /\ ValidInv /\ LoadInv /\ OrderInv /\ WrittenInv
=============================================================================
