# A TLA+ model of bsv

`bsv` is a suite of some forty small C programs that read rows from standard
input and write rows to standard output, in a binary format of length-prefixed
columns packed into chunks of at most `BUFFER_SIZE` (5 MiB). This directory
models the format, the buffers every program is built on, the programs whose
control is more than "copy each row", and the pipelines they are joined into.
TLC checks the models on small instances; TLAPS proves the core of it (the
stream, pipelines, the chunk tools, the sort, the heap, the merge, the top n and
the programs on several files) for every buffer size, every row and every schedule.

Paths below are relative to the repository: `util/`, `src/`, `vendor/`.

## Inventory

| Part | State it keeps | Operations | Correct when |
|---|---|---|---|
| Format and row writer (`util/dump.h`, `util/row.h`) | none | `dump`, `dump_raw`, `row_to_raw` | a row never crosses a chunk; what cannot be encoded is refused |
| Write buffer (`util/write.h`) | `buffer`, `offset` per file | `write_bytes`, `write_start`, `write_flush` | no overrun; every chunk is written once; chunks are greedily packed |
| Read buffer and row reader (`util/read.h`, `util/load.h`) | `buffers`, `chunk_size`, `offset` per file, result of the last read | `read_bytes`, `read_bytes_assert`, `load_next` | the "not possible" assertions are; rows come out as they went in |
| Read ahead (`util/read_ahead.h`) | a second buffer and size per file, `has_nexted` | `swap`, `read_goto_next_chunk`, `read_goto_last_chunk` | chunks fit the buffer they are read into |
| Chunk tools (`bdropuntil`, `btakeuntil`, `bsplit`) | flags of a skip, files of a split | one loop each | skipping by chunks selects the same rows as looking at each |
| Pipelines (`_bcopy`, `bhead`, SIGPIPE in `util/util.h`) | pipes, exit statuses | read, write, early exit, `_sigpipe_handler` | the output is the right output, or some status says it is not; all exit |
| Merge (`bmerge`, `btopn`, `vendor/heap.h`) | a heap of raw rows | `heap_insert`, `heap_delete`, `heap_truncate` | the output is the sorted union, the n best rows |
| Sort (`bsort`) | all rows in memory | load, sort, dump | a sorted permutation |
| csv (`util/csv.h`, `util/write_simple.h`, `bsv`, `csv`) | a rolling buffer, flags between calls; a text buffer | `CSV_READ_LINE`, `write_bytes`, `write_flush` | every line once, wherever the buffers end; `bsv \| csv` gives a file back |
| Group tools (`bdedupe*`, `bcounteach*`, `bsumeach*`, `util/map.h`) | the current group, or a map of them | one loop each; `MAP_SET_INDEX`, `MAP_GROW` | every group has its row, and its own value |
| Column tools (`bcut`, `bcombine`, `bschema`) | index lists, a schema | one loop each | the columns asked for; what is converted can be converted back |
| Zip, unzip, partition (`bzip`, `bunzip`, `bpartition`) | one buffer per file, the files of earlier runs | one loop each | zip inverts unzip and never mixes rows; a partition loses no row |
| Counters and selections (`bcountrows`, `bsum`, `btake`, `bcat`) | a count, a file and a line | one loop each | the rows asked for, and no others |
| Simple input, queue (`util/read_simple.h`, `util/queue.h`) | a rolling buffer; a list | `read_bytes`, queue operations | not modelled |
| Vendored algorithms (LZ4, xxHash, sort, ddsketch) and generators | | | not modelled |

How they interact: every program reads chunks with the read buffer and writes
chunks with the write buffer; programs meet only at the file or pipe that holds
the chunks. What a reader assumes of a stream (rows do not cross chunks, chunks
are packed) is what every writer must establish; nothing in a chunk lets the
reader check it. The hard behaviours are therefore about what is *between* two
pieces of code: boundaries of chunks and buffers; a program that dies in the
middle of a chunk or between two; an early exit downstream that reaches the
programs upstream as SIGPIPE; pipes smaller than a chunk; a state machine that
goes back in its input. `PROJECT.json` lists them, each at its line.

## The modules

| Module | Models | State and actions |
|---|---|---|
| `BsvFormat` | sizes of rows, chunks, packed files | constants and definitions only |
| `BsvWrite` | `util/write.h`, `util/dump.h` | operators on one `writebuf_t` |
| `BsvRead` | `util/read.h`, `util/load.h` | operators on one `readbuf_t`; `LoadNext` is the whole of `load_next()` |
| `RowChannel` | nothing in the code: what a stream promises | an abstract first-in first-out channel of rows |
| `BsvStream` | one writer and one reader | `DumpRow`, `DumpFatal`, `DumpFlush`, `Kill`, `Load` |
| `BsvReadAhead` | `util/read_ahead.h` | operators on a `readbuf_t` and a `readaheadbuf_t`, with the bytes allocated for each buffer |
| `BsvChunkTools` | `bdropuntil`, `btakeuntil`, `bsplit` | an action for each way through a main loop; each starts with `load_next()` |
| `BsvHeap` | `vendor/heap.h` | operators on the sequence of the nodes |
| `BsvRawRow` | `util/row.h`, `dump_raw` | a raw row as an index into a buffer; `DumpRaw` copies what the index points to at that time |
| `LeastHead` | nothing in the code: what merging promises | queues, and a step that moves a least head to the output |
| `BsvMerge` | `bmerge` | `Seed`, `MergeRow` (a round of the loop: dump, delete, load, insert), `Finish` |
| `BsvTopN` | `btopn`, `heap_truncate` | `InsertRow`, `AllLoaded`, `DumpRow` |
| `BsvSort` | `bsort` with `READ_GROWING` | `Load`, `Sort` (the vendored timsort by its contract), `WriteRow` |
| `BsvCsv` | `util/csv.h` | an action for each way through an iteration of `CSV_READ_LINE`, over the variables of `CSV_INIT` |
| `BsvCsvOut` | `bsv` then `csv`, `util/write_simple.h` | `BsvCsv` with the actions of `csv`: `PrintRow`, `PrintEnd` |
| `BsvMap` | `util/map.h` | operators on a record of the variables of `MAP_INIT` |
| `BsvColumns` | what `bcut`, `bcombine` and `bschema` do to a row | operators on rows; numbers of a given width, with their text |
| `BsvFilters` | every program that reads rows one by one and writes a row for some, or for a group | an action for each program's round of the loop, and for each end |
| `BsvFiles` | `bunzip` followed by `bzip` or `bcat`; runs of `bpartition` on the same files | a step for each `dump()`, `load_next()` and flush of one file; `Kill`, and `KillWriting`, which leaves a chunk short |
| `BsvPipeline` | N programs and the pipes between them | the pieces of `read_bytes()` and `write_flush()` as separate actions, `SigPipe`, `Kill`, `WriteFails` |
| `BsvRowProofs` | | lemmas about definitions by steps and from them about `BsvHeap`, about rows, chunks and the two buffers |
| `BsvStreamProofs`, `BsvPipelineProofs`, `BsvChunkToolsProofs`, `BsvSortProofs`, `BsvTopNProofs`, `BsvMergeProofs`, `BsvFilesProofs` | | the theorems about these specifications |
| `MCBsvStream`, `MCBsvChunkTools`, `MCBsvAppended`, `MCBsvPipeline`, `MCBsvMerge`, `MCBsvSort`, `MCBsvCsv`, `MCBsvFiles`, `MCBsvFilters` | | instances for TLC |
| `MCBsvRowByRow`, `MCFilterInputs` | | one instance for the two specifications that leave buffers to `BsvStream`, `BsvTopN` and `BsvFilters`: a behaviour is one of a single program; the inputs of the latter |

*Data.* A byte is a cell `[row, byte]`: which byte of the encoding of which row
of the input it is. A row is its `max`, the bytes of its columns and the size
of the widest one, because these are all that `dump()` and `load_next()` branch
on. So a reader that takes the wrong bytes for a row is seen to (`WholeRow`),
without the values of any byte. A chunk is the sequence of its cells, a file
the sequence of its chunks: the four bytes of the chunk size are the `Len` of
it. `bmerge` and `bsort` keep pointers into buffers: there a pointer is an index, and
what it shows is what the buffer holds when it is followed, so that a stale
pointer is seen to. The first column is an integer key, by which rows are
compared; the types of `compare()` are total orders, but for NaN, which is left
out. `BsvCsv` works on characters, each with its place in the file.
`BsvMap`, `BsvColumns` and `BsvFilters` work on the values of columns, as
sequences of bytes: what matters there is zero bytes in a key, the bytes of a
number and the digits of a text. A byte of a *number* has `BYTE` values, so that
the limits of every width are within reach. `BsvFiles` is again on cells, with a
table of one column for each file.
`BsvPipeline` drops the bytes and keeps the pieces: there a row is one
piece, and the size of a chunk another.

*Definitions named "Mutant"* in the comments are wrong on purpose: each is a
plausible bug, placed before the definition it would replace, and a property of
the module fails with it. No specification uses them.

## What is checked

| Run | Question | Bounds, and why they are enough |
|---|---|---|
| `stream` | Does what is written arrive, whatever the sizes of the rows, wherever the writer dies? | Buffers of 20 bytes; rows of 5, 8 and exactly 20 bytes, in every sequence of up to five; and a row of each kind that `dump()` refuses after up to three others. Up to five chunks, chunks filled to the byte, alone and by four rows, and every place of a death are among these. |
| `chunk_tools` | Do the tools that skip by chunks select the right rows, in chunks that fit? | Buffers of 12 bytes; every sorted sequence of up to four rows of 5, 7 and 12 bytes with the cut anywhere; one or two chunks per file; the uninitialized size 0 or 7. Four rows make up to four chunks: the last, the one gone back to, one read into the reallocated buffer. |
| `appended` | Does that still hold for a file that two writers appended to? | As above with three rows: it does not (see Findings). |
| `pipeline` | What may the output and the statuses of a pipeline be when programs leave early or die? | Three programs, so that one has both neighbours; chunks of two rows and pipes of two pieces, so that no chunk fits a pipe; up to four rows, so that there is a full chunk, a short one and one at the edge; every assignment of limits 1, 3 and none; any number of deaths. |
| `merge` | Does `bmerge` merge, and never follow a stale pointer? | Buffers of 12 bytes, two small rows or one large one; two files of up to three and two rows of either size, three files of up to two, five of one, all of them sorted or not, with and without `-r`. Five files make a heap of three levels, three rows a file of two or three chunks. |
| `sort` | Does `bsort` write every row, in order, from memory that is still valid? | Every input of up to four rows of two sizes, in up to four chunks. |
| `csv` | Does `CSV_READ_LINE` return the lines of the file, and `csv` the file? | Buffers of four characters, three columns; every file of up to eight characters, or five with null bytes. A file is twice the buffer, so each of its characters, newlines and ends falls on each side of a read and of a write. |
| `row_by_row` | Do the programs modelled without buffers group, count, sum, select and convert rows rightly, and does `btopn` keep the right ones? | `btopn`: every input of up to seven rows with three keys, N from 0 to 3, a factor of 2 for the code's 128: the heap is cut back up to six times. Groups: every input of up to five rows with five first columns (empty, with zero bytes at each place), values that tell every subset of rows from every other; a map of two slots, so that it grows twice, with no collision, one cluster or two, and a key buffer of four bytes. `bschema`: every conversion of types of one and two bytes, signed or not, and texts next to every limit of them; rows with too few and too many columns; two converted columns with another between them, so that scratch is shared; inputs of two rows, of which the second finds what the first left in scratch. |
| `files` | Which rows come out of files that several programs or runs wrote, when these were killed? | Buffers of 12 bytes; tables of two columns and up to four rows, or three and two, each value small or as large as the buffer allows, a last row of the wrong width; `bpartition` into up to three files, in one or two runs, of up to three rows. Columns get up to four chunks, and different ones. |
| `empty_keys`, `combine`, `schema_filter` | Do the programs of `BsvFilters` do what their descriptions say? | As `row_by_row`: they do not (see Findings). |

`stream`: `ReaderNeverDies` (the assertions at `util/read.h:66` and `:78` that
the code calls not possible), `InOrder`, `NothingWrittenIsLost`, `FilePacked`,
the refinement `ImplementsChannel` (the stream implements `RowChannel`, with the
rows a dead writer had buffered leaving the channel when it dies) and
`ReaderStops`.

`chunk_tools`: `ChunkFitsBuffer`, `NeverDies`, `DropsUntil` and `TakesUntil`
(both at every step: nothing wrong is ever written, and at the end everything
is), `StaysPacked` (so that tools may follow one another), `Splits`,
`Terminates`.

`pipeline`: `OutputIsPrefix` at every moment; `StatusSound` (`set -o pipefail`
is sound although SIGPIPE exits with 0); `ShortOnlyAfterDeath` (no early exit
looks like a truncated file); `OutputIsWhole`; `AllExit`. The code does *not*
promise that the last program's status alone is enough: a program killed between
two chunks looks to the next like one that finished.

`merge`: `HeapShowsHeads` (each raw row in the heap shows, whole, the first row
of its file that was not written, and no file is missing), `WritesWholeRows`,
`MergesSorted` (of sorted files), and the refinement `TakesLeastHeads`: sorted or
not, `bmerge` implements `LeastHead`, and ends.

`row_by_row`, of `btopn`: `DropsOnlyTheWorst` (a row is freed only when N others
are as good, and the heap stays small) and `WritesTheBest`.

`sort`: `ArrayStaysValid`, `SortsEverything`. `csv`: `LinesInOrder` (against a definition of the lines of a file that knows no
buffer), `GivesUpRightly` (the two fatal errors come at the first line that is
too long or has too many columns, and at no other), `ReadsToTheEnd`, and
`RoundTrip`: what `bsv | csv` writes is the file, without its empty lines.

`row_by_row`, of the other programs: `MapFindsKeys` (each key that came in has
one slot, where probing finds it, with its own value, through every growth), `HashedGroups` and
`StreamedGroups` (the outputs, against one definition of a group's value; both
say exactly which groups are missing and when a program exits),
`SchemaConvertsAlone` (`bschema` keeps the good rows, in order, and makes of each
column what it makes of it alone: nothing of the other columns or of earlier
rows, which share a scratch buffer with it, shows) and `ConvertsBack`.

`files`: `ZipsWholeRows` (whatever became of `bunzip`), `ZipInvertsUnzip` (`bzip`
takes files for a whole table only if they are, or were cut at the same row, and
fails for no other reason), `CatsHeads`, and `PartitionKeepsRows`, which also
says what it does not promise: a run that was killed in the middle of a chunk
spoils that file for the runs after it, which append behind the short chunk.

Deadlock is checked in all runs; `Terminated` is the step of a system whose
programs have all exited.

### Fairness

A program that can take a step takes one (`WF` on the steps of each program):
the operating system schedules runnable processes. A reader waits in `read(2)`
while its input is empty and the writer lives, a writer in `write(2)` while the
pipe is full and the reader lives: these are guards, and weak fairness suffices
because nothing but the waiting program's own step makes its guard false again.
Nobody is obliged to kill a program or to fill a disk. `bmerge`, `bsort` and the
csv parser are alone in their runs and read files, so `WF` on their steps says
only that they run on.

### Findings

`appended`: `read_goto_last_chunk()` reallocates the read buffer to the size of
the two chunks it joins (`util/read_ahead.h:48`), which may be less than
`BUFFER_SIZE`; later chunks are still compared with `BUFFER_SIZE`
(`util/read.h:54`). On a greedily packed stream the two chunks together exceed
`BUFFER_SIZE` and the comparison is right (`chunk_tools`); every single program
writes such streams (`FilePacked`, `StaysPacked`). A file that two programs
appended to is not one.

`empty_keys`: `bdedupe` compares the first row with a zeroed buffer
(`src/bdedupe.c:27`), and drops it if its first column is empty; `bcounteach` and
`bsumeach` write a group only if `size > 0` (line 11 of each), and drop every
group with an empty first column. The descriptions know no such exception, and
the hashed programs make none. `StreamedGroups` shows that no other group is
lost. Separately from this, `strcmp()` takes binary keys for equal that differ
after a zero byte (also in `StreamedGroups`).

`combine`: `bcombine` takes the size of each column it combines from
`row.sizes[size]` (`src/bcombine.c:54` to `56`), the position in its buffer, and
not `row.sizes[index]`. Only when the sizes agree is the result right. (The
example at line 7 shows `b:a` where columns 3 and 2 of `a,b,c` make `c:b`.)

`schema_filter`: `--filter` is to "remove bad rows instead of erroring"
(`src/bschema.c:9`, `readme.md:515`). It does so for a wrong number of columns or
a wrong size (`FILTERING_ASSERT`), but `A_TO_L` and `A_TO_UL` check numbers with
`ASSERT` (lines 77 to 93) and exit, even in a row that an earlier column has
already marked as filtered; the good rows behind it are not written.
`FilterRemovesBadRows` states what the description says. `test/bschema_test.py`
tries `--filter` only on wrong numbers of columns and wrong sizes. With and
without `--filter`, the rows written until then are right, and no good row makes
`bschema` exit (`SchemaConvertsAlone`).

Smaller divergences, met while modelling and not runs of their own:
`dump()` refuses a column of exactly 2**16 - 1 bytes, saying that it has more
(`util/dump.h:6`; the tests try one byte less and one more). `bschema`
refuses the limits of 64-bit types that it writes itself (`ConvertsBack`). `MAP_GROW_KEY_BUF`
(`util/map.h:78`) reallocates a pointer that is never initialized, when more than
512 KiB of keys have come in (`KeyBufferLost`). `bzip` reads `row.max` before any
row was loaded when its first file is empty (`MaxUnset`). `bcat --head N` loads a
row more than it prints, and so fails for a chunk that is short right behind the
head (`CatsHeads`).

## What is proved

Each proof module extends one specification, states its inductive invariant
`IInv` as `THEOREM Invariance == Spec => []IInv`, and draws from it what the runs
check on small instances. The assumptions are those of the modules and nothing
else: `FormatAssumption` (`BUFFER_SIZE` is positive, `MAX_COLUMNS` a natural
number, the data of a row at least one trailing zero per column and its widest
column), and for each module one on its inputs: `InputsAssumption`, `ChunkToolsAssumption`, `SortInputsAssumption`,
`MergeInputsAssumption`, `TopNAssumption` and `FilesAssumption` (a file that the chunk tools,
`bsort` or `bmerge` read is one of chunks of whole rows in their order, which is
what `dump()` writes; for the chunk tools the rows are sorted; each row that
`bmerge` merges is in one of its files, of which there are as many as the 16
bits of `meta` can number; keys are numbers, and for `btopn` N is a natural one
and the factor a positive one; a row on the input of `bunzip` or `bpartition`
fits a buffer, because it was read from one, and so does each of its columns
alone; the columns selected are among those there are, at least one), `PipelineAssumption` (sizes and limits are
positive).

| Module | Theorem | Property | |
|---|---|---|---|
| `BsvStreamProofs` | `TypeCorrectness` | `TypeOK` | no write leaves the write buffer, no read the chunk |
| | `ReaderSurvives` | `ReaderNeverDies` | |
| | `OrderKept` | `InOrder` | |
| | `WrittenRowsArrive` | `NothingWrittenIsLost` | |
| | `WriterPacks` | `FilePacked` | |
| | `StreamIsChannel` | `ImplementsChannel` | the refinement: initial states, and every step a step of `RowChannel` or none |
| `BsvPipelineProofs` | `OutputInOrder` | `OutputIsPrefix` | for any number of programs, any chunks and pipes |
| | `PipefailSound` | `StatusSound` | |
| | `ShortMeansDeath` | `ShortOnlyAfterDeath` | |
| | `WholeChunksLeft` | `OutputIsWhole` | |
| `BsvChunkToolsProofs` | `ToolsSurvive` | `NeverDies` | |
| | `FitsWhenPacked` | `ChunkFitsBuffer` | if the input is greedily packed; the run `appended` is why |
| | `DropsExactly`, `TakesExactly` | `DropsUntil`, `TakesUntil` | |
| | `PackedStaysPacked` | `StaysPacked` | |
| | `SplitsInput` | `Splits` | |
| `BsvSortProofs` | `PointersStayValid` | `ArrayStaysValid` | |
| | `Sorted` | | no fatal error, and `SortedOutput` when it is done |
| `BsvTopNProofs` | `FreesOnlyTheWorst` | `DropsOnlyTheWorst` | for any rows, any N and any factor |
| | `TakesTheBest` | `WritesTheBest` | |
| `BsvMergeProofs` | `HeadsShown` | `HeapShowsHeads` | for any number of files that `meta` can number, sorted or not |
| | `WholeRowsWritten` | `WritesWholeRows` | |
| | `Merges` | `MergesSorted` | of sorted files |
| | `TakesHeads` | | `Heads!Spec`: the refinement of `LeastHead` that `TakesLeastHeads` states, but for its fairness |
| `BsvFilesProofs` | `ZipsWhole` | `ZipsWholeRows` | for any number of files, any table and selection, and a kill at any step |
| | `ZipInverts` | `ZipInvertsUnzip` | |
| | `CatsFirstRows` | `CatsHeads` | |
| | `PartitionKeeps` | `PartitionKeepsRows` | for any number of buckets, runs and kills |

`BsvRowProofs` holds the lemmas that the others share: what
appending a row does to a chunk and what a cell at a position says of the cells
around it; that `WriteStart`, `Dump` and `WriteFlush` preserve `WriterState`;
that the three reads of `load_next()` stay within the row at the offset, or fetch
the next chunk and then do; which row a raw row shows, and what dumping it
writes.

*The stream.* None of its properties is inductive alone: that a read inside a
chunk returns a row depends on what the chunk holds, and that on every earlier
`write_start()`. `IInv` adds: every chunk of the file and the write buffer hold
whole rows, numbered consecutively, and continue each other (`WriterState`,
with the packing, which speaks also of the chunk the buffer will become); and
the reader either has used up its chunk, and has received up to the last row of
it, or its offset is at the first byte of the row after the last one received
(`UnreadInv`). For the refinement, a step of the reader takes the head of the
channel because the row received is the next one dumped, and a death or a lost
chunk removes from the channel exactly what was not flushed.

*The pipeline.* The pieces that a program has in its pipe and in its hands are
the beginning of the pieces of the file it would write from the rows it has
read; a reader's piece is a header, a row of the chunk announced, or the end,
and a reader ends a chunk where that file does. So each stage has read a prefix
of what the one before it sent, and sent a prefix of what it read, up to its
limit. A status of 0 has one of few reasons (the end of the input, the limit, a
reader that is gone), and from the last program backwards each excludes that
rows are missing; a chunk found short has lost its writer.

*The chunk tools.* While `bdropuntil` skips, the invariant is that it stands
between chunks, only first rows were looked at and each was before the value,
and the chunks passed are those of the file (`SkipInv`); after it went back, or
in `btakeuntil` after its last copied chunk, row by row, the row upcoming is
`n` and what was written is exactly the wanted part of the rows before `n`
(`ReadInv`). `FitsInv` bounds the memory of both buffers by what packing
guarantees, `SplitInv` cuts the input into the files closed and the one open.

*The sort.* What the buffers in memory hold is what the file holds, chunk by
chunk, so a raw row shows the same row for ever (`MemoryInv`, `ValidInv`). While
rows are loaded the array shows rows 1 to n in order and row n + 1 is upcoming
(`LoadInv`); sorting permutes it, and a permutation of 1..n reaches every row
(`OrderInv`, by the finiteness of 1..n); the rows dumped are the first ones of
the array (`WrittenInv`).

*The heap.* `HeapInsert` and `HeapHeapify` follow a path through the heap, which
the model writes as a recursive function. A path is seen as a walk: `go` gives
the next node, `stop` the nodes where it ends (`Walks`). That the function exists
is shown by taking, for each node, the intersection of the sets that hold it and
are closed under `go` (`WalkExists`); that it ends is shown by a least
counterexample, since going up falls and going down rises (`WalkEnds`). On the
path every node takes the value of the next one, so that the order can be wrong
only at its two ends, where the comparisons of the code exclude it; and what the
heap holds is the same set and one value more (`Inserted`), or the same set but
the root (`Deleted`), each once. The root is the least by a least counterexample
(`RootIsLeast`).

*The merge.* Of each file a first part was written, in the order of the file. A
raw row in the heap shows the row after that part, the buffer it points into is
the chunk last read from that file, and the row upcoming there is the one after
(`HeadsInv`); a file that was seeded and is not in the heap was written to its
end (`FilesInv`). No two raw rows are of the same file, so `load_next()` on the
file of the root replaces a buffer that no raw row left in the heap points into:
what these show, hence their ranks and the order of the heap, stays (`SameOrder`,
`Loads`). That needs the order of the code, which dumps the root and deletes it
*before* it loads; the mutant `MergeRowLate` dumps it after that. What is written is the least of the rows shown; if the
files are sorted the row that takes its place is not less, so nothing in the heap
is ever less than what was written (`OutInv`). At the end the heap is empty, so
every file was written to its end, and each row is in some file. For the
refinement, the queue of a file is what is left of it; that the row dumped was the
first of its queue, that the queue loses just that one, and that the head of every
other queue that is not empty is shown by the heap makes the step a `Take`.

*The top n.* `heap_truncate()` takes the root n times, so what it takes first is
not worse than what it takes later or leaves, and it puts back these n rows: each
row it frees has n rows in the heap that are as good. A row freed earlier had n
such rows among those kept then, and those of them that are freed now have n in
the new heap, so it still has (`DropsOnlyTheWorst`, which is inductive with the
order of the heap). A row left out when a worse one is written would be
freed with n rows as good or better; but all of these, being better than a row
that is written, were written before it, and there are fewer than n
(`WrittenIsBest`).

*The programs on several files.* What is in the files says nothing of the rows
that come out of them without what is known of how they were written: `IInv` has
a part for each program that writes files and one for each that reads them.
While `bunzip` runs, each file and its buffer are what a writer of the first
rows of that column has made, one row more for the columns before `j`
(`WritingInv`, with the `WriterState` of the stream); once it has ended, in
whatever way, each file holds the first `RowCount(f)` rows of its column, and
all of them if the run went through (`WrittenInv`). So `bzip`, which loads one row of each
file a round, has before each round read as many rows of every file as it wrote
(`ZipInv` with `ReadUpTo`), *because no file is selected twice*: `ZipDupe` comes
first, and the mutant `DupeAllowed` breaks it. Each column it shows is then still
in the buffer when the row is dumped (`AfterLoads` follows the loop over the
selection). It stops where the first of the files ends, so it takes the files
for a whole table only if all end there. `bcat` has printed the whole text of
the files before `j`, and the lines before `at` of that one, and none of those
files had a short chunk that it came to (`CatInv`). For `bpartition`
(`PartitionInv`), a file has rows of its bucket, strictly rising and none beyond
those read (`InOrder`); during a run every row read in it has been dumped
(`IsDumped`), which a kill may undo, and which becomes permanent (`CanBeRead`)
when the last file was flushed. That step needs that no file was spoilt by the
run that ends, and that the rows read by earlier runs can be read, which later
appends do not change: what can be read of a file only grows (`ReadsMore`). A
file that is deleted is empty, so no row is lost with it. With one bucket
the chunks of the input are copied as they are; they are those of a writer, so
the first of them has rows numbered from `at` on (`ChunkInOrder`). TLC checks
`IInv` too, with the constants of the run `files`: it is an invariant of
`MCBsvFiles` that can be added to its configuration.

Induction over data, which no rule of the prover instantiates, is replaced by
the least counterexample: a set of natural numbers that is not empty has a least
element (`LeastElement`), so what holds at 0 and at each number after one where
it holds has no least exception (`UpFromZero`). That a function defined by steps
along a sequence exists is shown in the same way (`StepByStep`), which is what
makes `RowsOut` a definition that can be reasoned about.

Only model-checked: the liveness properties `ReaderStops`, `AllExit`,
`Terminates`, `ReadsToTheEnd`, the first half of `SortsEverything` (it ends) and the
fairness of `LeastHead` in `TakesLeastHeads` (`bmerge` goes on while a row is
left), because liveness under fairness is out of the prover's reach; and the
modules `BsvCsv`, `BsvCsvOut` and `BsvFilters`: the definitions their properties
compare the programs with (the lines of a text, the value of a group, the text of
a number) are recursive over data, and no induction over them was attempted.

## What is not modelled

- LZ4 compression of chunks, hashing, the vendored sort and the quantile
  sketches: algorithms of vendored libraries; the sketches compute with floating
  point. Hashes are arbitrary functions, the sort any sorted permutation.
- Floating point numbers, in `bsum`, `bsumeach*`, `bschema` and as keys. A signed
  sum that overflows, which C leaves undefined, wraps around as in the builds.
- The parsing of command lines and of file names; arguments that the programs do
  not check and that make them fail at once: `bsplit` of 0 chunks, `btopn` of an
  N near the limit of an `i32`, `bzip` of no files, `bschema` of no columns.
- `bmerge` of more than 65536 files, whose numbers the 16 bits of `meta` in
  `raw_row_t` cannot hold (`MAX_FILES`).
- Spaces and plus signs before the digits of a text, which `strtol()` skips.
- `malloc` failure, read errors, and the assertions on scratch buffers of
  `BUFFER_SIZE` bytes (5 MiB) that one row would have to overflow: `dump()` would
  refuse so long a column of `bcombine`, and in `bschema` at most 65535 columns
  become at most 23 bytes each.
  In `BsvCsvOut` `bsv` may die at any row instead, so the rows `dump()` refuses
  are among its cases.
- In `bmerge`, `btopn` and `bsort`, a first column whose size is not that of the
  TYPE argument: `ASSERT_SIZE` aborts. `BsvFilters` has that exit.
- The bytes of a short chunk. A reader that meets its end exits
  (`util/read.h:62`); what a reader makes of chunks appended behind it is not
  followed, these rows count as lost.
- `util/read_simple.h`, which only `xxh3` uses, and `util/queue.h`, which only the
  test helper `_queue` uses; `MAP_UNSET_INDEX` and `heapify()`, which nothing uses;
  `_copy`, `_bcopyraw`, `_csv`, `_gen_bsv` and `_gen_csv`.

## Plan

1. Done: every program over rows but the sketches, as listed above, and the
   proofs for the stream, pipelines, the chunk tools, the sort, the heap, the
   merge, the top n and the programs on several files.
2. Proofs left, in this order: `MapFindsKeys`, for any hash (that probing ends at
   the slot of a key, by walks as for the heap, and that growth keeps this);
   `LinesInOrder`, and `RoundTrip` from it.
