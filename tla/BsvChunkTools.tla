--------------------------- MODULE BsvChunkTools ----------------------------
(***************************************************************************)
(* The programs that read chunk by chunk: bdropuntil and btakeuntil, which *)
(* look at the first row of each chunk of a sorted stream and go back one  *)
(* chunk when they have gone too far, and bsplit, which moves whole chunks *)
(* to numbered files.  The main loop of a program is an action for each    *)
(* way through its body; every way starts with load_next().                *)
(*                                                                         *)
(* Rows carry a field "before": whether their first column compares less   *)
(* than the value given on the command line.                               *)
(***************************************************************************)
EXTENDS BsvWrite, BsvReadAhead, FiniteSets

CONSTANTS
    Streams,        \* what may be on stdin: records [rows, file]
    PerFile,        \* the values of bsplit's chunks_per_file
    Garbage         \* what the uninitialized last_chunk_size may be

\* A stream is a file of chunks that hold its rows, sorted, in their order.
IsStream(s) ==
    /\ WholeFile(s.rows, s.file)
    /\ \A i \in 1..Len(s.rows) - 1 : s.rows[i + 1].before => s.rows[i].before

ASSUME ChunkToolsAssumption ==
    /\ \A r \in Row : r.before \in BOOLEAN /\ ~DumpDies(r)
    /\ \A s \in Streams : IsStream(s)
    /\ PerFile \subseteq Nat \ {0}
    /\ Garbage \subseteq Int

VARIABLES
    tool,           \* the program that runs
    stdin,          \* its input
    ra,             \* its read and read ahead buffers
    wbuf,           \* its write buffer, and the chunks it wrote to stdout
    matched,        \* bdropuntil has found a row that is not before the value
    done_skipping,  \* bdropuntil, btakeuntil: no more skipping by chunks
    files,          \* bsplit: the files, each a sequence of chunks
    is_open,        \* bsplit: f # NULL
    moved,          \* bsplit: j, the number of chunks moved
    per_file,       \* bsplit: chunks_per_file
    pc              \* "run", or how the program exited: "done", "fatal"

skipVars == <<matched, done_skipping>>
splitVars == <<files, is_open, moved>>
args == <<tool, stdin, per_file>>
vars == <<args, ra, wbuf, skipVars, splitVars, pc>>

Init ==
    /\ tool \in {"bdropuntil", "btakeuntil", "bsplit"}
    /\ stdin \in Streams
    /\ per_file \in IF tool = "bsplit" THEN PerFile ELSE {1}
    /\ \E g \in Garbage : ra = RabufInit(g)
    /\ wbuf = WbufInit
    /\ matched = FALSE /\ done_skipping = FALSE
    /\ files = << >> /\ is_open = FALSE /\ moved = 0
    /\ pc = "run"

rows == stdin.rows

\* What load_next() returns, and the buffers after it.
Next1 == LoadNext(ra.rb, rows, stdin.file)
Loading(l) == [ra EXCEPT !.rb = l.rbuf]

\* How a program that leaves its loop exits: an assertion of load_next() failed,
\* or it has nothing more to read.
Outcome(l) == IF l.outcome = "fatal" THEN "fatal" ELSE "done"

-----------------------------------------------------------------------------
(* bdropuntil and btakeuntil *)

\* The loop ends: dump_flush() and exit, unless load_next() has exited already.
Finish(l) ==
    /\ ra' = Loading(l)
    /\ wbuf' = IF Outcome(l) = "fatal" THEN wbuf ELSE WriteFlush(wbuf)
    /\ pc' = Outcome(l)
    /\ UNCHANGED <<args, skipVars, splitVars>>

\* Mutant: the last chunk is not looked at.
GoBackAtEndGivesUp(l) == l.outcome = "stop" /\ ~done_skipping /\ Finish(l)

\* The end of the input was reached by skipping: go back to the last chunk,
\* which may have rows to look at.
GoBackAtEnd(l) ==
    /\ l.outcome = "stop" /\ ~done_skipping
    /\ ra' = GotoLastChunk(Loading(l))
    /\ done_skipping' = TRUE
    /\ UNCHANGED <<args, wbuf, matched, splitVars, pc>>

\* Mutant: done_skipping is not set.
GoBackForEver(l) ==
    /\ l.outcome = "row" /\ ~done_skipping /\ ~rows[l.row].before
    /\ ra' = GotoLastChunk(Loading(l))
    /\ UNCHANGED <<args, wbuf, skipVars, splitVars, pc>>

\* The first row of a chunk is not before the value: gone too far.
GoBack(l) ==
    /\ l.outcome = "row" /\ ~done_skipping /\ ~rows[l.row].before
    /\ ra' = GotoLastChunk(Loading(l))
    /\ done_skipping' = TRUE
    /\ UNCHANGED <<args, wbuf, matched, splitVars, pc>>

FinishAtEnd(l) ==
    /\ l.outcome # "row" /\ (l.outcome = "stop" => done_skipping)
    /\ Finish(l)

\* Mutant: dump_flush() after every row.
DumpLoadedFlushed(l) ==
    /\ ra' = Loading(l)
    /\ wbuf' = WriteFlush(Dump(wbuf, l.row, rows[l.row]))
    /\ UNCHANGED <<args, done_skipping, splitVars, pc>>

DumpLoaded(l) ==
    /\ ra' = Loading(l)
    /\ wbuf' = Dump(wbuf, l.row, rows[l.row])
    /\ UNCHANGED <<args, done_skipping, splitVars, pc>>

\* bdropuntil drops what it skips.
DropSkip(l) ==
    /\ l.outcome = "row" /\ ~matched /\ ~done_skipping /\ rows[l.row].before
    /\ ra' = GotoNextChunk(Loading(l))
    /\ UNCHANGED <<args, wbuf, skipVars, splitVars, pc>>

DropRow(l) ==
    /\ l.outcome = "row" /\ ~matched /\ done_skipping /\ rows[l.row].before
    /\ ra' = Loading(l)
    /\ UNCHANGED <<args, wbuf, skipVars, splitVars, pc>>

FirstMatch(l) ==
    /\ l.outcome = "row" /\ ~matched /\ done_skipping /\ ~rows[l.row].before
    /\ DumpLoaded(l)
    /\ matched' = TRUE

DumpMatched(l) ==
    /\ l.outcome = "row" /\ matched
    /\ DumpLoaded(l)
    /\ UNCHANGED matched

DropUntil ==
    /\ tool = "bdropuntil" /\ pc = "run"
    /\ \E l \in {Next1} :
         \/ GoBackAtEnd(l) \/ FinishAtEnd(l)
         \/ DropSkip(l) \/ DropRow(l) \/ FirstMatch(l) \/ DumpMatched(l)
         \/ ~matched /\ GoBack(l)

\* Mutant: the chunk just read is copied, not the one before it.
TakeChunkTooSoon(l) ==
    LET r == Loading(l) IN
    /\ l.outcome = "row" /\ ~done_skipping /\ rows[l.row].before
    /\ wbuf' = WriteFlush([wbuf EXCEPT !.buffer = SubSeq(r.rb.buffer, 1, r.rb.chunk_size)])
    /\ ra' = GotoNextChunk(r)
    /\ UNCHANGED <<args, skipVars, splitVars, pc>>

\* btakeuntil copies the last chunk to its write buffer as it is, and
\* flushes it, once it knows that the next chunk starts before the value.
TakeChunk(l) ==
    LET r == Loading(l) IN
    /\ l.outcome = "row" /\ ~done_skipping /\ rows[l.row].before
    /\ wbuf' = IF r.has_nexted
               THEN WriteFlush([wbuf EXCEPT !.buffer = SubSeq(r.last_buffer, 1, r.last_chunk_size)])
               ELSE wbuf
    /\ ra' = GotoNextChunk(r)
    /\ UNCHANGED <<args, skipVars, splitVars, pc>>

TakeRow(l) ==
    /\ l.outcome = "row" /\ done_skipping /\ rows[l.row].before
    /\ DumpLoaded(l)
    /\ UNCHANGED matched

FinishAtMatch(l) ==
    l.outcome = "row" /\ done_skipping /\ ~rows[l.row].before /\ Finish(l)

TakeUntil ==
    /\ tool = "btakeuntil" /\ pc = "run"
    /\ \E l \in {Next1} :
         \/ GoBackAtEnd(l) \/ GoBack(l) \/ FinishAtEnd(l)
         \/ TakeChunk(l) \/ TakeRow(l) \/ FinishAtMatch(l)

-----------------------------------------------------------------------------
(* bsplit *)

\* Mutant: j++ for ++j.
MoveChunkPostIncrement(l) ==
    LET r == Loading(l)
        chunk == SubSeq(r.rb.buffer, 1, r.rb.chunk_size)
    IN  /\ l.outcome = "row"
        /\ files' = IF is_open THEN [files EXCEPT ![Len(files)] = Append(@, chunk)]
                    ELSE Append(files, <<chunk>>)
        /\ ra' = GotoNextChunk(r)
        /\ moved' = moved + 1
        /\ is_open' = (moved % per_file # 0)
        /\ UNCHANGED <<args, wbuf, skipVars, pc>>

MoveChunk(l) ==
    LET r == Loading(l)
        chunk == SubSeq(r.rb.buffer, 1, r.rb.chunk_size)
    IN  /\ l.outcome = "row"
        /\ files' = IF is_open THEN [files EXCEPT ![Len(files)] = Append(@, chunk)]
                    ELSE Append(files, <<chunk>>)
        /\ ra' = GotoNextChunk(r)
        /\ moved' = moved + 1
        /\ is_open' = (moved' % per_file # 0)
        /\ UNCHANGED <<args, wbuf, skipVars, pc>>

CloseLast(l) ==
    /\ l.outcome # "row"
    /\ ra' = Loading(l)
    /\ is_open' = FALSE
    /\ pc' = Outcome(l)
    /\ UNCHANGED <<args, wbuf, skipVars, files, moved>>

Split ==
    /\ tool = "bsplit" /\ pc = "run"
    /\ \E l \in {Next1} : MoveChunk(l) \/ CloseLast(l)

Terminated == pc # "run" /\ UNCHANGED vars

Next == DropUntil \/ TakeUntil \/ Split \/ Terminated

Spec == Init /\ [][Next]_vars

\* A program keeps running: its input is there and its output is taken.
FairSpec == Spec /\ WF_vars(DropUntil \/ TakeUntil \/ Split)

-----------------------------------------------------------------------------
(***************************************************************************)
(* A chunk never has more bytes than are allocated for the buffer it is    *)
(* read into: what the assertion "bad chunk size" of util/read.h:54 is     *)
(* there to ensure.  It compares with BUFFER_SIZE, but going back resizes  *)
(* the buffer to the two chunks it joins (util/read_ahead.h:48), so that   *)
(* the property needs those to be larger than any chunk that follows.      *)
(***************************************************************************)
ChunkFitsBuffer ==
    /\ Len(ra.rb.buffer) <= ra.cap
    /\ Len(ra.last_buffer) <= ra.last_cap

(***************************************************************************)
(* No assertion of load_next() fails, although the two buffers and their   *)
(* sizes, one of them uninitialized, change places under it.               *)
(***************************************************************************)
NeverDies == pc # "fatal"

\* The file holds rows lo, lo + 1 and so on, up to hi at most.
HoldsUpTo(file, lo, hi) == FileRun(rows, file, lo) /\ FileEnd(file, lo) <= hi

\* It holds exactly the rows from lo to hi.
Holds(file, lo, hi) == FileRun(rows, file, lo) /\ FileEnd(file, lo) = hi

\* How many rows of the sorted input are before the value.
Cut == Cardinality({i \in 1..Len(rows) : rows[i].before})

(***************************************************************************)
(* Skipping by chunks is invisible: bdropuntil writes the rows that are    *)
(* not before the value, all of them and in order, wherever the first of   *)
(* them lies in its chunk; btakeuntil writes the others.  Neither has ever *)
(* written anything else on the way.                                       *)
(***************************************************************************)
DropsUntil ==
    tool = "bdropuntil" =>
        /\ HoldsUpTo(wbuf.file, Cut + 1, Len(rows))
        /\ pc = "done" => Holds(wbuf.file, Cut + 1, Len(rows))

TakesUntil ==
    tool = "btakeuntil" =>
        /\ HoldsUpTo(wbuf.file, 1, Cut)
        /\ pc = "done" => Holds(wbuf.file, 1, Cut)

(***************************************************************************)
(* What the programs write is greedily packed if what they read is, even   *)
(* where btakeuntil goes over from copying chunks to dumping rows, so that *)
(* they may be joined to one another without losing ChunkFitsBuffer.       *)
(***************************************************************************)
StaysPacked == Packed(rows, stdin.file) => Packed(rows, wbuf.file)

(***************************************************************************)
(* The files of bsplit are a cut of its input: end to end they are the     *)
(* chunks read so far, unchanged, and only the last one, while it is open  *)
(* or after the end, holds fewer than chunks_per_file of them.             *)
(***************************************************************************)
Splits ==
    /\ \A f \in 1..Len(files) :
          files[f] = SubSeq(stdin.file, (f - 1) * per_file + 1,
                            IF f = Len(files) THEN moved ELSE f * per_file)
    /\ IF files = << >> THEN moved = 0
       ELSE moved \in (Len(files) - 1) * per_file + 1 .. Len(files) * per_file
    /\ tool = "bsplit" /\ pc = "done" => moved = Len(stdin.file)

\* Going back never makes a program read the same rows for ever.
Terminates == <>(pc # "run")

-----------------------------------------------------------------------------
(***************************************************************************)
(* The inductive invariant behind the safety properties.                   *)
(***************************************************************************)
Typed ==
    /\ tool \in {"bdropuntil", "btakeuntil", "bsplit"} /\ stdin \in Streams
    /\ ra \in ReadAheadBuf /\ ~ra.rb.dead /\ ra.rb.next \in 0..Len(stdin.file)
    /\ wbuf \in WriteBuf /\ matched \in BOOLEAN /\ done_skipping \in BOOLEAN
    /\ files \in Seq(Seq(Seq(Cell))) /\ moved \in Nat /\ per_file \in Nat \ {0}
    /\ pc \in {"run", "done"}

\* Between two chunks: the one before is in last_buffer, and rb is used up.
BetweenChunks ==
    /\ ra.rb.offset = ra.rb.chunk_size /\ Len(ra.rb.buffer) <= BUFFER_SIZE
    /\ ra.cap = BUFFER_SIZE /\ ra.last_cap = BUFFER_SIZE
    /\ ra.has_nexted <=> ra.rb.next # 0
    /\ IF ra.rb.next = 0 THEN ra.last_buffer = << >>
       ELSE /\ ra.last_buffer = stdin.file[ra.rb.next]
            /\ ra.last_chunk_size = Len(ra.last_buffer)

\* A program that skips has met only first rows before the value; bdropuntil
\* has written nothing, and btakeuntil the chunks before the last one.
SkipInv ==
    pc = "run" /\ ~done_skipping =>
        /\ BetweenChunks /\ ~matched
        /\ tool # "bsplit" =>
              \A c \in 1..ra.rb.next : rows[FirstRow(stdin.file[c])].before
        /\ wbuf.buffer = << >>
        /\ wbuf.file = IF tool = "btakeuntil" THEN SubSeq(stdin.file, 1, ra.rb.next - 1)
                       ELSE << >>

\* What is written when the rows before row n have been looked at.
WrittenBefore(n) ==
    /\ tool = "bdropuntil" =>
          /\ matched <=> n > Cut + 1
          /\ WriterRun(rows, wbuf, Cut + 1, IF matched THEN n - 1 ELSE Cut)
    /\ tool = "btakeuntil" => n <= Cut + 1 /\ WriterRun(rows, wbuf, 1, n - 1)
    /\ Packed(rows, stdin.file) =>
          PacksSoFar(rows, wbuf) /\ (n <= Len(rows) => ReadyFor(rows, wbuf, n))

ReadInv ==
    pc = "run" /\ done_skipping =>
        /\ tool # "bsplit"
        /\ \E n \in 1..Len(rows) + 1 :
              Upcoming(rows, stdin.file, ra.rb, n) /\ WrittenBefore(n)

\* Where more chunks follow, the buffer is large enough for any of them.
FitsInv ==
    Packed(rows, stdin.file) =>
        /\ ChunkFitsBuffer
        /\ pc = "run" /\ done_skipping /\ ra.rb.next # Len(stdin.file) => ra.cap >= BUFFER_SIZE

SplitInv ==
    /\ Splits
    /\ IF tool = "bsplit" THEN pc = "run" => moved = ra.rb.next /\ is_open = (moved % per_file # 0)
       ELSE moved = 0

DoneInv == pc = "done" => DropsUntil /\ TakesUntil /\ StaysPacked

IInv == Typed /\ SkipInv /\ ReadInv /\ FitsInv /\ SplitInv /\ DoneInv
=============================================================================
