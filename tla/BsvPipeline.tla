---------------------------- MODULE BsvPipeline ----------------------------
(***************************************************************************)
(* A pipeline of N programs of the suite joined by pipes of bounded size:  *)
(*     bhead 3 < in | _bcopy | bhead 1 > out                               *)
(* BsvStream shows what one hop does when a chunk is written in one step.  *)
(* Here the two FWRITE()s of write_flush(), for the size of the chunk and  *)
(* for its body, and the reads of them in read_bytes() happen piece by     *)
(* piece, programs exit early or are killed in between, and a write to a   *)
(* pipe that nobody reads raises SIGPIPE.                                  *)
(*                                                                         *)
(* Rows have one size here: a buffer holds CHUNK_ROWS of them, and a row   *)
(* is what a pipe takes or gives in one step.  A chunk size is 4 bytes,    *)
(* which a pipe takes in one piece (external: write(2), PIPE_BUF).         *)
(***************************************************************************)
EXTENDS Naturals, Sequences

CONSTANTS
    N,              \* the number of programs
    CHUNK_ROWS,     \* BUFFER_SIZE, in rows
    PIPE_SIZE,      \* what a pipe holds, in rows and chunk sizes
    MaxRows,        \* the bound on the rows of the input
    Limits          \* the arguments of bhead; _bcopy is bhead NoLimit

NoLimit == MaxRows + 1

ASSUME PipelineAssumption ==
    /\ N \in Nat \ {0} /\ CHUNK_ROWS \in Nat \ {0} /\ PIPE_SIZE \in Nat \ {0}
    /\ MaxRows \in Nat /\ Limits \subseteq 0..NoLimit

Stage == 1..N

VARIABLES
    total,      \* the rows of the input are 1 to total
    limit,      \* of each program
    pipe,       \* pipe[i] joins program i and i + 1; 0 is the input, N the output
    need,       \* how much of the body of a chunk the program has yet to read
    chunk,      \* the rows of the chunk read that it has not looked at
    count,      \* how many rows it has dumped
    wbuf,       \* the rows it has dumped but not written
    pending,    \* what is left of the write it is in
    closing,    \* it has left its loop and is in dump_flush()
    status      \* "run", or how the program exited

args == <<total, limit>>
reader == <<need, chunk>>
writer == <<wbuf, pending, closing>>
vars == <<args, pipe, reader, count, writer, status>>

\* What goes through a pipe: the size of a chunk, and the rows of its body.
SizeOf(n) == <<"size", n>>
RowOf(r) == <<"row", r>>

\* write_flush() of a buffer: nothing if it is empty.
Encode(rows) ==
    IF rows = << >> THEN << >>
    ELSE <<SizeOf(Len(rows))>> \o [k \in 1..Len(rows) |-> RowOf(rows[k])]

(***************************************************************************)
(* The file that holds rows 1 to n: full chunks, and a last one that may   *)
(* be short.  Position p of it is in group (p - 1) \div (CHUNK_ROWS + 1).  *)
(***************************************************************************)
Chunks(n) == (n + CHUNK_ROWS - 1) \div CHUNK_ROWS

FileOf(n) ==
    LET full == CHUNK_ROWS + 1
        group(p) == (p - 1) \div full
        size(g) == IF (g + 1) * CHUNK_ROWS <= n THEN CHUNK_ROWS ELSE n - g * CHUNK_ROWS
    IN  [p \in 1..n + Chunks(n) |->
            IF (p - 1) % full = 0 THEN SizeOf(size(group(p)))
            ELSE RowOf(p - 1 - group(p))]

Init ==
    /\ total \in 0..MaxRows
    /\ limit \in [Stage -> Limits]
    /\ pipe = [i \in 0..N |-> IF i = 0 THEN FileOf(total) ELSE << >>]
    /\ need = [i \in Stage |-> 0]
    /\ chunk = [i \in Stage |-> << >>]
    /\ count = [i \in Stage |-> 0]
    /\ wbuf = [i \in Stage |-> << >>]
    /\ pending = [i \in Stage |-> << >>]
    /\ closing = [i \in Stage |-> FALSE]
    /\ status = [i \in Stage |-> "run"]

Running(i) == status[i] = "run"

\* In load_next(): neither in a write nor done.
Loading(i) == Running(i) /\ pending[i] = << >> /\ ~closing[i]

-----------------------------------------------------------------------------
(* Reading: read_bytes() *)

Available(i) == pipe[i - 1] # << >>
\* The pipe is empty and will remain so.
WriterGone(i) == ~Available(i) /\ (i > 1 => ~Running(i - 1))

Consume(i) == pipe' = [pipe EXCEPT ![i - 1] = Tail(@)]

ReadSize(i) ==
    /\ Loading(i) /\ need[i] = 0 /\ chunk[i] = << >> /\ Available(i)
    /\ need' = [need EXCEPT ![i] = Head(pipe[i - 1])[2]]
    /\ Consume(i)
    /\ UNCHANGED <<args, chunk, count, writer, status>>

ReadBody(i) ==
    /\ Loading(i) /\ need[i] > 0 /\ Available(i)
    /\ need' = [need EXCEPT ![i] = @ - 1]
    /\ chunk' = [chunk EXCEPT ![i] = Append(@, Head(pipe[i - 1])[2])]
    /\ Consume(i)
    /\ UNCHANGED <<args, count, writer, status>>

\* FREAD() of the body gets less than it asked for.
ShortBody(i) ==
    /\ Loading(i) /\ need[i] > 0 /\ WriterGone(i)
    /\ status' = [status EXCEPT ![i] = "short"]
    /\ UNCHANGED <<args, pipe, reader, count, writer>>

-----------------------------------------------------------------------------
(* The main loop, once a chunk is read *)

HasRow(i) == Loading(i) /\ need[i] = 0 /\ chunk[i] # << >>

\* Mutant: the buffer is not reset after a flush.
CopyRowKept(i) ==
    /\ HasRow(i) /\ count[i] < limit[i]
    /\ count' = [count EXCEPT ![i] = @ + 1]
    /\ chunk' = [chunk EXCEPT ![i] = Tail(@)]
    /\ LET full == Len(wbuf[i]) = CHUNK_ROWS
           row == Head(chunk[i])
       IN  /\ pending' = [pending EXCEPT ![i] = IF full THEN Encode(wbuf[i]) ELSE << >>]
           /\ wbuf' = [wbuf EXCEPT ![i] = Append(@, row)]
    /\ UNCHANGED <<args, pipe, need, closing, status>>

CopyRow(i) ==
    /\ HasRow(i) /\ count[i] < limit[i]
    /\ count' = [count EXCEPT ![i] = @ + 1]
    /\ chunk' = [chunk EXCEPT ![i] = Tail(@)]
    /\ LET full == Len(wbuf[i]) = CHUNK_ROWS
           row == Head(chunk[i])
       IN  /\ pending' = [pending EXCEPT ![i] = IF full THEN Encode(wbuf[i]) ELSE << >>]
           /\ wbuf' = [wbuf EXCEPT ![i] = IF full THEN <<row>> ELSE Append(@, row)]
    /\ UNCHANGED <<args, pipe, need, closing, status>>

\* Mutant: the loop ends without dump_flush().
CloseUnflushed(i) ==
    /\ \/ Loading(i) /\ need[i] = 0 /\ chunk[i] = << >> /\ WriterGone(i)
       \/ HasRow(i) /\ count[i] >= limit[i]
    /\ closing' = [closing EXCEPT ![i] = TRUE]
    /\ UNCHANGED <<args, pipe, reader, count, wbuf, pending, status>>

\* The loop ends at the end of the input, or at the row after the last wanted.
Close(i) ==
    /\ \/ Loading(i) /\ need[i] = 0 /\ chunk[i] = << >> /\ WriterGone(i)
       \/ HasRow(i) /\ count[i] >= limit[i]
    /\ closing' = [closing EXCEPT ![i] = TRUE]
    /\ pending' = [pending EXCEPT ![i] = Encode(wbuf[i])]
    /\ wbuf' = [wbuf EXCEPT ![i] = << >>]
    /\ UNCHANGED <<args, pipe, reader, count, status>>

-----------------------------------------------------------------------------
(* Writing: FWRITE() *)

\* The last program writes to a file.
ReaderGone(i) == i < N /\ ~Running(i + 1)
Room(i) == i = N \/ Len(pipe[i]) < PIPE_SIZE

Write(i) ==
    /\ Running(i) /\ pending[i] # << >> /\ ~ReaderGone(i) /\ Room(i)
    /\ pipe' = [pipe EXCEPT ![i] = Append(@, Head(pending[i]))]
    /\ pending' = [pending EXCEPT ![i] = Tail(@)]
    /\ UNCHANGED <<args, reader, count, wbuf, closing, status>>

\* Mutant: the handler returns, and the write is tried again.
SigPipeIgnored(i) ==
    /\ Running(i) /\ pending[i] # << >> /\ ReaderGone(i)
    /\ UNCHANGED vars

\* The handler of SIGPIPE calls exit(0).
SigPipe(i) ==
    /\ Running(i) /\ pending[i] # << >> /\ ReaderGone(i)
    /\ status' = [status EXCEPT ![i] = "ok"]
    /\ UNCHANGED <<args, pipe, reader, count, writer>>

\* Mutant: the result of fwrite() is not looked at.
WriteFailsSilently(i) ==
    /\ i = N /\ Running(i) /\ pending[i] # << >>
    /\ status' = [status EXCEPT ![i] = "ok"]
    /\ UNCHANGED <<args, pipe, reader, count, writer>>

\* The file system is full: FWRITE() writes less than it should.
WriteFails(i) ==
    /\ i = N /\ Running(i) /\ pending[i] # << >>
    /\ status' = [status EXCEPT ![i] = "full"]
    /\ UNCHANGED <<args, pipe, reader, count, writer>>

\* Mutant: the program exits while it is still writing.
ExitEarly(i) ==
    /\ Running(i) /\ closing[i]
    /\ status' = [status EXCEPT ![i] = "ok"]
    /\ UNCHANGED <<args, pipe, reader, count, writer>>

Exit(i) ==
    /\ Running(i) /\ closing[i] /\ pending[i] = << >>
    /\ status' = [status EXCEPT ![i] = "ok"]
    /\ UNCHANGED <<args, pipe, reader, count, writer>>

Kill(i) ==
    /\ Running(i)
    /\ status' = [status EXCEPT ![i] = "killed"]
    /\ UNCHANGED <<args, pipe, reader, count, writer>>

Step(i) ==
    \/ ReadSize(i) \/ ReadBody(i) \/ ShortBody(i)
    \/ CopyRow(i) \/ Close(i)
    \/ Write(i) \/ SigPipe(i) \/ Exit(i)

AllExited == \A i \in Stage : ~Running(i)
Terminated == AllExited /\ UNCHANGED vars

Next ==
    \/ \E i \in Stage : Step(i) \/ WriteFails(i) \/ Kill(i)
    \/ Terminated

Spec == Init /\ [][Next]_vars

\* Each program is scheduled; nobody owes a kill or a full disk.
FairSpec == Spec /\ \A i \in Stage : WF_vars(Step(i))

-----------------------------------------------------------------------------
\* The rows 1 to n are rows of the input that every program lets through.
LetThrough(n) == n <= total /\ \A i \in Stage : n <= limit[i]

\* How many of the input's rows the pipeline lets through.
Passed ==
    CHOOSE n \in 0..total : LetThrough(n) /\ (n = total \/ \E i \in Stage : n = limit[i])

(***************************************************************************)
(* At every moment, whoever has died, the output is the beginning of the   *)
(* file of the first rows, none past any program's limit: the rows are in  *)
(* order, none of them twice and none missing between two others, in       *)
(* chunks of which only the last is not full.                              *)
(***************************************************************************)
OutputIsPrefix ==
    \E n \in 0..total :
        /\ LetThrough(n)
        /\ Len(pipe[N]) <= Len(FileOf(n))
        /\ pipe[N] = SubSeq(FileOf(n), 1, Len(pipe[N]))

(***************************************************************************)
(* "set -o pipefail" is sound: if every program of the pipeline exits with *)
(* status 0 the output is complete.  A program that SIGPIPE ends reports   *)
(* success with its work not done, and this is still so.                   *)
(***************************************************************************)
StatusSound == (\A i \in Stage : status[i] = "ok") => pipe[N] = FileOf(Passed)

(***************************************************************************)
(* A program finds a chunk cut short only if the program before it died:   *)
(* one that exits early of its own accord leaves whole chunks behind.      *)
(***************************************************************************)
ShortOnlyAfterDeath ==
    \A i \in Stage : status[i] = "short" => i > 1 /\ status[i - 1] \in {"killed", "short"}

(***************************************************************************)
(* Whatever happens upstream, a last program that reports success leaves   *)
(* whole chunks in its output file.                                        *)
(***************************************************************************)
OutputIsWhole ==
    status[N] = "ok" =>
        \A p \in 1..Len(pipe[N]) :
            pipe[N][p][1] = "size" => p + pipe[N][p][2] <= Len(pipe[N])

\* Full pipes, early exits and deaths never leave a program waiting for ever.
AllExit == <>AllExited

-----------------------------------------------------------------------------
(***************************************************************************)
(* The inductive invariant.  Stage i has read Taken(i) rows, and Read(i)   *)
(* pieces, of the file of the Sent(i - 1) rows that stage i - 1 has given  *)
(* to write_flush(); stage 0 stands for the input.  What is in the pipe,   *)
(* and what is left of a write, is the rest of that file.                  *)
(***************************************************************************)
Piece == {"size", "row"} \X Nat

Typed ==
    /\ total \in 0..MaxRows /\ limit \in [Stage -> 0..NoLimit]
    /\ pipe \in [0..N -> Seq(Piece)]
    /\ need \in [Stage -> Nat] /\ chunk \in [Stage -> Seq(Nat)]
    /\ count \in [Stage -> Nat] /\ wbuf \in [Stage -> Seq(Nat)]
    /\ pending \in [Stage -> Seq(Piece)] /\ closing \in [Stage -> BOOLEAN]
    /\ status \in [Stage -> {"run", "ok", "short", "full", "killed"}]

Taken(i) == count[i] + Len(chunk[i])
Read(i) == Taken(i) + Chunks(Taken(i) + need[i])
Sent(i) == IF i = 0 THEN total ELSE count[i] - Len(wbuf[i])

\* s is what follows the first n elements of t.
IsRest(s, t, n) == n + Len(s) = Len(t) /\ \A k \in 1..Len(s) : s[k] = t[n + k]

Unread(i) == IF i = 0 THEN pipe[i] ELSE pipe[i] \o pending[i]
Consumed(i) == IF i = N THEN 0 ELSE Read(i + 1)

StreamInv(i) == IsRest(Unread(i), FileOf(Sent(i)), Consumed(i))

FullChunks(n) == \E c \in Nat : n = c * CHUNK_ROWS

\* The rows of a chunk end where the chunk does, or the file.
ReaderInv(i) ==
    /\ \A k \in 1..Len(chunk[i]) : chunk[i][k] = count[i] + k
    /\ Taken(i) + need[i] <= Sent(i - 1)
    /\ FullChunks(Taken(i) + need[i]) \/ Taken(i) + need[i] = Sent(i - 1)
    /\ need[i] > 0 => \E c \in Nat : /\ c * CHUNK_ROWS <= Taken(i)
                                     /\ Taken(i) + need[i] <= (c + 1) * CHUNK_ROWS

WriterInv(i) ==
    /\ Len(wbuf[i]) <= CHUNK_ROWS /\ Len(wbuf[i]) <= count[i] /\ count[i] <= limit[i]
    /\ \A k \in 1..Len(wbuf[i]) : wbuf[i][k] = Sent(i) + k
    /\ IF closing[i] THEN wbuf[i] = << >> ELSE FullChunks(Sent(i))

\* No stage has read more than any stage before it has dumped.
OrderInv(i) == Taken(i) <= total /\ \A j \in 1..i - 1 : Taken(i) <= count[j]

Flushed(i) == closing[i] /\ pending[i] = << >>
Died(i) == status[i] \in {"killed", "short"}

\* Why a program has exited, and why it has left its loop.
StatusInv(i) ==
    /\ status[i] = "short" => i > 1 /\ Died(i - 1)
    /\ status[i] = "full" => i = N
    /\ status[i] = "ok" => Flushed(i) \/ (i < N /\ ~Running(i + 1))
    /\ closing[i] => \/ count[i] = total
                     \/ \E j \in 1..i : count[i] = limit[j]
                     \/ \E j \in 1..i - 1 : Died(j)

IInv ==
    /\ Typed /\ \A i \in 0..N : StreamInv(i)
    /\ \A i \in Stage : ReaderInv(i) /\ WriterInv(i) /\ OrderInv(i) /\ StatusInv(i)
=============================================================================
