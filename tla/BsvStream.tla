----------------------------- MODULE BsvStream ------------------------------
(***************************************************************************)
(* Two programs joined by a stream.  The writer hands each of its rows to  *)
(* dump() and calls dump_flush() before it exits, as every program of the  *)
(* suite that writes bsv does; the reader calls load_next() until it sees  *)
(* row.stop, as every program that reads bsv does (src/_bcopy.c is the     *)
(* smallest that does both).  A chunk is written in one step here; module  *)
(* BsvPipeline splits that step.                                           *)
(***************************************************************************)
EXTENDS BsvWrite, BsvRead

CONSTANT Inputs     \* the sequences of rows the writer may be given

ASSUME InputsAssumption == Inputs \subseteq Seq(Row)

VARIABLES
    input,      \* the rows the writer has to write
    dumped,     \* how many of them it has given to dump()
    wbuf,       \* the writer's buffer and the chunks it wrote
    wpc,        \* "dump", or how the writer exited: "done", "fatal", "killed"
    rbuf,       \* the reader's buffer
    rpc,        \* "load", or how the reader exited: "stop", "fatal"
    received    \* the numbers of the rows load_next() returned

vars == <<input, dumped, wbuf, wpc, rbuf, rpc, received>>

Init ==
    /\ input \in Inputs
    /\ dumped = 0
    /\ wbuf = WbufInit
    /\ wpc = "dump"
    /\ rbuf = RbufInit
    /\ rpc = "load"
    /\ received = << >>

-----------------------------------------------------------------------------
Writing == wpc = "dump" /\ dumped < Len(input)

DumpRow ==
    /\ Writing
    /\ ~DumpDies(input[dumped + 1])
    /\ wbuf' = Dump(wbuf, dumped + 1, input[dumped + 1])
    /\ dumped' = dumped + 1
    /\ UNCHANGED <<input, wpc, rbuf, rpc, received>>

\* An assertion of dump() fails: the process exits with what it has buffered.
DumpFatal ==
    /\ Writing
    /\ DumpDies(input[dumped + 1])
    /\ wbuf' = IF DumpDiesEarly(input[dumped + 1]) THEN wbuf
               ELSE WriteStart(wbuf, RowSize(input[dumped + 1]))
    /\ wpc' = "fatal"
    /\ UNCHANGED <<input, dumped, rbuf, rpc, received>>

\* Mutant: the program exits without dump_flush().
DumpFlushForgotten ==
    /\ wpc = "dump" /\ dumped = Len(input)
    /\ wpc' = "done"
    /\ UNCHANGED <<input, dumped, wbuf, rbuf, rpc, received>>

DumpFlush ==
    /\ wpc = "dump" /\ dumped = Len(input)
    /\ wbuf' = WriteFlush(wbuf)
    /\ wpc' = "done"
    /\ UNCHANGED <<input, dumped, rbuf, rpc, received>>

\* The environment may kill the writer at any point before it exits.
Kill ==
    /\ wpc = "dump"
    /\ wpc' = "killed"
    /\ UNCHANGED <<input, dumped, wbuf, rbuf, rpc, received>>

\* Mutant: the reader waits for a clean exit.
BlockedUntilDone == AtEnd(rbuf, wbuf.file) /\ wpc # "done"

\* Mutant: an empty pipe is taken for the end of the file.
BlockedNever == FALSE

\* load_next() waits while there is nothing to read and the writer lives.
Blocked == AtEnd(rbuf, wbuf.file) /\ wpc = "dump"

Load ==
    /\ rpc = "load"
    /\ ~Blocked
    /\ \E loaded \in {LoadNext(rbuf, input, wbuf.file)} :
         /\ rbuf' = loaded.rbuf
         /\ rpc' = IF loaded.outcome = "row" THEN "load" ELSE loaded.outcome
         /\ received' = IF loaded.outcome = "row"
                        THEN Append(received, loaded.row) ELSE received
    /\ UNCHANGED <<input, dumped, wbuf, wpc>>

\* Both programs have exited.
Exited == wpc # "dump" /\ rpc # "load"
Terminated == Exited /\ UNCHANGED vars

Next == DumpRow \/ DumpFatal \/ DumpFlush \/ Kill \/ Load \/ Terminated

Spec == Init /\ [][Next]_vars

\* Each program keeps running while it can; nobody owes a kill.
Fairness == WF_vars(DumpRow \/ DumpFatal \/ DumpFlush) /\ WF_vars(Load)
FairSpec == Spec /\ Fairness

-----------------------------------------------------------------------------
(***************************************************************************)
(* Type correctness, with the bound that no assertion of write.h checks:   *)
(* the memcpy() of write_bytes() stays inside the buffer, and the reader   *)
(* never moves its offset past the chunk it holds.                         *)
(***************************************************************************)
TypeOK ==
    /\ input \in Seq(Row)
    /\ dumped \in 0..Len(input)
    /\ wbuf \in WriteBuf
    /\ Len(wbuf.buffer) <= BUFFER_SIZE
    /\ wpc \in {"dump", "done", "fatal", "killed"}
    /\ rbuf \in ReadBuf
    /\ rbuf.offset \in 0..rbuf.chunk_size
    /\ rbuf.chunk_size \in 0..BUFFER_SIZE
    /\ rbuf.next \in 0..Len(wbuf.file)
    /\ rpc \in {"load", "stop", "fatal"}
    /\ received \in Seq(Nat)

(***************************************************************************)
(* The assertions of read_bytes() and load_next() that the code calls "not *)
(* possible, chunk sizes are known" (util/read.h:66, :78) never fail, in   *)
(* whatever way the writer exits and however the two are scheduled.        *)
(***************************************************************************)
ReaderNeverDies == rpc # "fatal"

(***************************************************************************)
(* The reader gets the writer's rows in order, each one once and each one  *)
(* whole: what load_next() takes for a row is one row of the writer.       *)
(***************************************************************************)
InOrder == \A k \in 1..Len(received) : received[k] = k

(***************************************************************************)
(* When the reader stops it has every row of every chunk that was written: *)
(* all the rows if the writer finished, and otherwise all but those that   *)
(* were still in the writer's buffer.                                      *)
(***************************************************************************)
NothingWrittenIsLost ==
    rpc = "stop" => Len(received) = IF wpc = "done" THEN Len(input) ELSE Flushed(wbuf)

(***************************************************************************)
(* Write_start() flushes only when the next row does not fit, so the file  *)
(* is greedily packed.  read_goto_last_chunk() needs that (read_ahead.h):  *)
(* see module BsvReadAhead.                                                *)
(***************************************************************************)
FilePacked == Packed(input, wbuf.file)

(***************************************************************************)
(* The stream implements the channel of rows.  A dead writer's rows that   *)
(* were never written leave the channel at the step that kills it.         *)
(***************************************************************************)
Channel == INSTANCE RowChannel WITH
    accepted <- IF wpc \in {"fatal", "killed"} THEN Flushed(wbuf) ELSE dumped,
    delivered <- received,
    state <- CASE wpc = "dump" -> "open"
               [] wpc = "done" -> "closed"
               [] OTHER -> "cut",
    ended <- rpc = "stop"

ImplementsChannel == Channel!Spec

\* However the writer exits, the reader does not wait for ever: it stops.
ReaderStops == <>(rpc = "stop")

-----------------------------------------------------------------------------
(***************************************************************************)
(* The inductive invariant.  The writer has dumped rows 1 to dumped (see   *)
(* WriterState).  It flushes only when it has a row to buffer next, so it  *)
(* has an empty buffer before its first row and once it is done.           *)
(***************************************************************************)
WriterInv ==
    /\ WriterState(input, wbuf, dumped)
    /\ wpc = "dump" /\ wbuf.buffer = << >> => wbuf.file = << >>
    /\ wpc = "done" => wbuf.buffer = << >> /\ dumped = Len(input)

(***************************************************************************)
(* The reader: it holds the chunk it read last, and what it has received   *)
(* ends where the unread part of that chunk starts.                        *)
(***************************************************************************)
UnreadInv ==
    IF rbuf.next = 0
    THEN rbuf.offset = rbuf.chunk_size /\ received = << >>
    ELSE /\ rbuf.buffer = wbuf.file[rbuf.next]
         /\ rbuf.chunk_size = Len(rbuf.buffer)
         /\ IF rbuf.offset = rbuf.chunk_size
            THEN Len(received) = LastRow(rbuf.buffer)
            ELSE rbuf.buffer[rbuf.offset + 1] = [row |-> Len(received) + 1, byte |-> 1]

ReaderInv ==
    /\ rpc # "fatal" /\ ~rbuf.dead
    /\ InOrder
    /\ rpc = "load" => UnreadInv
    /\ rpc = "stop" => wpc # "dump" /\ Len(received) = Flushed(wbuf)

IInv == TypeOK /\ WriterInv /\ ReaderInv
=============================================================================
