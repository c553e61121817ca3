--------------------------- MODULE BsvStreamProofs --------------------------
(***************************************************************************)
(* IInv is an inductive invariant of BsvStream for every buffer size, every*)
(* set of rows and every input; the safety properties follow from it, and  *)
(* so does the refinement: the stream implements the channel RowChannel.   *)
(***************************************************************************)
EXTENDS BsvStream, BsvRowProofs

\* The invariant holds when both programs start.
LEMMA InitIInv == Init => IInv
<1>. SUFFICES ASSUME Init PROVE IInv
  OBVIOUS
<1>1. BUFFER_SIZE \in Nat /\ input \in Seq(Row)
  BY FormatAssumption, InputsAssumption DEF Init
<1>2. TypeOK
  BY <1>1 DEF Init, TypeOK, WbufInit, WriteBuf, RbufInit, ReadBuf, Cell
<1>3. WriterInv
  BY DEF Init, WriterInv, WbufInit, WriterState, WriterRun, PacksSoFar, FileRun, FileEnd, Packed
<1>4. ReaderInv
  BY DEF Init, ReaderInv, RbufInit, UnreadInv, InOrder
<1>. QED
  BY <1>2, <1>3, <1>4 DEF IInv

\* A file that only grows changes nothing for the reader.
LEMMA ReaderUntouched ==
    ASSUME TypeOK, ReaderInv, UNCHANGED <<rbuf, rpc, received>>,
           wbuf' \in WriteBuf, Len(wbuf.file) <= Len(wbuf'.file),
           \A c \in 1..Len(wbuf.file) : wbuf'.file[c] = wbuf.file[c],
           rpc = "stop" => wpc' # "dump" /\ Flushed(wbuf') = Flushed(wbuf)
    PROVE  ReaderInv' /\ rbuf'.next \in 0..Len(wbuf'.file)
<1>1. /\ Len(wbuf.file) \in Nat /\ Len(wbuf'.file) \in Nat
      /\ rbuf.next \in 0..Len(wbuf.file)
  BY DEF TypeOK, WriteBuf
<1>2. rbuf'.next \in 0..Len(wbuf'.file)
  BY <1>1
<1>3. rpc = "load" => UnreadInv'
  <2>. SUFFICES ASSUME rpc = "load" PROVE UnreadInv'
    OBVIOUS
  <2>1. UnreadInv
    BY DEF ReaderInv
  <2>2. rbuf.next # 0 => wbuf'.file[rbuf.next] = wbuf.file[rbuf.next]
    BY <1>1
  <2>. QED
    BY <2>1, <2>2 DEF UnreadInv
<1>. QED
  BY <1>2, <1>3 DEF ReaderInv, InOrder

\* What a step of the writer needs: it happens while the writer runs, and
\* leaves a writer state and a file that starts with the file before it.
LEMMA WriterStep ==
    ASSUME IInv, wpc = "dump", UNCHANGED <<input, rbuf, rpc, received>>,
           wpc' \in {"dump", "done", "fatal", "killed"}, dumped' \in 0..Len(input),
           wbuf' \in WriteBuf, Len(wbuf'.buffer) <= BUFFER_SIZE,
           Len(wbuf.file) <= Len(wbuf'.file),
           \A c \in 1..Len(wbuf.file) : wbuf'.file[c] = wbuf.file[c],
           WriterInv'
    PROVE  IInv'
<1>1. TypeOK /\ ReaderInv /\ rpc # "stop"
  BY DEF IInv, ReaderInv
<1>2. ReaderInv' /\ rbuf'.next \in 0..Len(wbuf'.file)
  BY <1>1, ReaderUntouched
<1>3. TypeOK'
  BY <1>1, <1>2 DEF TypeOK
<1>. QED
  BY <1>2, <1>3 DEF IInv

\* dump() preserves the invariant: the flush it may do appends a packed chunk.
LEMMA DumpRowKeepsIInv == IInv /\ DumpRow => IInv'
<1>. SUFFICES ASSUME IInv, DumpRow PROVE IInv'
  OBVIOUS
<1>. DEFINE r == input[dumped + 1]
<1>1. /\ input \in Seq(Row) /\ dumped \in Nat /\ dumped + 1 \in 1..Len(input) /\ wpc = "dump"
      /\ wbuf \in WriteBuf /\ WriterState(input, wbuf, dumped)
      /\ wbuf.buffer = << >> => wbuf.file = << >>
  BY DEF IInv, TypeOK, WriterInv, DumpRow, Writing
<1>2. RowSize(r) <= BUFFER_SIZE
  <2>1. ~(RowSize(r) > BUFFER_SIZE)
    BY DEF DumpRow, DumpDies, DumpDiesEarly, WriteStartDies
  <2>2. RowSize(r) \in Nat /\ BUFFER_SIZE \in Nat
    BY <1>1, RowSizePositive, FormatAssumption
  <2>. QED
    BY <2>1, <2>2
<1>3. /\ wbuf' \in WriteBuf /\ wbuf'.buffer # << >> /\ Len(wbuf'.buffer) <= BUFFER_SIZE
      /\ WriterState(input, wbuf', dumped + 1) /\ Len(wbuf.file) <= Len(wbuf'.file)
      /\ \A c \in 1..Len(wbuf.file) : wbuf'.file[c] = wbuf.file[c]
  <2>1. WriterRun(input, wbuf, 1, dumped) /\ PacksSoFar(input, wbuf)
    BY <1>1 DEF WriterState
  <2>2. ReadyFor(input, wbuf, dumped + 1)
    BY <1>1 DEF ReadyFor, NoRoomFor
  <2>3. wbuf' = Dump(wbuf, dumped + 1, input[dumped + 1])
    BY DEF DumpRow
  <2>. QED
    BY <1>1, <1>2, <2>1, <2>2, <2>3, DumpState DEF WriterState, Extends
<1>4. /\ wpc' = wpc /\ dumped' = dumped + 1 /\ dumped' \in 0..Len(input)
      /\ UNCHANGED <<input, rbuf, rpc, received>>
  BY <1>1 DEF DumpRow
<1>5. WriterInv'
  BY <1>1, <1>3, <1>4 DEF WriterInv
<1>. QED
  BY <1>1, <1>3, <1>4, <1>5, WriterStep

\* So does a dump() that aborts, before or after write_start().
LEMMA DumpFatalKeepsIInv == IInv /\ DumpFatal => IInv'
<1>. SUFFICES ASSUME IInv, DumpFatal PROVE IInv'
  OBVIOUS
<1>. DEFINE r == input[dumped + 1]
<1>1. /\ input \in Seq(Row) /\ dumped \in Nat /\ dumped + 1 \in 1..Len(input) /\ wpc = "dump"
      /\ wbuf \in WriteBuf /\ WriterState(input, wbuf, dumped) /\ dumped \in 0..Len(input)
      /\ Len(wbuf.buffer) <= BUFFER_SIZE
  BY DEF IInv, TypeOK, WriterInv, DumpFatal, Writing
<1>2. /\ wpc' = "fatal" /\ dumped' = dumped /\ UNCHANGED <<input, rbuf, rpc, received>>
  BY DEF DumpFatal
<1>3. RowSize(r) \in Nat \ {0} /\ BUFFER_SIZE \in Nat /\ Len(wbuf.file) \in Nat
  BY <1>1, RowSizePositive, FormatAssumption DEF WriteBuf
<1>4. CASE DumpDiesEarly(r)
  <2>1. wbuf' = wbuf
    BY <1>4 DEF DumpFatal
  <2>2. WriterInv'
    BY <1>1, <1>2, <2>1 DEF WriterInv
  <2>. QED
    BY <1>1, <1>2, <1>3, <2>1, <2>2, WriterStep
<1>5. CASE ~DumpDiesEarly(r)
  <2>1. wbuf' = WriteStart(wbuf, RowSize(r))
    BY <1>5 DEF DumpFatal
  <2>2. RowSize(r) <= BUFFER_SIZE
    <3>1. ~(RowSize(r) > BUFFER_SIZE)
      BY <1>5 DEF DumpDiesEarly, WriteStartDies
    <3>. QED
      BY <1>3, <3>1
  <2>3. /\ wbuf' \in WriteBuf /\ WriterState(input, wbuf', dumped)
        /\ Len(wbuf'.buffer) + RowSize(r) <= BUFFER_SIZE /\ Len(wbuf.file) <= Len(wbuf'.file)
        /\ \A c \in 1..Len(wbuf.file) : wbuf'.file[c] = wbuf.file[c]
    <3>1. WriterRun(input, wbuf, 1, dumped) /\ PacksSoFar(input, wbuf)
      BY <1>1 DEF WriterState
    <3>. QED
      BY <1>1, <2>1, <2>2, <3>1, StartState DEF WriterState, Extends
  <2>4. Len(wbuf'.buffer) <= BUFFER_SIZE
    <3>1. Len(wbuf'.buffer) \in Nat
      BY <2>3 DEF WriteBuf
    <3>. QED
      BY <1>3, <2>3, <3>1
  <2>5. WriterInv'
    BY <1>1, <1>2, <2>3 DEF WriterInv
  <2>. QED
    BY <1>1, <1>2, <2>3, <2>4, <2>5, WriterStep
<1>. QED
  BY <1>4, <1>5

\* So does dump_flush(), whose chunk ends with the last row.
LEMMA DumpFlushKeepsIInv == IInv /\ DumpFlush => IInv'
<1>. SUFFICES ASSUME IInv, DumpFlush PROVE IInv'
  OBVIOUS
<1>1. /\ input \in Seq(Row) /\ dumped \in Nat /\ dumped = Len(input) /\ wpc = "dump"
      /\ dumped \in 0..Len(input) /\ wbuf \in WriteBuf /\ WriterState(input, wbuf, dumped)
  BY DEF IInv, TypeOK, WriterInv, DumpFlush
<1>2. /\ wpc' = "done" /\ dumped' = dumped /\ wbuf' = WriteFlush(wbuf)
      /\ UNCHANGED <<input, rbuf, rpc, received>>
  BY DEF DumpFlush
<1>3. /\ wbuf' \in WriteBuf /\ wbuf'.buffer = << >> /\ WriterState(input, wbuf', dumped)
      /\ Len(wbuf.file) <= Len(wbuf'.file)
      /\ \A c \in 1..Len(wbuf.file) : wbuf'.file[c] = wbuf.file[c]
  BY <1>1, <1>2, FlushState DEF WriterState, Extends
<1>4. Len(wbuf'.buffer) <= BUFFER_SIZE
  BY <1>3, FormatAssumption
<1>5. WriterInv'
  BY <1>1, <1>2, <1>3 DEF WriterInv
<1>. QED
  BY <1>1, <1>2, <1>3, <1>4, <1>5, WriterStep

\* A killed writer leaves its file as it is.
LEMMA KillKeepsIInv == IInv /\ Kill => IInv'
<1>. SUFFICES ASSUME IInv, Kill PROVE IInv'
  OBVIOUS
<1>1. /\ wpc = "dump" /\ wpc' = "killed" /\ UNCHANGED <<input, dumped, wbuf, rbuf, rpc, received>>
  BY DEF Kill
<1>2. WriterInv' /\ dumped \in 0..Len(input) /\ wbuf \in WriteBuf
      /\ Len(wbuf.buffer) <= BUFFER_SIZE /\ Len(wbuf.file) \in Nat
  BY <1>1 DEF IInv, WriterInv, TypeOK, WriteBuf
<1>. QED
  BY <1>1, <1>2, WriterStep

-----------------------------------------------------------------------------
\* The row the reader is about to load: the one after those it received, in
\* the chunk it holds or at the start of the next one.
LEMMA NextIsReady ==
    ASSUME IInv, rpc = "load", ~AtEnd(rbuf, wbuf.file)
    PROVE  \/ rbuf.next # 0 /\ HeldRow(input, rbuf, Len(received) + 1)
           \/ NextRow(input, rbuf, wbuf.file, Len(received) + 1)
<1>1. /\ rbuf \in ReadBuf /\ ~rbuf.dead /\ rbuf.next \in 0..Len(wbuf.file) /\ rbuf.next \in Nat
      /\ wbuf.file \in Seq(Seq(Cell)) /\ Len(wbuf.file) \in Nat /\ rbuf.offset \in 0..rbuf.chunk_size
      /\ rbuf.chunk_size \in Int /\ received \in Seq(Nat)
  BY DEF IInv, TypeOK, ReaderInv, WriteBuf, ReadBuf
<1>2. UnreadInv /\ FileRun(input, wbuf.file, 1)
  BY DEF IInv, ReaderInv, WriterInv, WriterState, WriterRun
<1>3. CASE rbuf.offset # rbuf.chunk_size
  <2>1. /\ rbuf.next # 0 /\ rbuf.buffer = wbuf.file[rbuf.next]
        /\ rbuf.chunk_size = Len(rbuf.buffer)
        /\ rbuf.buffer[rbuf.offset + 1] = [row |-> Len(received) + 1, byte |-> 1]
    BY <1>2, <1>3 DEF UnreadInv
  <2>2. rbuf.next \in 1..Len(wbuf.file)
    BY <1>1, <2>1
  <2>3. Chunk(input, rbuf.buffer)
    BY <1>2, <2>1, <2>2 DEF FileRun
  <2>4. rbuf.offset \in 0..Len(rbuf.buffer) - 1
    BY <1>1, <1>3, <2>1, SMTT(40)
  <2>. QED
    BY <1>1, <2>1, <2>3, <2>4 DEF HeldRow, Chunk
<1>4. CASE rbuf.offset = rbuf.chunk_size
  <2>1. rbuf.next # Len(wbuf.file)
    BY <1>1, <1>4 DEF AtEnd, BytesLeft
  <2>2. rbuf.next + 1 \in 1..Len(wbuf.file) /\ rbuf.next < Len(wbuf.file) /\ wbuf.file # << >>
    BY <1>1, <2>1
  <2>3. Chunk(input, wbuf.file[rbuf.next + 1])
    BY <1>2, <2>2 DEF FileRun
  <2>4. FirstRow(wbuf.file[rbuf.next + 1]) = Len(received) + 1
    <3>1. CASE rbuf.next = 0
      BY <1>2, <2>2, <3>1 DEF FileRun, UnreadInv
    <3>2. CASE rbuf.next # 0
      <4>1. rbuf.next \in 1..Len(wbuf.file) - 1
        BY <1>1, <2>2, <3>2
      <4>2. Len(received) = LastRow(wbuf.file[rbuf.next])
        BY <1>2, <1>4, <3>2 DEF UnreadInv
      <4>. QED
        BY <1>2, <4>1, <4>2 DEF FileRun
    <3>. QED
      BY <3>1, <3>2
  <2>. QED
    BY <1>1, <1>4, <2>2, <2>3, <2>4 DEF NextRow
<1>. QED
  BY <1>3, <1>4

\* What loading row i from chunk c, after p cells of it, leaves behind.
LEMMA RowLoaded ==
    ASSUME IInv, UNCHANGED <<input, dumped, wbuf, wpc>>, rpc = "load",
           NEW i \in Nat, i = Len(received) + 1, NEW p \in Nat, NEW n \in Nat \ {0},
           NEW rb \in ReadBuf, ~rb.dead, rb.next = n, n \in 1..Len(wbuf.file),
           rb.buffer = wbuf.file[n], rb.chunk_size = Len(rb.buffer),
           RowAt(input, rb.buffer, p, i),
           rbuf' = AfterRow(rb, input[i], p), rpc' = "load", received' = Append(received, i)
    PROVE  IInv'
<1>. DEFINE c == wbuf.file[n]
            o == p + RowSize(input[i])
<1>1. /\ input \in Seq(Row) /\ received \in Seq(Nat) /\ wbuf.file \in Seq(Seq(Cell))
      /\ c \in Seq(Cell) /\ TypeOK /\ InOrder
  BY DEF IInv, TypeOK, WriteBuf, ReaderInv
<1>2. Chunk(input, c) /\ RowAt(input, c, p, i)
  BY DEF IInv, WriterInv, WriterState, WriterRun, FileRun
<1>. HIDE DEF c
<1>3. /\ o \in 0..Len(c)
      /\ IF o = Len(c) THEN LastRow(c) = i ELSE c[o + 1] = [row |-> i + 1, byte |-> 1]
  <2>1. RowEndsAt(c, o, i)
    BY <1>1, <1>2, AfterRowInBlock DEF Chunk
  <2>. QED
    BY <2>1 DEF RowEndsAt
<1>4. Len(c) \in Nat /\ Len(c) <= BUFFER_SIZE /\ BUFFER_SIZE \in Nat
  BY <1>1, <1>2, FormatAssumption DEF Chunk
<1>5. i \in 1..Len(input) /\ input[i] \in Row
  BY <1>1, <1>2 DEF RowAt
<1>6. /\ rbuf' \in ReadBuf /\ rbuf'.offset = o /\ rbuf'.buffer = c /\ rbuf'.chunk_size = Len(c)
      /\ rbuf'.next = n /\ rbuf'.dead = FALSE
  <2>. DEFINE at == p + HeaderSize(input[i])
  <2>1. at \in Int /\ input[i].data \in Int /\ o \in Int
    BY <1>3, <1>5, RowSizeType
  <2>2. rbuf' = Advance(rb, at, input[i].data, o)
    BY DEF AfterRow
  <2>3. rb.buffer = c /\ rb.chunk_size = Len(c) /\ rb.dead = FALSE
    BY DEF c, ReadBuf
  <2>. HIDE DEF at, o
  <2>. QED
    BY <2>1, <2>2, <2>3, AdvanceType
<1>7. /\ received' \in Seq(Nat) /\ Len(received') = i
      /\ \A k \in 1..Len(received') : received'[k] = k
  <2>1. /\ received' \in Seq(Nat) /\ Len(received') = i
        /\ received'[i] = i /\ \A k \in 1..Len(received) : received'[k] = received[k]
    BY <1>1, AppendProperties
  <2>2. \A k \in 1..Len(received') : k \in 1..Len(received) \/ k = i
    BY <1>1, <2>1
  <2>. QED
    BY <1>1, <2>1, <2>2 DEF InOrder
<1>8. TypeOK'
  BY <1>1, <1>3, <1>4, <1>6, <1>7 DEF TypeOK
<1>9. UnreadInv'
  <2>. HIDE DEF o
  <2>1. rbuf'.buffer = wbuf'.file[rbuf'.next] /\ rbuf'.next # 0
    BY <1>6 DEF c
  <2>2. IF rbuf'.offset = rbuf'.chunk_size THEN Len(received') = LastRow(rbuf'.buffer)
        ELSE rbuf'.buffer[rbuf'.offset + 1] = [row |-> Len(received') + 1, byte |-> 1]
    BY <1>3, <1>6, <1>7
  <2>. QED
    BY <1>6, <2>1, <2>2 DEF UnreadInv
<1>10. ReaderInv'
  BY <1>6, <1>7, <1>9 DEF ReaderInv, InOrder
<1>11. WriterInv'
  BY DEF IInv, WriterInv
<1>. QED
  BY <1>8, <1>10, <1>11 DEF IInv

\* load_next() preserves the invariant, in each of its three outcomes.
LEMMA LoadKeepsIInv == IInv /\ Load => IInv'
<1>. SUFFICES ASSUME IInv, Load PROVE IInv'
  OBVIOUS
<1>. DEFINE i == Len(received) + 1
            l == LoadNext(rbuf, input, wbuf.file)
<1>1. /\ rpc = "load" /\ ~Blocked /\ UNCHANGED <<input, dumped, wbuf, wpc>>
      /\ rbuf' = l.rbuf /\ rpc' = (IF l.outcome = "row" THEN "load" ELSE l.outcome)
      /\ received' = (IF l.outcome = "row" THEN Append(received, l.row) ELSE received)
  BY DEF Load
<1>. HIDE DEF l
<1>2. /\ rbuf \in ReadBuf /\ ~rbuf.dead /\ input \in Seq(Row) /\ wbuf.file \in Seq(Seq(Cell))
      /\ received \in Seq(Nat) /\ i \in Nat /\ rbuf.next \in 0..Len(wbuf.file) /\ rbuf.next \in Nat
      /\ TypeOK /\ ReaderInv /\ WriterInv /\ UnreadInv
  BY <1>1 DEF IInv, TypeOK, ReaderInv, WriteBuf, ReadBuf
<1>3. CASE AtEnd(rbuf, wbuf.file)
  <2>1. l = Loaded(ReadEof(rbuf), 0, "stop")
    BY <1>2, <1>3, LoadAtEnd DEF l
  <2>2. rbuf' = ReadEof(rbuf) /\ rpc' = "stop" /\ received' = received
    BY <1>1, <2>1 DEF Loaded
  <2>3. rbuf' \in ReadBuf /\ ~rbuf'.dead /\ rbuf'.chunk_size = 0 /\ rbuf'.offset = 0
        /\ rbuf'.next = rbuf.next
    BY <1>2, <2>2, ReadEofType
  <2>4. wpc' # "dump"
    BY <1>1, <1>3 DEF Blocked
  <2>5. rbuf.offset = rbuf.chunk_size /\ rbuf.next = Len(wbuf.file)
    BY <1>2, <1>3 DEF AtEnd, BytesLeft, ReadBuf
  <2>6. Len(received) = Flushed(wbuf)
    BY <1>2, <2>5 DEF UnreadInv, Flushed, FileEnd
  <2>7. TypeOK'
    <3>1. 0 \in 0..BUFFER_SIZE /\ 0 \in 0..0
      BY FormatAssumption
    <3>. QED
      BY <1>1, <1>2, <2>2, <2>3, <3>1 DEF TypeOK
  <2>8. ReaderInv'
    BY <1>1, <1>2, <2>2, <2>3, <2>4, <2>6 DEF ReaderInv, InOrder
  <2>9. WriterInv'
    BY <1>1, <1>2 DEF WriterInv
  <2>. QED
    BY <2>7, <2>8, <2>9 DEF IInv
<1>4. CASE rbuf.next # 0 /\ HeldRow(input, rbuf, i)
  <2>1. /\ RowAt(input, rbuf.buffer, rbuf.offset, i)
        /\ l = Loaded(AfterRow(rbuf, input[i], rbuf.offset), i, "row")
    BY <1>2, <1>4, LoadHeldRow DEF l
  <2>2. /\ rbuf' = AfterRow(rbuf, input[i], rbuf.offset) /\ rpc' = "load"
        /\ received' = Append(received, i)
    BY <1>1, <2>1 DEF Loaded
  <2>3. /\ rbuf.buffer = wbuf.file[rbuf.next] /\ rbuf.chunk_size = Len(rbuf.buffer)
        /\ rbuf.next \in 1..Len(wbuf.file) /\ rbuf.next \in Nat \ {0} /\ rbuf.offset \in Nat
    BY <1>2, <1>4 DEF UnreadInv, HeldRow, ReadBuf
  <2>. QED
    BY <1>1, <1>2, <2>1, <2>2, <2>3, RowLoaded
<1>5. CASE NextRow(input, rbuf, wbuf.file, i)
  <2>. DEFINE n == rbuf.next + 1
              c == wbuf.file[n]
              rb == Fetch(rbuf, c)
  <2>1. /\ RowAt(input, c, 0, i) /\ l = Loaded(AfterRow(rb, input[i], 0), i, "row")
    BY <1>2, <1>5, LoadNextRow DEF l
  <2>2. /\ rbuf' = AfterRow(rb, input[i], 0) /\ rpc' = "load" /\ received' = Append(received, i)
    BY <1>1, <2>1 DEF Loaded
  <2>3. n \in 1..Len(wbuf.file) /\ n \in Nat \ {0}
    BY <1>2, <1>5, SMTT(30) DEF NextRow
  <2>4. c \in Seq(Cell)
    BY <1>2, <2>3
  <2>. HIDE DEF c
  <2>5. rb \in ReadBuf /\ ~rb.dead /\ rb.next = n /\ rb.buffer = c /\ rb.chunk_size = Len(rb.buffer)
    BY <1>2, <2>4, FetchType
  <2>. HIDE DEF n, rb
  <2>. QED
    BY <1>1, <1>2, <2>1, <2>2, <2>3, <2>5, RowLoaded DEF c
<1>. QED
  BY <1>1, <1>3, <1>4, <1>5, NextIsReady

\* Every step preserves the invariant.
LEMMA NextKeepsIInv == IInv /\ [Next]_vars => IInv'
<1>. SUFFICES ASSUME IInv, [Next]_vars PROVE IInv'
  OBVIOUS
<1>1. CASE DumpRow
  BY <1>1, DumpRowKeepsIInv
<1>2. CASE DumpFatal
  BY <1>2, DumpFatalKeepsIInv
<1>3. CASE DumpFlush
  BY <1>3, DumpFlushKeepsIInv
<1>4. CASE Kill
  BY <1>4, KillKeepsIInv
<1>5. CASE Load
  BY <1>5, LoadKeepsIInv
<1>6. CASE UNCHANGED vars
  BY <1>6 DEF vars, IInv, TypeOK, WriterInv, ReaderInv, UnreadInv, InOrder
<1>. QED
  BY <1>1, <1>2, <1>3, <1>4, <1>5, <1>6 DEF Next, Terminated

(***************************************************************************)
(* The inductive invariant holds of every state of the stream.             *)
(***************************************************************************)
THEOREM Invariance == Spec => []IInv
<1>. QED
  BY InitIInv, NextKeepsIInv, PTL DEF Spec

(***************************************************************************)
(* Type correctness: no write leaves the write buffer (write_bytes() does  *)
(* not check), and the reader's offset stays inside the chunk it holds.    *)
(***************************************************************************)
THEOREM TypeCorrectness == Spec => []TypeOK
<1>1. IInv => TypeOK
  BY DEF IInv
<1>. QED
  BY <1>1, Invariance, PTL

(***************************************************************************)
(* The assertions of read_bytes() and load_next() never fail on a file     *)
(* that dump() and dump_flush() wrote, whole or cut short between chunks.  *)
(***************************************************************************)
THEOREM ReaderSurvives == Spec => []ReaderNeverDies
<1>1. IInv => ReaderNeverDies
  BY DEF IInv, ReaderInv, ReaderNeverDies
<1>. QED
  BY <1>1, Invariance, PTL

(***************************************************************************)
(* Load_next() returns the rows given to dump(), whole and in their order. *)
(***************************************************************************)
THEOREM OrderKept == Spec => []InOrder
<1>1. IInv => InOrder
  BY DEF IInv, ReaderInv
<1>. QED
  BY <1>1, Invariance, PTL

(***************************************************************************)
(* A reader that stops has all rows of a writer that finished, and all the *)
(* flushed rows of a writer that died.                                     *)
(***************************************************************************)
THEOREM WrittenRowsArrive == Spec => []NothingWrittenIsLost
<1>1. IInv => NothingWrittenIsLost
  <2>1. ASSUME IInv, rpc = "stop" PROVE Len(received) = Flushed(wbuf)
    BY <2>1 DEF IInv, ReaderInv
  <2>2. ASSUME IInv, wpc = "done" PROVE Flushed(wbuf) = Len(input)
    BY <2>2 DEF IInv, WriterInv, WriterState, WriterRun, Flushed
  <2>. QED
    BY <2>1, <2>2 DEF NothingWrittenIsLost
<1>. QED
  BY <1>1, Invariance, PTL

(***************************************************************************)
(* The chunks that dump() writes are greedily packed, whatever the rows.   *)
(***************************************************************************)
THEOREM WriterPacks == Spec => []FilePacked
<1>1. IInv => FilePacked
  BY DEF IInv, WriterInv, WriterState, PacksSoFar, FilePacked
<1>. QED
  BY <1>1, Invariance, PTL

-----------------------------------------------------------------------------
\* The reader has received no more than was written, of what was dumped.
ReceivedBound ==
    /\ Len(received) \in Nat /\ Flushed(wbuf) \in Nat /\ dumped \in Nat
    /\ Len(received) <= Flushed(wbuf) /\ Flushed(wbuf) <= dumped

\* No row is received before it was flushed.
LEMMA ReceivedWasFlushed == IInv => ReceivedBound
<1>. SUFFICES ASSUME IInv PROVE ReceivedBound
  OBVIOUS
<1>1. /\ input \in Seq(Row) /\ dumped \in Nat /\ wbuf \in WriteBuf /\ received \in Seq(Nat)
      /\ rbuf.next \in 0..Len(wbuf.file) /\ rbuf.offset \in 0..rbuf.chunk_size
      /\ WriterState(input, wbuf, dumped) /\ rpc \in {"load", "stop"}
  BY DEF IInv, TypeOK, WriterInv, ReaderInv
<1>2. Len(received) \in Nat /\ Flushed(wbuf) \in Nat /\ Flushed(wbuf) <= dumped
  BY <1>1, FlushedWasDumped DEF WriterState, Flushed
<1>3. CASE rpc = "stop"
  BY <1>1, <1>2, <1>3 DEF IInv, ReaderInv, ReceivedBound
<1>4. CASE rpc = "load" /\ rbuf.next = 0
  <2>1. UnreadInv
    BY <1>4 DEF IInv, ReaderInv
  <2>. QED
    BY <1>1, <1>2, <1>4, <2>1 DEF UnreadInv, ReceivedBound
<1>5. CASE rpc = "load" /\ rbuf.next # 0
  <2>. DEFINE c == wbuf.file[rbuf.next]
  <2>1. /\ rbuf.buffer = c /\ rbuf.chunk_size = Len(c)
        /\ IF rbuf.offset = rbuf.chunk_size THEN Len(received) = LastRow(c)
           ELSE c[rbuf.offset + 1] = [row |-> Len(received) + 1, byte |-> 1]
    BY <1>5 DEF IInv, ReaderInv, UnreadInv
  <2>2. /\ wbuf.file \in Seq(Seq(Cell)) /\ rbuf.next \in 1..Len(wbuf.file)
        /\ FileRun(input, wbuf.file, 1)
    BY <1>1, <1>5 DEF WriteBuf, WriterState, WriterRun
  <2>3. c \in Seq(Cell) /\ Chunk(input, c) /\ wbuf.file # << >>
    BY <2>2 DEF FileRun
  <2>4. LastRow(c) <= Flushed(wbuf)
    <3>1. rbuf.next <= Len(wbuf.file) /\ Len(wbuf.file) \in 1..Len(wbuf.file)
      BY <2>2
    <3>. QED
      BY <1>1, <2>2, <2>3, <3>1, LastRowsRise DEF Flushed, FileEnd
  <2>. HIDE DEF c
  <2>5. Len(c) \in Nat \ {0} /\ LastRow(c) \in Nat
    <3>1. Len(c) \in Nat \ {0} /\ LastRow(c) \in 1..Len(input)
      BY <1>1, <2>3, BlockEnds DEF Chunk
    <3>2. Len(input) \in Nat
      BY <1>1
    <3>. QED
      BY <3>1, <3>2
  <2>6. Len(received) <= LastRow(c)
    <3>1. CASE rbuf.offset # rbuf.chunk_size
      <4>. DEFINE p == rbuf.offset + 1
      <4>1. p \in 1..Len(c) /\ Len(c) \in 1..Len(c) /\ p <= Len(c)
        BY <1>1, <2>1, <2>5, <3>1
      <4>2. c[p].row = Len(received) + 1
        BY <2>1, <3>1
      <4>. HIDE DEF p
      <4>3. c[p].row <= LastRow(c)
        BY <1>1, <2>3, <4>1, RowsRise DEF LastRow, Chunk
      <4>. QED
        BY <1>2, <2>5, <4>2, <4>3
    <3>2. CASE rbuf.offset = rbuf.chunk_size
      BY <2>1, <2>5, <3>2
    <3>. QED
      BY <3>1, <3>2
  <2>. QED
    BY <1>1, <1>2, <2>4, <2>5, <2>6 DEF ReceivedBound
<1>. QED
  BY <1>1, <1>3, <1>4, <1>5

\* Every step of the stream is a step of the channel, or changes nothing of it.
LEMMA NextIsChannelNext ==
    ASSUME IInv, IInv', [Next]_vars
    PROVE  [Channel!Next]_(Channel!vars)
<1>1. ReceivedBound
  BY ReceivedWasFlushed
<1>2. ReceivedBound'
  BY ReceivedWasFlushed, PTL
<1>3. CASE DumpRow
  <2>1. wpc = "dump" /\ UNCHANGED <<wpc, rpc, received>> /\ dumped' = dumped + 1
    BY <1>3 DEF DumpRow, Writing
  <2>2. Channel!Accept
    BY <2>1 DEF Channel!Accept
  <2>. QED
    BY <2>2 DEF Channel!Next
<1>4. CASE DumpFatal \/ Kill
  <2>1. /\ wpc = "dump" /\ wpc' \in {"fatal", "killed"}
        /\ UNCHANGED <<rpc, received, dumped>>
    BY <1>4 DEF DumpFatal, Kill, Writing
  <2>2. Flushed(wbuf') \in Len(received)..dumped
    BY <1>1, <1>2, <2>1 DEF ReceivedBound
  <2>3. Channel!Cut
    BY <2>1, <2>2 DEF Channel!Cut
  <2>. QED
    BY <2>3 DEF Channel!Next
<1>5. CASE DumpFlush
  <2>1. wpc = "dump" /\ wpc' = "done" /\ UNCHANGED <<dumped, rpc, received>>
    BY <1>5 DEF DumpFlush
  <2>2. Channel!Close
    BY <2>1 DEF Channel!Close
  <2>. QED
    BY <2>2 DEF Channel!Next
<1>6. CASE Load
  <2>. DEFINE l == LoadNext(rbuf, input, wbuf.file)
  <2>1. /\ rpc = "load" /\ ~Blocked /\ UNCHANGED <<dumped, wbuf, wpc>>
        /\ rpc' = (IF l.outcome = "row" THEN "load" ELSE l.outcome)
        /\ received' = (IF l.outcome = "row" THEN Append(received, l.row) ELSE received)
    BY <1>6 DEF Load
  <2>. HIDE DEF l
  <2>2. /\ received \in Seq(Nat) /\ rpc' \in {"load", "stop"} /\ InOrder' /\ received' \in Seq(Nat)
        /\ rpc' = "stop" => wpc' # "dump" /\ Len(received') = Flushed(wbuf')
        /\ wpc \in {"dump", "done", "fatal", "killed"}
        /\ wpc = "done" => Flushed(wbuf) = dumped
    <3>1. wpc = "done" => Flushed(wbuf) = dumped
      BY DEF IInv, WriterInv, WriterState, WriterRun, Flushed
    <3>. QED
      BY <3>1 DEF IInv, TypeOK, ReaderInv
  <2>3. CASE rpc' = "load"
    <3>1. received' = Append(received, l.row) \/ received' = received
      BY <2>1
    <3>2. CASE received' = received
      BY <2>1, <2>3, <3>2 DEF Channel!vars
    <3>3. CASE received' # received
      <4>. DEFINE n == Len(received)
      <4>1. received' = Append(received, l.row) /\ n \in Nat
        BY <2>2, <3>1, <3>3
      <4>2. Len(received') = n + 1 /\ received'[n + 1] = l.row
        BY <2>2, <4>1
      <4>3. l.row = n + 1
        BY <4>1, <4>2, <2>2 DEF InOrder
      <4>4. n < Flushed(wbuf) /\ n < dumped
        BY <1>2, <2>1, <4>1, <4>2 DEF ReceivedBound
      <4>5. Channel!Deliver
        BY <2>1, <2>3, <4>1, <4>3, <4>4 DEF Channel!Deliver
      <4>. QED
        BY <4>5 DEF Channel!Next
    <3>. QED
      BY <3>2, <3>3
  <2>4. CASE rpc' = "stop"
    <3>1. received' = received /\ wpc # "dump" /\ Len(received) = Flushed(wbuf)
      BY <2>1, <2>2, <2>4
    <3>2. Channel!End
      BY <2>1, <2>2, <2>4, <3>1 DEF Channel!End
    <3>. QED
      BY <3>2 DEF Channel!Next
  <2>. QED
    BY <2>2, <2>3, <2>4
<1>7. CASE UNCHANGED vars \/ Terminated
  BY <1>7 DEF vars, Terminated, Channel!vars
<1>. QED
  BY <1>3, <1>4, <1>5, <1>6, <1>7 DEF Next

(***************************************************************************)
(* The stream implements the channel of rows: whatever the writer and the  *)
(* reader do, what one hands over the other gets, in order, and a writer   *)
(* that dies takes away rows from the end only, which were not read.       *)
(***************************************************************************)
THEOREM StreamIsChannel == Spec => ImplementsChannel
<1>1. Init => Channel!Init
  BY DEF Init, Channel!Init, WbufInit
<1>2. IInv /\ IInv' /\ [Next]_vars => [Channel!Next]_(Channel!vars)
  BY NextIsChannelNext
<1>. QED
  BY <1>1, <1>2, Invariance, PTL DEF Spec, ImplementsChannel, Channel!Spec
=============================================================================
