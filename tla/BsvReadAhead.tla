---------------------------- MODULE BsvReadAhead ----------------------------
(***************************************************************************)
(* Reading chunk by chunk (util/read_ahead.h), as operators over the state *)
(* of one readbuf_t and one readaheadbuf_t:                                *)
(*   rb               the read buffer, see BsvRead                         *)
(*   cap              the bytes allocated for its buffer                   *)
(*   last_buffer, last_chunk_size, last_cap                                *)
(*                    the other buffer: the chunk before the one in rb     *)
(*   has_nexted       as in the code                                       *)
(* The code allocates BUFFER_SIZE bytes for each buffer, and never checks  *)
(* a read against any other number.                                        *)
(***************************************************************************)
EXTENDS BsvRead

ReadAheadBuf == [rb : ReadBuf, cap : Nat, last_buffer : Seq(Cell),
                 last_chunk_size : Int, last_cap : Nat, has_nexted : BOOLEAN]

\* last_chunk_size is not initialized: it may hold any number.
RabufInit(garbage) ==
    [rb |-> RbufInit, cap |-> BUFFER_SIZE, last_buffer |-> << >>,
     last_chunk_size |-> garbage, last_cap |-> BUFFER_SIZE, has_nexted |-> FALSE]

\* The two buffers change places; the offset stays.
Swap(ra) ==
    [ra EXCEPT !.rb = [@ EXCEPT !.buffer = ra.last_buffer, !.chunk_size = ra.last_chunk_size],
               !.last_buffer = ra.rb.buffer, !.last_chunk_size = ra.rb.chunk_size,
               !.cap = ra.last_cap, !.last_cap = ra.cap]

SetOffset(ra, offset) == [ra EXCEPT !.rb = [@ EXCEPT !.offset = offset]]

\* Mutant: the offset is set before the buffers change places.
GotoNextChunkUnswapped(ra) ==
    [SetOffset(Swap(ra), ra.rb.chunk_size) EXCEPT !.has_nexted = TRUE]

\* The chunk held becomes the last one, and the next read fetches another.
GotoNextChunk(ra) ==
    LET s == Swap(ra) IN
    [SetOffset(s, s.rb.chunk_size) EXCEPT !.has_nexted = TRUE]

\* The buffer is reallocated, and holds size bytes.
Realloc(ra, cap, size, bytes) ==
    [ra EXCEPT !.cap = cap, !.rb = [@ EXCEPT !.chunk_size = size, !.buffer = bytes]]

\* What the buffer holds and, after it, what the other one does.
Joined(ra) == SubSeq(ra.rb.buffer, 1, ra.rb.chunk_size)
              \o SubSeq(ra.last_buffer, 1, ra.last_chunk_size)

\* Mutant: the buffer is reallocated to the size of the last chunk alone.
JoinLastShort(ra) ==
    Realloc(ra, ra.rb.chunk_size, ra.rb.chunk_size + ra.last_chunk_size, Joined(ra))

JoinLast(ra) ==
    LET size == ra.rb.chunk_size + ra.last_chunk_size IN Realloc(ra, size, size, Joined(ra))

\* Back to the start of the last chunk, which is followed by the one just read.
GotoLastChunk(ra) ==
    IF ra.has_nexted THEN JoinLast(Swap(SetOffset(ra, 0))) ELSE SetOffset(ra, 0)
=============================================================================
