------------------------------- MODULE BsvCsv -------------------------------
(***************************************************************************)
(* Reading csv (util/csv.h): CSV_READ_LINE returns the next line of a file *)
(* as columns, which point into a buffer that unused bytes are rolled over *)
(* to the start of before more are read.  The variables are those of       *)
(* CSV_INIT, which outlive a call; pointers are indices into the buffer.   *)
(*                                                                         *)
(* A character is what it is to the parser, and where in the file it is,   *)
(* so that a line made of the wrong characters is seen to be.              *)
(***************************************************************************)
EXTENDS Integers, Sequences

CONSTANTS
    BUFFER_SIZE,    \* capacity of c_buffer
    MAX_COLUMNS,    \* most columns of a line
    Files           \* the files that may be read

Kind == {"char", "delimiter", "newline", "null", "space"}
Character == [kind : Kind, at : Nat]

ASSUME CsvAssumption ==
    /\ BUFFER_SIZE \in Nat \ {0} /\ MAX_COLUMNS \in Nat \ {0}
    /\ \A file \in Files : file \in Seq(Character)

VARIABLES
    whole,              \* the file
    file,               \* the characters of it that were not read
    c_handled,          \* the last character processed ended a line
    c_update_columns,   \* a line was returned: the next one starts afresh
    c_bytes_read,       \* the size of the last read
    c_char_index,       \* the next character to process
    c_offset,           \* where the last read put its characters
    c_buffer,
    c_next_column,      \* c_next_column[0]: where the next line starts
    csv_sizes,          \* csv_max + 1 numbers: the sizes of the columns
    csv_columns,        \* and where they start
    lines,              \* the lines that were returned
    pc                  \* "top", "chars", "eof", "done" (csv_stop), "fatal"

flags == <<c_handled, c_update_columns, c_next_column>>
reads == <<file, c_bytes_read, c_offset>>
columns == <<csv_sizes, csv_columns>>
vars == <<whole, flags, reads, columns, c_char_index, c_buffer, lines, pc>>

Init ==
    /\ whole \in Files
    /\ file = whole
    /\ c_handled = FALSE
    /\ c_update_columns = FALSE
    /\ c_bytes_read = 0
    /\ c_char_index = BUFFER_SIZE
    /\ c_offset = BUFFER_SIZE
    /\ c_buffer = [i \in 1..BUFFER_SIZE |-> [kind |-> "char", at |-> 0]]
    /\ c_next_column = 0
    /\ csv_sizes = <<0>>
    /\ csv_columns = <<0>>
    /\ lines = << >>
    /\ pc = "top"

-----------------------------------------------------------------------------
\* Every character read was processed.
Exhausted == c_char_index - c_offset = c_bytes_read

\* The line that the caller gets, and which is then no longer wanted.
Line == [i \in 1..Len(csv_sizes) |->
            SubSeq(c_buffer, csv_columns[i] + 1, csv_columns[i] + csv_sizes[i])]
Return == lines' = Append(lines, Line)

\* What an iteration starts with: the columns so far, or the next line's.
Sizes == IF c_update_columns THEN <<0>> ELSE csv_sizes

Columns == IF c_update_columns THEN <<c_next_column>> ELSE csv_columns

\* Where columns of these sizes are when the first is at the start of the
\* buffer, and the number of characters of an unfinished line.
Rolled(sizes) ==
    LET start[i \in 1..Len(sizes)] == IF i = 1 THEN 0 ELSE start[i - 1] + sizes[i - 1] + 1
    IN  start

Used(sizes) == Rolled(sizes)[Len(sizes)] + sizes[Len(sizes)]

\* There are characters to process.
Iterate ==
    /\ pc = "top" /\ ~Exhausted
    /\ csv_sizes' = Sizes
    /\ csv_columns' = Columns
    /\ c_update_columns' = FALSE
    /\ c_handled' = FALSE
    /\ pc' = "chars"
    /\ UNCHANGED <<whole, reads, c_char_index, c_buffer, c_next_column, lines>>

LineTooLong ==
    /\ pc = "top" /\ Exhausted /\ Used(Sizes) >= BUFFER_SIZE
    /\ pc' = "fatal"
    /\ UNCHANGED <<whole, flags, reads, columns, c_char_index, c_buffer, lines>>

\* Mutant: the characters rolled over are taken from the start of the buffer.
RefillInPlace(used, n) ==
    [i \in 1..BUFFER_SIZE |-> IF i <= used THEN c_buffer[i]
                              ELSE IF i <= used + n THEN file[i - used]
                              ELSE c_buffer[i]]

\* The buffer after used characters are moved to its start and n are read.
Refill(used, n) ==
    [i \in 1..BUFFER_SIZE |-> IF i <= used THEN c_buffer[Columns[1] + i]
                              ELSE IF i <= used + n THEN file[i - used]
                              ELSE c_buffer[i]]

\* There are none: the unfinished line is rolled over, and more are read.
Read ==
    /\ pc = "top" /\ Exhausted /\ Used(Sizes) < BUFFER_SIZE
    /\ LET used == Used(Sizes)
           room == BUFFER_SIZE - used
           n == IF Len(file) < room THEN Len(file) ELSE room
       IN  /\ c_buffer' = Refill(used, n)
           /\ file' = SubSeq(file, n + 1, Len(file))
           /\ c_bytes_read' = n
           /\ c_offset' = used
           /\ c_char_index' = used
           /\ c_handled' = (c_handled /\ n = 0)
           /\ pc' = IF n = 0 THEN "eof" ELSE "chars"
    /\ csv_sizes' = Sizes
    /\ csv_columns' = Rolled(Sizes)
    /\ c_update_columns' = FALSE
    /\ UNCHANGED <<whole, c_next_column, lines>>

\* Nothing was read.  A line that has no newline is returned first.
LastLine ==
    /\ pc = "eof" /\ ~c_handled
    /\ c_handled' = TRUE
    /\ Return
    /\ pc' = "top"
    /\ UNCHANGED <<whole, reads, columns, c_char_index, c_buffer, c_update_columns, c_next_column>>

Stop ==
    /\ pc = "eof" /\ c_handled
    /\ pc' = "done"
    /\ UNCHANGED <<whole, flags, reads, columns, c_char_index, c_buffer, lines>>

-----------------------------------------------------------------------------
\* The characters, one by one.
IsNext(kinds) ==
    pc = "chars" /\ ~Exhausted /\ c_buffer[c_char_index + 1].kind \in kinds

Grow == csv_sizes' = [csv_sizes EXCEPT ![Len(csv_sizes)] = @ + 1]

NextColumn ==
    /\ IsNext({"delimiter"}) /\ Len(csv_sizes) < MAX_COLUMNS
    /\ csv_sizes' = Append(csv_sizes, 0)
    /\ csv_columns' = Append(csv_columns, c_char_index + 1)
    /\ c_char_index' = c_char_index + 1
    /\ UNCHANGED <<whole, flags, reads, c_buffer, lines, pc>>

\* Mutant: a line of as many columns as there may be is one too many.
TooManyColumnsEarly ==
    /\ IsNext({"delimiter"}) /\ Len(csv_sizes) >= MAX_COLUMNS - 1
    /\ pc' = "fatal"
    /\ UNCHANGED <<whole, flags, reads, columns, c_char_index, c_buffer, lines>>

TooManyColumns ==
    /\ IsNext({"delimiter"}) /\ Len(csv_sizes) >= MAX_COLUMNS
    /\ pc' = "fatal"
    /\ UNCHANGED <<whole, flags, reads, columns, c_char_index, c_buffer, lines>>

\* A null byte becomes a space.
Null ==
    /\ IsNext({"null"})
    /\ c_buffer' = [c_buffer EXCEPT ![c_char_index + 1].kind = "space"]
    /\ Grow
    /\ c_char_index' = c_char_index + 1
    /\ UNCHANGED <<whole, flags, reads, csv_columns, lines, pc>>

\* Mutant: the flag that a line was handled is not set.
NewlineUnhandled ==
    /\ IsNext({"newline"})
    /\ c_update_columns' = TRUE
    /\ c_next_column' = c_char_index + 1
    /\ c_char_index' = c_char_index + 1
    /\ Return
    /\ pc' = "top"
    /\ UNCHANGED <<whole, reads, columns, c_buffer, c_handled>>

Newline ==
    /\ IsNext({"newline"})
    /\ c_update_columns' = TRUE
    /\ c_next_column' = c_char_index + 1
    /\ c_char_index' = c_char_index + 1
    /\ c_handled' = TRUE
    /\ Return
    /\ pc' = "top"
    /\ UNCHANGED <<whole, reads, columns, c_buffer>>

Normal ==
    /\ IsNext({"char", "space"})
    /\ Grow
    /\ c_char_index' = c_char_index + 1
    /\ UNCHANGED <<whole, flags, reads, csv_columns, c_buffer, lines, pc>>

OutOfCharacters ==
    /\ pc = "chars" /\ Exhausted
    /\ pc' = "top"
    /\ UNCHANGED <<whole, flags, reads, columns, c_char_index, c_buffer, lines>>

Terminated == pc \in {"done", "fatal"} /\ UNCHANGED vars

Step ==
    \/ Iterate \/ LineTooLong \/ Read \/ LastLine \/ Stop
    \/ NextColumn \/ TooManyColumns \/ Null \/ Newline \/ Normal \/ OutOfCharacters

Next == Step \/ Terminated

\* The parser runs on: fread() waits until it has what it was asked for, or
\* the file ends.
Spec == Init /\ [][Next]_vars /\ WF_vars(Step)

-----------------------------------------------------------------------------
(***************************************************************************)
(* The lines of a file, by their definition: a newline ends a line, the    *)
(* last line may do without, and a file that is empty has one empty line.  *)
(***************************************************************************)
EmptyLine == << << >> >>

ExtendLast(s, x) == [s EXCEPT ![Len(s)] = Append(@, x)]

AddChar(all, c) ==
    CASE c.kind = "newline" -> Append(all, EmptyLine)
      [] c.kind = "delimiter" -> [all EXCEPT ![Len(all)] = Append(@, << >>)]
      [] c.kind = "null" -> [all EXCEPT ![Len(all)] = ExtendLast(@, [c EXCEPT !.kind = "space"])]
      [] OTHER -> [all EXCEPT ![Len(all)] = ExtendLast(@, c)]

Lines(chars) ==
    LET upto[i \in 0..Len(chars)] ==
            IF i = 0 THEN <<EmptyLine>> ELSE AddChar(upto[i - 1], chars[i])
        all == upto[Len(chars)]
    IN  IF Len(all) > 1 /\ all[Len(all)] = EmptyLine THEN SubSeq(all, 1, Len(all) - 1) ELSE all

(***************************************************************************)
(* The lines that are returned are the lines of the file, from the first,  *)
(* each of the characters and columns it has there, wherever the reads     *)
(* have cut it.                                                            *)
(***************************************************************************)
LinesInOrder ==
    /\ Len(lines) <= Len(Lines(whole))
    /\ lines = SubSeq(Lines(whole), 1, Len(lines))

(***************************************************************************)
(* The parser gives up on a file at the first line that is too long for    *)
(* the buffer or has too many columns, and on no other line.               *)
(***************************************************************************)
Size(line) ==
    LET size[i \in 0..Len(line)] == IF i = 0 THEN -1 ELSE size[i - 1] + Len(line[i]) + 1
    IN  size[Len(line)]
Unfit(line) == Size(line) >= BUFFER_SIZE \/ Len(line) > MAX_COLUMNS

GivesUpRightly ==
    /\ \A k \in 1..Len(lines) : ~Unfit(lines[k])
    /\ pc = "fatal" => Unfit(Lines(whole)[Len(lines) + 1])

(***************************************************************************)
(* Every file is read to its end, and the end is noticed once: all lines   *)
(* have then been returned, and none twice.                                *)
(***************************************************************************)
ReadsToTheEnd == <>(pc = "fatal" \/ (pc = "done" /\ lines = Lines(whole)))
=============================================================================
