----------------------------- MODULE BsvColumns -----------------------------
(***************************************************************************)
(* What bcut, bcombine and bschema do to one row.  A column is the sequence*)
(* of its bytes, a row the sequence of its columns; load_next() and dump() *)
(* are the subject of BsvStream.  Characters are their ASCII codes.        *)
(***************************************************************************)
EXTENDS Integers, Sequences, SequencesExt

CONSTANTS
    BYTE,       \* how many values a byte of a number has: 256 in the code
    LONG_SIZE   \* sizeof(i64): 8 in the code

ASSUME ColumnsAssumption == BYTE \in Nat \ {0, 1} /\ LONG_SIZE \in Nat \ {0}

(***************************************************************************)
(* Numbers.  A type is its size in bytes and whether it is signed; a number*)
(* is stored with its lowest byte first, negative ones modulo 2^bits.      *)
(***************************************************************************)
Long == [size |-> LONG_SIZE, signed |-> TRUE]
Values(t) == BYTE ^ t.size
MinOf(t) == IF t.signed THEN -(Values(t) \div 2) ELSE 0
MaxOf(t) == IF t.signed THEN Values(t) \div 2 - 1 ELSE Values(t) - 1

Encode(t, n) == [k \in 1..t.size |-> (n \div BYTE ^ (k - 1)) % BYTE]
Decode(t, column) ==
    LET n == FoldLeftDomain(LAMBDA sum, k : sum + column[k] * BYTE ^ (k - 1), 0, column)
    IN  IF n > MaxOf(t) THEN n - Values(t) ELSE n

(***************************************************************************)
(* Text.  strtol() and strtoul() read the digits a text starts with, and   *)
(* return the limit of the type when they are too many.                    *)
(***************************************************************************)
Minus == 45
Digit == 48..57

Ascii(n) ==
    LET digits[m \in Nat] == IF m < 10 THEN <<48 + m>>
                             ELSE Append(digits[m \div 10], 48 + (m % 10))
    IN  IF n < 0 THEN <<Minus>> \o digits[-n] ELSE digits[n]

Natural(text) ==
    LET end == SelectInSeq(text, LAMBDA c : c \notin Digit)
        digits == IF end = 0 THEN text ELSE SubSeq(text, 1, end - 1)
    IN  FoldLeft(LAMBDA n, c : 10 * n + c - 48, 0, digits)

Strtol(t, text) ==
    LET long == [t EXCEPT !.size = LONG_SIZE]
        n == IF text # << >> /\ text[1] = Minus THEN -Natural(Tail(text)) ELSE Natural(text)
    IN  IF n > MaxOf(long) THEN MaxOf(long) ELSE IF n < MinOf(long) THEN MinOf(long) ELSE n

\* A_TO_L and A_TO_UL: the limits of strtol() itself are refused, because
\* they are also what it returns for what does not fit.  An unsigned text may
\* not come before "0" in strcmp().
NumberTooLarge(t, text) ==
    LET long == [t EXCEPT !.size = LONG_SIZE] IN
    \/ Strtol(t, text) >= MaxOf(long) \/ Strtol(t, text) > MaxOf(t)
    \/ t.signed /\ (Strtol(t, text) <= MinOf(long) \/ Strtol(t, text) < MinOf(t))
    \/ ~t.signed /\ (text = << >> \/ text[1] < 48)

-----------------------------------------------------------------------------
(***************************************************************************)
(* bschema.  A schema is the conversion of each column, and whether a row  *)
(* may have no other columns.  FILTERING_ASSERT, here Unfit, drops the row *)
(* or exits, depending on --filter; an ASSERT, here NumberTooLarge, exits. *)
(***************************************************************************)
Unfit(c, column) ==
    CASE c.to = "SIZE" -> Len(column) # c.size
      [] c.to \in {"HEAD", "TAIL"} -> Len(column) < c.size
      [] c.to = "ASCII" -> Len(column) # c.type.size
      [] OTHER -> FALSE

WrongColumns(schema, row) ==
    IF schema.exact THEN Len(row) # Len(schema.columns) ELSE Len(row) < Len(schema.columns)

SchemaOutcome(schema, filtering, row) ==
    LET columns == 1..Len(schema.columns)
        Fails(i) == schema.columns[i].to = "NUMBER" /\ NumberTooLarge(schema.columns[i].type, row[i])
        bad == IF filtering THEN "filtered" ELSE "fatal"
    IN  IF WrongColumns(schema, row) THEN bad
        ELSE IF \E i \in columns : Fails(i) THEN "fatal"
        ELSE IF \E i \in columns : Unfit(schema.columns[i], row[i]) THEN bad
        ELSE "row"

(***************************************************************************)
(* The loop over the columns of a row.  A column is a pointer, into the row*)
(* as it was loaded or into scratch, and a size.  N_TO_A and A_TO_* write  *)
(* to scratch, behind what other columns of the row wrote there and over   *)
(* what earlier rows left; the bytes are read only by dump(), after the    *)
(* last column.  The text of an unfit column is one of memory behind it:   *)
(* Garbage, of any length, as its row is not dumped.                       *)
(***************************************************************************)
Garbage == -1

Number(c, column) ==
    IF c.to = "ASCII" THEN Ascii(Decode(c.type, column))
    ELSE Encode(c.type, Strtol(c.type, column))

Overwrite(scratch, at, bytes) ==
    SubSeq(scratch, 1, at) \o bytes \o SubSeq(scratch, at + Len(bytes) + 1, Len(scratch))

Loaded(row, scratch) ==
    [scratch |-> scratch, offset |-> 0,
     columns |-> [i \in 1..Len(row) |-> [of |-> "row", at |-> 0, size |-> Len(row[i])]]]

\* Mutant: scratch_offset is not advanced.
PutInScratchStays(s, i, bytes, zero) ==
    [scratch |-> Overwrite(s.scratch, s.offset, bytes \o zero),
     offset |-> s.offset,
     columns |-> [s.columns EXCEPT ![i] = [of |-> "scratch", at |-> s.offset, size |-> Len(bytes)]]]

PutInScratch(s, i, bytes, zero) ==
    [scratch |-> Overwrite(s.scratch, s.offset, bytes \o zero),
     offset |-> s.offset + Len(bytes),
     columns |-> [s.columns EXCEPT ![i] = [of |-> "scratch", at |-> s.offset, size |-> Len(bytes)]]]

\* Mutant: the size of a column that is cut to its head is kept.
CutInRowHeadKept(c, pointer) ==
    CASE c.to \in {"PASS", "SIZE", "HEAD"} -> pointer
      [] c.to = "TAIL" -> [pointer EXCEPT !.at = pointer.size - c.size, !.size = c.size]

CutInRow(c, pointer) ==
    CASE c.to \in {"PASS", "SIZE"} -> pointer
      [] c.to = "HEAD" -> [pointer EXCEPT !.size = c.size]
      [] c.to = "TAIL" -> [pointer EXCEPT !.at = pointer.size - c.size, !.size = c.size]

ConvertColumn(s, i, c, column) ==
    IF c.to \in {"ASCII", "NUMBER"}
    THEN PutInScratch(s, i, IF Unfit(c, column) THEN <<Garbage>> ELSE Number(c, column),
                      IF c.to = "ASCII" THEN <<0>> ELSE << >>)
    ELSE [s EXCEPT !.columns[i] = CutInRow(c, @)]

ConvertColumns(schema, row, scratch) ==
    FoldLeftDomain(LAMBDA s, i : ConvertColumn(s, i, schema.columns[i], row[i]),
                   Loaded(row, scratch), schema.columns)

\* What dump() finds behind the pointers.
SchemaRow(schema, row, s) ==
    [i \in 1..Len(schema.columns) |->
        LET column == s.columns[i]
            memory == IF column.of = "scratch" THEN s.scratch ELSE row[i]
        IN  SubSeq(memory, column.at + 1, column.at + column.size)]

-----------------------------------------------------------------------------
\* bcut and bcombine exit when a column they are asked for is not there.
Lacks(row, selected) == \E i \in 1..Len(selected) : selected[i] > Len(row)

CutRow(row, selected) == [i \in 1..Len(selected) |-> row[selected[i]]]

(***************************************************************************)
(* bcombine copies from row.columns[index] as many bytes as                *)
(* row.sizes[size] says, where size is the length of what it has copied so *)
(* far.  sizes has the sizes of this row, then those that an earlier row   *)
(* left there; a column is followed by its zero and the columns after it,  *)
(* and the last one by bytes that are not of the row: Garbage.             *)
(***************************************************************************)
Colon == 58

Memory(row, i, n) ==
    LET bytes == FoldLeft(LAMBDA all, column : all \o column \o <<0>>, << >>,
                          SubSeq(row, i, Len(row)))
    IN  [k \in 1..n |-> IF k <= Len(bytes) THEN bytes[k] ELSE Garbage]

SizesAfter(sizes, row) ==
    [i \in DOMAIN sizes |-> IF i < Len(row) THEN Len(row[i + 1]) ELSE sizes[i]]

Combined(row, sizes, selected) ==
    FoldLeftDomain(LAMBDA buffer, i :
        buffer \o Memory(row, selected[i], sizes[Len(buffer)])
               \o (IF i < Len(selected) THEN <<Colon>> ELSE << >>), << >>, selected)

CombineRow(row, sizes, selected) == <<Combined(row, sizes, selected)>> \o row
=============================================================================
