----------------------------- MODULE BsvFilters -----------------------------
(***************************************************************************)
(* The programs that read rows from standard input one by one and keep no  *)
(* more of them than a group, a sum or a map of groups: bdedupe,           *)
(* bcounteach, bsumeach, the programs that do the same by hash, bcut,      *)
(* bcombine, bschema, btake, bsum and bcountrows.  One action is one round *)
(* of the main loop, from load_next() to dump(); how rows are read and     *)
(* written is the subject of BsvStream, so here rows come from a sequence  *)
(* and go to one.                                                          *)
(***************************************************************************)
EXTENDS BsvMap, BsvColumns, FiniteSetsExt

CONSTANT
    Inputs      \* programs with their arguments, the rows they may read, hashes of
                \* the first columns, and what row.sizes may hold at the start

VARIABLES
    program,    \* the name of the program and its arguments
    rows, hash, \* the input
    sizes,      \* row.sizes: for bcombine only, as the others use the sizes of the row
    scratch,    \* the bytes written to the scratch buffer of bschema
    loaded,     \* the number of rows loaded
    held,       \* buffer and size: the first column of the current group
    total,      \* count or sum
    map,        \* dupes, counts or sums
    out,        \* the rows dumped
    pc          \* "load", "done" or "died": exit(1) or killed by a signal

input == <<program, rows, hash>>
vars == <<program, rows, hash, sizes, scratch, loaded, held, total, map, out, pc>>

\* The buffer of the first group is zeroed in bdedupe, and memory that nobody
\* has used before in bcounteach and bsumeach: 5 MiB, which malloc() maps.
Init ==
    /\ \E in \in Inputs : /\ program \in in.programs /\ rows \in in.tables
                          /\ hash \in in.hashes /\ sizes \in in.sizes
    /\ scratch = << >>
    /\ loaded = 0
    /\ held = << >>
    /\ total = 0
    /\ map = MapAlloc
    /\ out = << >>
    /\ pc = "load"

Row == rows[loaded + 1]

Load(name) ==
    /\ program.name = name /\ pc = "load" /\ loaded < Len(rows)
    /\ loaded' = loaded + 1
    /\ UNCHANGED input

EndOfInput(names) ==
    /\ program.name \in names /\ pc = "load" /\ loaded = Len(rows)
    /\ pc' = "done"
    /\ UNCHANGED <<input, sizes, scratch, loaded, held, total, map>>

Dies == pc' = "died" /\ UNCHANGED <<sizes, scratch, held, total, map, out>>

-----------------------------------------------------------------------------
(***************************************************************************)
(* Programs that compare a row with the group before it, by strcmp().      *)
(***************************************************************************)
Str(column) ==
    LET end == SelectInSeq(column, LAMBDA byte : byte = 0)
    IN  IF end = 0 THEN column ELSE SubSeq(column, 1, end - 1)

SameGroup == Str(held) = Str(Row[1])

DedupeRow ==
    /\ Load("bdedupe")
    /\ IF SameGroup THEN UNCHANGED <<held, out>>
       ELSE held' = Row[1] /\ out' = Append(out, Row)
    /\ UNCHANGED <<sizes, scratch, total, map, pc>>

\* DUMP_COUNT and DUMP_SUMS: a group whose first column is empty is not dumped.
Group(type, n) == IF held = << >> THEN << >> ELSE <<<<held, Encode(type, n)>>>>

CountRow ==
    /\ Load("bcounteach")
    /\ IF SameGroup THEN total' = total + 1 /\ UNCHANGED <<held, out>>
       ELSE total' = 0 /\ held' = Row[1] /\ out' = out \o Group(Long, total + 1)
    /\ UNCHANGED <<sizes, scratch, map, pc>>

\* A sum of type type; it wraps around.
Sum(n, column) == Decode(program.type, Encode(program.type, n + Decode(program.type, column)))

NoNumber(i) == Len(Row) >= i => Len(Row[i]) # program.type.size

\* Mutant: the sum is not reset.
SumRowUnreset ==
    /\ Load("bsumeach") /\ ~NoNumber(2)
    /\ total' = Sum(total, Row[2])
    /\ IF SameGroup THEN UNCHANGED <<held, out>>
       ELSE held' = Row[1] /\ out' = out \o Group(program.type, total)
    /\ UNCHANGED <<sizes, scratch, map, pc>>

SumRow ==
    /\ Load("bsumeach") /\ ~NoNumber(2)
    /\ IF SameGroup THEN total' = Sum(total, Row[2]) /\ UNCHANGED <<held, out>>
       ELSE /\ total' = Sum(0, Row[2]) /\ held' = Row[1]
            /\ out' = out \o Group(program.type, total)
    /\ UNCHANGED <<sizes, scratch, map, pc>>

DumpLastGroup ==
    /\ EndOfInput({"bdedupe", "bcounteach", "bsumeach"})
    /\ out' = CASE program.name = "bdedupe" -> out
                [] program.name = "bcounteach" -> out \o Group(Long, total + 1)
                [] program.name = "bsumeach" -> out \o Group(program.type, total)

-----------------------------------------------------------------------------
(***************************************************************************)
(* Programs that keep a map of the groups.  When the key buffer is full,   *)
(* MAP_GROW_KEY_BUF reallocates a pointer that was never initialized: the  *)
(* program goes on, if the pointer happened to be NULL, or crashes.        *)
(***************************************************************************)
KeyBufferLost ==
    /\ \E name \in {"bdedupe-hash", "bcounteach-hash", "bsumeach-hash"} : Load(name)
    /\ KeyBufferFull(map, hash, Row[1])
    /\ Dies

DedupeHashRow ==
    /\ Load("bdedupe-hash")
    /\ \E set \in {SetIndex(map, hash, Row[1])} :
         IF set.values[set.index] = << >>
         THEN map' = [set EXCEPT !.values[set.index] = <<1>>] /\ out' = Append(out, Row)
         ELSE map' = set /\ UNCHANGED out
    /\ UNCHANGED <<sizes, scratch, held, total, pc>>

CountHashRow ==
    /\ Load("bcounteach-hash")
    /\ \E set \in {SetIndex(map, hash, Row[1])} :
         map' = [set EXCEPT !.values[set.index] = IF @ = << >> THEN <<1>> ELSE <<@[1] + 1>>]
    /\ UNCHANGED <<sizes, scratch, held, total, out, pc>>

SumHashRow ==
    /\ Load("bsumeach-hash") /\ ~NoNumber(2)
    /\ \E set \in {SetIndex(map, hash, Row[1])} :
         map' = [set EXCEPT !.values[set.index] =
                    <<Sum(IF @ = << >> THEN 0 ELSE @[1], Row[2])>>]
    /\ UNCHANGED <<sizes, scratch, held, total, out, pc>>

\* Mutant: the loop over the slots stops at the initial size.
DumpMapShort ==
    /\ EndOfInput({"bcounteach-hash", "bsumeach-hash"})
    /\ LET used == SelectSeq([i \in 1..MAP_SIZE |-> i - 1], LAMBDA i : map.keys[i] # << >>)
           type == IF program.name = "bcounteach-hash" THEN Long ELSE program.type
       IN  out' = [n \in 1..Len(used) |->
                      map.keys[used[n]] \o <<Encode(type, map.values[used[n]][1])>>]

\* The slots in use, in their order.
DumpMap ==
    /\ EndOfInput({"bcounteach-hash", "bsumeach-hash"})
    /\ LET used == SelectSeq([i \in 1..map.size |-> i - 1], LAMBDA i : map.keys[i] # << >>)
           type == IF program.name = "bcounteach-hash" THEN Long ELSE program.type
       IN  out' = [n \in 1..Len(used) |->
                      map.keys[used[n]] \o <<Encode(type, map.values[used[n]][1])>>]

-----------------------------------------------------------------------------
(***************************************************************************)
(* Programs whose output for a row depends on that row, and counters.      *)
(***************************************************************************)
Cut ==
    /\ Load("bcut") /\ ~Lacks(Row, program.selected)
    /\ out' = Append(out, CutRow(Row, program.selected))
    /\ UNCHANGED <<sizes, scratch, held, total, map, pc>>

Combine ==
    /\ Load("bcombine") /\ ~Lacks(Row, program.selected)
    /\ sizes' = SizesAfter(sizes, Row)
    /\ out' = Append(out, CombineRow(Row, sizes', program.selected))
    /\ UNCHANGED <<scratch, held, total, map, pc>>

LacksColumn ==
    /\ Load("bcut") \/ Load("bcombine")
    /\ Lacks(Row, program.selected)
    /\ Dies

Schema ==
    /\ Load("bschema")
    /\ LET outcome == SchemaOutcome(program.schema, program.filtering, Row)
           s == ConvertColumns(program.schema, Row, scratch)
       IN  /\ scratch' = IF outcome = "fatal" \/ WrongColumns(program.schema, Row)
                         THEN scratch ELSE s.scratch
           /\ out' = IF outcome = "row" THEN Append(out, SchemaRow(program.schema, Row, s)) ELSE out
           /\ pc' = IF outcome = "fatal" THEN "died" ELSE pc
    /\ UNCHANGED <<sizes, held, total, map>>

Take ==
    /\ Load("btake")
    /\ IF Str(Row[1]) = program.value THEN out' = Append(out, Row) /\ UNCHANGED pc
       ELSE pc' = "done" /\ UNCHANGED out
    /\ UNCHANGED <<sizes, scratch, held, total, map>>

CountOne ==
    /\ Load("bcountrows")
    /\ total' = total + 1
    /\ UNCHANGED <<sizes, scratch, held, map, out, pc>>

SumOne ==
    /\ Load("bsum") /\ ~NoNumber(1)
    /\ total' = Sum(total, Row[1])
    /\ UNCHANGED <<sizes, scratch, held, map, out, pc>>

\* The second column, or for bsum the first, is not a number of the type.
LacksNumber ==
    /\ \/ (Load("bsumeach") \/ Load("bsumeach-hash")) /\ NoNumber(2)
       \/ Load("bsum") /\ NoNumber(1)
    /\ Dies

DumpTotal ==
    /\ EndOfInput({"bcountrows", "bsum"})
    /\ out' = <<<<Encode(IF program.name = "bsum" THEN program.type ELSE Long, total)>>>>

Finish ==
    /\ EndOfInput({"bdedupe-hash", "bcut", "bcombine", "bschema", "btake"})
    /\ UNCHANGED out

Terminated == pc # "load" /\ UNCHANGED vars

Next ==
    \/ DedupeRow \/ CountRow \/ SumRow \/ DumpLastGroup
    \/ KeyBufferLost \/ DedupeHashRow \/ CountHashRow \/ SumHashRow \/ DumpMap
    \/ Cut \/ Combine \/ LacksColumn \/ Schema \/ Take
    \/ CountOne \/ SumOne \/ LacksNumber \/ DumpTotal
    \/ Finish \/ Terminated

Spec == Init /\ [][Next]_vars

-----------------------------------------------------------------------------
(***************************************************************************)
(* The value of a key in some lines, as its definition says: how many of   *)
(* them have it, or the sum of their second columns, wrapped around.       *)
(***************************************************************************)
ValueOf(key, lines) ==
    LET with == {i \in lines : rows[i][1] = key}
        sum == MapThenSumSet(LAMBDA i : Decode(program.type, rows[i][2]), with)
    IN  CASE program.name \in {"bdedupe", "bdedupe-hash"} -> 1
          [] program.name \in {"bcounteach", "bcounteach-hash"} -> Cardinality(with)
          [] OTHER -> Decode(program.type, Encode(program.type, sum))

Hashed == program.name \in {"bdedupe-hash", "bcounteach-hash", "bsumeach-hash"}
Streaming == program.name \in {"bdedupe", "bcounteach", "bsumeach"}
Keys(lines) == {rows[i][1] : i \in lines}
Lines == [i \in 1..Len(rows) |-> i]
TypeOfValue == IF "type" \in DOMAIN program THEN program.type ELSE Long
BadNumberAt(i) ==
    "type" \in DOMAIN program /\ (Len(rows[i]) < 2 \/ Len(rows[i][2]) # program.type.size)

(***************************************************************************)
(* Whatever collides, and through every growth: each key that came in has  *)
(* one slot, where probing finds it, with the value of the rows loaded so  *)
(* far, and probing ends, because half of the slots are free.              *)
(***************************************************************************)
MapFindsKeys ==
    Hashed /\ pc # "died" =>
        /\ map.used = Cardinality(Keys(1..loaded)) /\ 2 * map.used <= map.size
        /\ map.used = Cardinality({i \in Slots(map.size) : map.keys[i] # << >>})
        /\ \A key \in Keys(1..loaded) :
             LET at == FindIndex(map, hash, key) IN
             map.keys[at] = <<key>> /\ map.values[at] = <<ValueOf(key, 1..loaded)>>

(***************************************************************************)
(* The hashed programs write one row for each different first column, the  *)
(* empty one included, with its value; bdedupe-hash the first row of each, *)
(* in order.  They die only of a second column that is no number of the    *)
(* type, or when the first columns outgrow the key buffer.                 *)
(***************************************************************************)
HashedGroups ==
    Hashed =>
    /\ pc = "done" /\ program.name = "bdedupe-hash" =>
         LET first == SelectSeq(Lines, LAMBDA i : rows[i][1] \notin Keys(1..i - 1))
         IN  out = [n \in 1..Len(first) |-> rows[first[n]]]
    /\ pc = "done" /\ program.name # "bdedupe-hash" =>
         /\ Len(out) = Cardinality(Keys(1..Len(rows)))
         /\ \A key \in Keys(1..Len(rows)) : \E n \in 1..Len(out) :
              out[n] = <<key, Encode(TypeOfValue, ValueOf(key, 1..Len(rows)))>>
    /\ pc = "died" =>
         \/ BadNumberAt(loaded)
         \/ MapThenSumSet(LAMBDA key : Len(key), Keys(1..loaded)) > MAP_KEY_BUF_SIZE

(***************************************************************************)
(* The first lines of the runs of rows whose first columns strcmp() finds  *)
(* equal, and the lines of the run that starts at line i.                  *)
(***************************************************************************)
Starts == SelectSeq(Lines, LAMBDA i : i = 1 \/ Str(rows[i - 1][1]) # Str(rows[i][1]))
Run(i) == {j \in i..Len(rows) : \A k \in i..j : Str(rows[k][1]) = Str(rows[i][1])}

(***************************************************************************)
(* The other programs write one row for each run, in order: bdedupe its    *)
(* first row, the others its first column and how many rows it has, or the *)
(* sum of their second columns.  A run is left out only when it is the     *)
(* first of all and its column an empty string, or, but not by bdedupe,    *)
(* when the column is empty.                                               *)
(***************************************************************************)
StreamedGroups ==
    Streaming =>
    /\ pc = "died" => BadNumberAt(loaded)
    /\ pc = "done" =>
         LET lost(i) == \/ i = 1 /\ Str(rows[i][1]) = << >>
                        \/ program.name # "bdedupe" /\ rows[i][1] = << >>
             kept == SelectSeq(Starts, LAMBDA i : ~lost(i))
             sum(i) == MapThenSumSet(LAMBDA j : IF program.name = "bcounteach" THEN 1
                                                ELSE Decode(program.type, rows[j][2]), Run(i))
         IN  out = [n \in 1..Len(kept) |->
                       IF program.name = "bdedupe" THEN rows[kept[n]]
                       ELSE <<rows[kept[n]][1], Encode(TypeOfValue, sum(kept[n]))>>]

(***************************************************************************)
(* Every run has its row in the output, as the descriptions of the three   *)
(* programs say ("identical contiguous rows by the first column").  The    *)
(* code does not do this for empty columns.                                *)
(***************************************************************************)
KeepsEveryGroup == Streaming /\ pc = "done" => Len(out) = Len(Starts)

-----------------------------------------------------------------------------
(***************************************************************************)
(* A good row, and the bytes a column of one becomes: a definition for each*)
(* column alone, that knows no other column, no other row and no scratch.  *)
(***************************************************************************)
Good(row) ==
    /\ ~WrongColumns(program.schema, row)
    /\ \A i \in 1..Len(program.schema.columns) :
         LET c == program.schema.columns[i] IN
         ~Unfit(c, row[i]) /\ (c.to = "NUMBER" => ~NumberTooLarge(c.type, row[i]))

Convert(c, column) ==
    CASE c.to \in {"PASS", "SIZE"} -> column
      [] c.to = "HEAD" -> SubSeq(column, 1, c.size)
      [] c.to = "TAIL" -> SubSeq(column, Len(column) - c.size + 1, Len(column))
      [] OTHER -> Number(c, column)

GoodRows(lines) ==
    LET good == SelectSeq(lines, Good)
    IN  [n \in 1..Len(good) |->
            [i \in 1..Len(program.schema.columns) |->
                Convert(program.schema.columns[i], good[n][i])]]

(***************************************************************************)
(* bschema writes the good rows, in order, and each of their columns as if *)
(* it were the only one: neither the other columns that were converted in  *)
(* the same scratch buffer nor what the rows before left there, removed    *)
(* ones included, shows in it.  It exits at no good row, and without       *)
(* --filter at the first bad one.                                          *)
(***************************************************************************)
SchemaConvertsAlone ==
    program.name = "bschema" =>
    /\ out = GoodRows(SubSeq(rows, 1, loaded))
    /\ pc = "died" => ~Good(rows[loaded])
    /\ ~program.filtering =>
         \A i \in 1..loaded : ~Good(rows[i]) => pc = "died" /\ i = loaded

(***************************************************************************)
(* bschema --filter writes all good rows of its input, whatever the others *)
(* are, as its description says ("remove bad rows instead of erroring").   *)
(* The code exits for a row that is bad because of a number.               *)
(***************************************************************************)
FilterRemovesBadRows ==
    program.name = "bschema" /\ program.filtering /\ pc # "load" => out = GoodRows(rows)

(***************************************************************************)
(* What bschema writes can be converted back: a number that became text    *)
(* becomes the same number, and a text that is the usual one of a number   *)
(* becomes the same text.  The least and the greatest number that          *)
(* strtol() or strtoul() can return are written, but not read back.        *)
(***************************************************************************)
ConvertsBack ==
    program.name = "bschema" =>
    LET good == SelectSeq(SubSeq(rows, 1, loaded), Good)
        columns == program.schema.columns
    IN  \A n \in 1..Len(out), i \in 1..Len(columns) :
          LET was == good[n][i]
              is == out[n][i]
              t == columns[i].type
              limits == IF t.size < LONG_SIZE THEN {}
                        ELSE {MaxOf(t)} \union (IF t.signed THEN {MinOf(t)} ELSE {})
          IN  CASE columns[i].to \in {"PASS", "SIZE"} -> is = was
                [] columns[i].to = "HEAD" -> Len(is) = columns[i].size /\ IsPrefix(is, was)
                [] columns[i].to = "TAIL" -> Len(is) = columns[i].size /\ IsSuffix(is, was)
                [] columns[i].to = "ASCII" ->
                     IF Decode(t, was) \in limits THEN NumberTooLarge(t, is)
                     ELSE ~NumberTooLarge(t, is) /\ Convert([to |-> "NUMBER", type |-> t], is) = was
                [] columns[i].to = "NUMBER" ->
                     (\E m \in MinOf(t)..MaxOf(t) : was = Ascii(m)) =>
                        ~Unfit([to |-> "ASCII", type |-> t], is)
                          /\ Convert([to |-> "ASCII", type |-> t], is) = was

(***************************************************************************)
(* The column that bcombine prepends is the values of the columns it was   *)
(* given, as its description says ("prepend a new column by combining      *)
(* values from existing columns"), with a colon between them.  The code    *)
(* takes their sizes from the wrong place.                                 *)
(***************************************************************************)
CombinesColumns ==
    program.name = "bcombine" =>
        \A n \in 1..Len(out) :
            out[n][1] = FoldLeftDomain(LAMBDA all, i :
                            all \o (IF i = 1 THEN << >> ELSE <<Colon>>)
                                \o rows[n][program.selected[i]], << >>, program.selected)
=============================================================================
