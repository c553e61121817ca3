------------------------------ MODULE BsvFiles ------------------------------
(***************************************************************************)
(* The programs that write or read several files: bunzip, a file for each  *)
(* column, which bzip puts together again and bcat prints one by one, and  *)
(* bpartition, a file for each bucket, to which a later run appends.  Those*)
(* that write files may be killed at any time; they lose what they had     *)
(* buffered, and may leave a chunk short that they were writing.  The files*)
(* are chunks of bytes, written and read by the operators of BsvWrite and  *)
(* BsvRead; in the file of a column, row i is the i-th value of it.        *)
(***************************************************************************)
EXTENDS BsvRawRow, SequencesExt

CONSTANT
    Inputs      \* sets of programs with their arguments and of tables to read

\* A row of one column of this size.
OneColumn(size) == [max |-> 0, data |-> size + 1, widest |-> size]

Fits(r) == r \in Row /\ RowSize(r) <= BUFFER_SIZE

(***************************************************************************)
(* What is asked of a program p and a table t.  The runs of bpartition end *)
(* at rows p.ends of the input.  A row was read from a chunk, so it fits a *)
(* buffer; those of bunzip are given by the sizes of their columns, each of*)
(* which then fits too, and an empty one stands where a row has none.      *)
(***************************************************************************)
Given(p, t) ==
    /\ p.name \in {"bunzip", "bpartition"}
    /\ p.files \in Nat \ {0}
    /\ p.ends \in Seq(Nat) /\ p.ends # << >> /\ p.ends[Len(p.ends)] = Len(t)
    /\ \A a, b \in 1..Len(p.ends) : a <= b => p.ends[a] <= p.ends[b]
    /\ p.name = "bunzip" =>
         /\ Len(p.ends) = 1
         /\ p.then \in {"zip", "cat"}
         /\ p.selected \in Seq(1..p.files) /\ p.selected # << >>
         /\ p.then = "cat" => p.head \in Nat
         /\ t \in Seq(Seq(Nat))
         /\ Fits(OneColumn(0))
         /\ \A i \in 1..Len(t) : \A f \in 1..Len(t[i]) : Fits(OneColumn(t[i][f]))
    /\ p.name = "bpartition" =>
         /\ t \in Seq(Row)
         /\ \A i \in 1..Len(t) : Fits(t[i]) /\ t[i].hash \in Nat

ASSUME FilesAssumption == \A in \in Inputs : \A p \in in.programs, t \in in.tables : Given(p, t)

VARIABLES
    program,    \* the name of the program and its arguments
    rows,       \* the rows on its input; for bpartition, on those of all its runs
    run,        \* the current run of bpartition; 1 for bunzip
    at,         \* the row being dealt with; bcat: line
    j,          \* the column or file being dealt with
    wbufs,      \* the write buffer and the contents of each file
    torn,       \* for each file << >>, or <<n, r>> if run r left a short chunk after n
    exists,     \* the files there are
    whole,      \* the runs that went through (history)
    rbufs,      \* bzip, bcat: the read buffer of each file
    out,        \* bzip: the rows dumped; bcat: the lines; bpartition: the files listed
    pc          \* "open", "rows", "remove", "zip", "cat", "done" or "died" (exit(1) of
                \* bzip or bcat)

input == <<program, rows>>
vars == <<program, rows, run, at, j, wbufs, torn, exists, whole, rbufs, out, pc>>

Init ==
    /\ \E in \in Inputs : program \in in.programs /\ rows \in in.tables
    /\ run = 1 /\ at = 1 /\ j = 1
    /\ wbufs = [f \in 1..program.files |-> WbufInit]
    /\ torn = [f \in 1..program.files |-> << >>]
    /\ exists = {}
    /\ whole = {}
    /\ rbufs = [f \in 1..program.files |-> RbufInit]
    /\ out = << >>
    /\ pc = "open"

\* The last row of the current run.
End == program.ends[run]

(***************************************************************************)
(* The program that wrote the files has ended.  bunzip is followed by bzip *)
(* or bcat, and bpartition, if there are rows left, by its next run.       *)
(***************************************************************************)
EndRun ==
    /\ at' = (IF program.name = "bunzip" THEN 1 ELSE End + 1) /\ j' = 1
    /\ IF program.name = "bunzip" THEN pc' = program.then /\ UNCHANGED run
       ELSE IF run < Len(program.ends) THEN run' = run + 1 /\ pc' = "open"
       ELSE pc' = "done" /\ UNCHANGED run

Lose == wbufs' = [f \in DOMAIN wbufs |-> [wbufs[f] EXCEPT !.buffer = << >>]]

Kill ==
    /\ pc \in {"rows", "remove"}
    /\ Lose /\ EndRun
    /\ UNCHANGED <<input, torn, exists, whole, rbufs, out>>

-----------------------------------------------------------------------------
(***************************************************************************)
(* bunzip.  A row of its input is the sizes of its columns.                *)
(***************************************************************************)
ColumnRow(i, f) == OneColumn(IF f <= Len(rows[i]) THEN rows[i][f] ELSE 0)
ColumnTable(f) == [i \in 1..Len(rows) |-> ColumnRow(i, f)]

\* Without a first row there are no files.
UnzipOpen ==
    /\ program.name = "bunzip" /\ pc = "open"
    /\ IF rows = << >> THEN pc' = "done" /\ UNCHANGED exists
       ELSE pc' = "rows" /\ exists' = 1..program.files
    /\ UNCHANGED <<input, run, at, j, wbufs, torn, whole, rbufs, out>>

Unzips == program.name = "bunzip" /\ pc = "rows" /\ at <= End
Unzipped == [wbufs EXCEPT ![j] = Dump(@, at, ColumnRow(at, j))]

UnzipColumn ==
    /\ Unzips /\ Len(rows[at]) = program.files
    /\ wbufs' = Unzipped
    /\ IF j < program.files THEN j' = j + 1 /\ UNCHANGED at ELSE j' = 1 /\ at' = at + 1
    /\ UNCHANGED <<input, run, torn, exists, whole, rbufs, out, pc>>

UnzipBadRow ==
    /\ Unzips /\ Len(rows[at]) # program.files
    /\ Lose /\ EndRun
    /\ UNCHANGED <<input, torn, exists, whole, rbufs, out>>

-----------------------------------------------------------------------------
(***************************************************************************)
(* bzip, with a selection of the columns.                                  *)
(***************************************************************************)
Selected == program.selected

\* Mutant: a column may be selected again later.
DupeAllowed == \E a \in 2..Len(Selected) : Selected[a] = Selected[a - 1]

Dupe == \E a, b \in 1..Len(Selected) : a # b /\ Selected[a] = Selected[b]

ZipDupe ==
    /\ pc = "zip" /\ Dupe
    /\ pc' = "died"
    /\ UNCHANGED <<input, run, at, j, wbufs, torn, exists, whole, rbufs, out>>

\* load_next(), which exits when it comes to a short chunk.
LoadColumn(rbuf, f) ==
    LET load == LoadNext(rbuf, ColumnTable(f), wbufs[f].file)
        short == load.outcome = "stop" /\ torn[f] # << >>
    IN  [load EXCEPT !.outcome = IF short THEN "fatal" ELSE @]

(***************************************************************************)
(* A round of the loop: load_next() of each file selected, one after the   *)
(* other.  new.columns points into the read buffers, and what it points to *)
(* is copied when all have been loaded.                                    *)
(***************************************************************************)
LoadFrom(f, before) ==
    LET got == LoadColumn(before.rbufs[f], f)
    IN  [rbufs |-> [before.rbufs EXCEPT ![f] = got.rbuf], got |-> Append(before.got, got)]

Loads ==
    LET after[n \in 0..Len(Selected)] ==
            IF n = 0 THEN [rbufs |-> rbufs, got |-> << >>] ELSE LoadFrom(Selected[n], after[n - 1])
    IN  after[Len(Selected)]

Shown(loads) ==
    [n \in 1..Len(Selected) |->
        LET p == loads.got[n].rbuf.at + 1
            buffer == loads.rbufs[Selected[n]].buffer
        IN  IF p <= Len(buffer) THEN buffer[p].row ELSE 0]

Got(loads) == {loads.got[n].outcome : n \in 1..Len(Selected)}

\* row.max is set by the first row that is loaded, and read before that if
\* the first file has none.
MaxUnset(loads) == out = << >> /\ loads.got[1].outcome = "stop"

ZipRow ==
    /\ pc = "zip" /\ ~Dupe
    /\ \E loads \in {Loads} :
         /\ Got(loads) = {"row"}
         /\ out' = Append(out, Shown(loads))
         /\ rbufs' = loads.rbufs
    /\ UNCHANGED <<input, run, at, j, wbufs, torn, exists, whole, pc>>

\* Mutant: the end of one file is enough.
ZipStopAny ==
    /\ pc = "zip" /\ ~Dupe
    /\ \E loads \in {Loads} :
         /\ Got(loads) # {"row"}
         /\ rbufs' = loads.rbufs
         /\ pc' = "done"
    /\ UNCHANGED <<input, run, at, j, wbufs, torn, exists, whole, out>>

ZipStop ==
    /\ pc = "zip" /\ ~Dupe
    /\ \E loads \in {Loads} :
         /\ Got(loads) # {"row"}
         /\ rbufs' = loads.rbufs
         /\ pc' \in (IF MaxUnset(loads) THEN {"died"} ELSE {})
                    \union {IF Got(loads) = {"stop"} THEN "done" ELSE "died"}
    /\ UNCHANGED <<input, run, at, j, wbufs, torn, exists, whole, out>>

-----------------------------------------------------------------------------
(***************************************************************************)
(* bcat of the files selected, with --head unless program.head is 0.  It   *)
(* has a file more than once open if it is named more than once.           *)
(***************************************************************************)
Cats == pc = "cat" /\ j <= Len(Selected)
CatLoad == LoadColumn(rbufs[Selected[j]], Selected[j])
HeadReached == program.head # 0 /\ at > program.head

\* Mutant: the row that follows the head is printed.
CatRowMore ==
    /\ Cats /\ CatLoad.outcome = "row" /\ ~(program.head # 0 /\ at > program.head + 1)
    /\ out' = Append(out, <<j, CatLoad.row>>)
    /\ rbufs' = [rbufs EXCEPT ![Selected[j]] = CatLoad.rbuf]
    /\ at' = at + 1
    /\ UNCHANGED <<input, run, j, wbufs, torn, exists, whole, pc>>

CatRow ==
    /\ Cats /\ CatLoad.outcome = "row" /\ ~HeadReached
    /\ out' = Append(out, <<j, CatLoad.row>>)
    /\ rbufs' = [rbufs EXCEPT ![Selected[j]] = CatLoad.rbuf]
    /\ at' = at + 1
    /\ UNCHANGED <<input, run, j, wbufs, torn, exists, whole, pc>>

\* The end of a file, or a row after the head.
CatNextFile ==
    /\ Cats
    /\ CatLoad.outcome = "stop" \/ (CatLoad.outcome = "row" /\ HeadReached)
    /\ rbufs' = [rbufs EXCEPT ![Selected[j]] = RbufInit]
    /\ j' = j + 1 /\ at' = 1
    /\ UNCHANGED <<input, run, wbufs, torn, exists, whole, out, pc>>

CatDies ==
    /\ Cats /\ CatLoad.outcome = "fatal"
    /\ pc' = "died"
    /\ UNCHANGED <<input, run, at, j, wbufs, torn, exists, whole, rbufs, out>>

\* Without rows, an empty line is printed.
CatEnd ==
    /\ pc = "cat" /\ j > Len(Selected)
    /\ out' = IF out = << >> THEN <<<<0, 0>>>> ELSE out
    /\ pc' = "done"
    /\ UNCHANGED <<input, run, at, j, wbufs, torn, exists, whole, rbufs>>

-----------------------------------------------------------------------------
(***************************************************************************)
(* bpartition.  A row has the hash of its first column.  With one bucket,  *)
(* the chunks of the input are copied as they are.                         *)
(***************************************************************************)
BucketOf(i) == 1 + (rows[i].hash % program.files)

PartitionOpen ==
    /\ program.name = "bpartition" /\ pc = "open"
    /\ pc' = "rows" /\ exists' = 1..program.files
    /\ UNCHANGED <<input, run, at, j, wbufs, torn, whole, rbufs, out>>

Partitions == program.name = "bpartition" /\ pc = "rows" /\ at <= End

\* The chunks of the input from row at on, which one program wrote.
InputChunks ==
    LET dumped[i \in at - 1..End] ==
            IF i < at THEN WbufInit ELSE Dump(dumped[i - 1], i, rows[i])
    IN  WriteFlush(dumped[End]).file

Partitioned ==
    IF program.files = 1 THEN [wbufs EXCEPT ![1].file = Append(@, InputChunks[1])]
    ELSE [wbufs EXCEPT ![BucketOf(at)] = Dump(@, at, rows[at])]

PartitionRow ==
    /\ Partitions /\ program.files > 1
    /\ wbufs' = Partitioned
    /\ at' = at + 1
    /\ UNCHANGED <<input, run, j, torn, exists, whole, rbufs, out, pc>>

PartitionChunk ==
    /\ Partitions /\ program.files = 1
    /\ wbufs' = Partitioned
    /\ at' = LastRow(InputChunks[1]) + 1
    /\ UNCHANGED <<input, run, j, torn, exists, whole, rbufs, out, pc>>

(***************************************************************************)
(* dump_flush() and fclose() of one file after the other.                  *)
(***************************************************************************)
Flushes == pc = "rows" /\ at > End
Closed == [wbufs EXCEPT ![j] = WriteFlush(@)]

FlushFile ==
    /\ Flushes
    /\ wbufs' = Closed
    /\ IF j < program.files THEN j' = j + 1 /\ UNCHANGED <<run, at, whole, pc>>
       ELSE /\ whole' = whole \union {run}
            /\ IF program.name = "bunzip" THEN EndRun
               ELSE pc' = "remove" /\ j' = 1 /\ UNCHANGED <<run, at>>
    /\ UNCHANGED <<input, torn, exists, rbufs, out>>

(***************************************************************************)
(* The program is killed when it has written a part of a chunk to file f,  *)
(* the size, say, and not the body.                                        *)
(***************************************************************************)
Writes(f) ==
    \/ Unzips /\ Len(rows[at]) = program.files /\ Unzipped[f].file # wbufs[f].file
    \/ Partitions /\ Partitioned[f].file # wbufs[f].file
    \/ Flushes /\ Closed[f].file # wbufs[f].file

KillWriting ==
    /\ \E f \in 1..program.files :
         /\ Writes(f)
         /\ torn' = [torn EXCEPT ![f] = IF @ = << >> THEN <<Len(wbufs[f].file), run>> ELSE @]
    /\ Lose /\ EndRun
    /\ UNCHANGED <<input, exists, whole, rbufs, out>>

\* Mutant: a file is deleted when this run wrote nothing to it.
RemoveUnused ==
    /\ pc = "remove"
    /\ LET used == \E i \in 1..End : (run > 1 => i > program.ends[run - 1]) /\ BucketOf(i) = j
       IN  IF used THEN out' = Append(out, <<run, j>>) /\ UNCHANGED <<wbufs, exists>>
           ELSE /\ exists' = exists \ {j} /\ UNCHANGED out
                /\ wbufs' = [wbufs EXCEPT ![j] = WbufInit]
    /\ torn' = [torn EXCEPT ![j] = IF j \in exists' THEN @ ELSE << >>]
    /\ IF j < program.files THEN j' = j + 1 /\ UNCHANGED <<run, at, pc>> ELSE EndRun
    /\ UNCHANGED <<input, whole, rbufs>>

\* An empty file is deleted, another one is listed.
RemoveEmpty ==
    /\ pc = "remove"
    /\ IF wbufs[j].file = << >> /\ torn[j] = << >> THEN exists' = exists \ {j} /\ UNCHANGED out
       ELSE out' = Append(out, <<run, j>>) /\ UNCHANGED exists
    /\ IF j < program.files THEN j' = j + 1 /\ UNCHANGED <<run, at, pc>> ELSE EndRun
    /\ UNCHANGED <<input, wbufs, torn, whole, rbufs>>

Terminated == pc \in {"done", "died"} /\ UNCHANGED vars

Next ==
    \/ UnzipOpen \/ UnzipColumn \/ UnzipBadRow
    \/ ZipDupe \/ ZipRow \/ ZipStop
    \/ CatRow \/ CatNextFile \/ CatDies \/ CatEnd
    \/ PartitionOpen \/ PartitionRow \/ PartitionChunk \/ RemoveEmpty
    \/ FlushFile \/ Kill \/ KillWriting \/ Terminated

Spec == Init /\ [][Next]_vars

-----------------------------------------------------------------------------
Zips == program.name = "bunzip" /\ program.then = "zip"

(***************************************************************************)
(* Whatever became of bunzip, a row that bzip writes has columns of one    *)
(* row of the table, and the rows come in their order, from the first.     *)
(***************************************************************************)
ZipsWholeRows ==
    Zips =>
        \A n \in 1..Len(out) : out[n] = [i \in 1..Len(Selected) |-> n]

\* The rows in the chunks of a file, and how many file f has.
RowsOfFile(file) == RowsOut([buffer |-> << >>, file |-> file])
RowsIn(f) == Len(RowsOfFile(wbufs[f].file))

(***************************************************************************)
(* bzip inverts bunzip: if that went through, all the rows come out.  If   *)
(* it did not, bzip fails unless the files have the same number of rows    *)
(* and end with a whole chunk, and it fails for no other reason but a      *)
(* column selected twice, or a first file without rows.                    *)
(***************************************************************************)
ZipInvertsUnzip ==
    Zips =>
    /\ pc = "done" /\ rows # << >> =>
         \A n \in 1..Len(Selected) : RowsIn(Selected[n]) = Len(out) /\ torn[Selected[n]] = << >>
    /\ pc = "done" /\ whole # {} => Len(out) = Len(rows)
    /\ pc = "died" =>
         \/ Dupe
         \/ RowsIn(Selected[1]) = 0
         \/ \E n \in 1..Len(Selected) : \/ RowsIn(Selected[n]) # RowsIn(Selected[1])
                                        \/ torn[Selected[n]] # << >>
    /\ pc = "died" /\ whole # {} => Dupe

\* What bcat prints of the n-th file selected, and of the first k files.
Printed(n) ==
    LET all == RowsIn(Selected[n]) IN
    IF program.head = 0 \/ all < program.head THEN all ELSE program.head
Text(k) == FlattenSeq([n \in 1..k |-> [i \in 1..Printed(n) |-> <<n, i>>]])

\* It comes to a short chunk of that file.
Fatal(n) ==
    torn[Selected[n]] # << >> /\ (program.head = 0 \/ RowsIn(Selected[n]) <= program.head)

(***************************************************************************)
(* bcat prints the first rows of each file in turn, as many as --head says,*)
(* or an empty line if that is none.  It exits only for a short chunk, and *)
(* then for one right behind the head too, as it loads a row more.         *)
(***************************************************************************)
CatsHeads ==
    program.name = "bunzip" /\ program.then = "cat" =>
    LET text == Text(Len(Selected))
    IN  /\ pc = "cat" => IsPrefix(out, text)
        /\ pc = "done" /\ rows # << >> =>
             /\ out = IF text = << >> THEN <<<<0, 0>>>> ELSE text
             /\ \A n \in 1..Len(Selected) : ~Fatal(n)
        /\ pc = "died" => Fatal(j) /\ IsPrefix(out, text)

\* What can be read of a file: the chunks up to a short one, which takes in
\* a part of the chunks appended after it.
Readable(f) ==
    IF torn[f] = << >> THEN wbufs[f].file ELSE SubSeq(wbufs[f].file, 1, torn[f][1])

RunOf(i) == CHOOSE r \in 1..Len(program.ends) :
                i <= program.ends[r] /\ (r > 1 => i > program.ends[r - 1])

\* A run killed while it wrote to file f spoils it for the rows of later runs.
Spoilt(f, i) == torn[f] # << >> /\ torn[f][2] <= RunOf(i)

(***************************************************************************)
(* bpartition: the rows of a file are whole, in the order of the input,    *)
(* and those of its bucket, and no row is missing that was in a run that   *)
(* went through: later runs, killed ones too, do not touch earlier rows.   *)
(* Only a run killed while it writes to a file spoils it, for the rows of  *)
(* later runs.  The files that were listed are there, and not empty.       *)
(***************************************************************************)
PartitionKeepsRows ==
    program.name = "bpartition" =>
    /\ \A n \in 1..Len(out) :
         out[n][2] \in exists /\ (wbufs[out[n][2]].file # << >> \/ torn[out[n][2]] # << >>)
    /\ \A f \in 1..program.files :
        LET file == Readable(f)
            kept == RowsOfFile(file)
        IN  /\ \A c \in 1..Len(file) : WholeRows(rows, file[c])
            /\ \A n \in 1..Len(kept) : BucketOf(kept[n]) = f
            /\ \A n \in 1..Len(kept) - 1 : kept[n] < kept[n + 1]
            /\ \A i \in 1..Len(rows) : BucketOf(i) = f /\ RunOf(i) \in whole /\ ~Spoilt(f, i) =>
                   \E n \in 1..Len(kept) : kept[n] = i

-----------------------------------------------------------------------------
(***************************************************************************)
(* What holds at every step, and these properties rest on.  The files of   *)
(* bunzip hold the first rows of their columns: while it runs, those it has*)
(* dumped, and then those in the chunks it wrote.                          *)
(***************************************************************************)
Files == 1..program.files

TypeOK ==
    /\ Given(program, rows)
    /\ run \in 1..Len(program.ends) /\ at \in Nat \ {0} /\ j \in Nat \ {0}
    /\ wbufs \in [Files -> WriteBuf]
    /\ torn \in [Files -> Seq(Nat)]
    /\ \A f \in Files : torn[f] # << >> =>
         torn[f][1] \in 0..Len(wbufs[f].file) /\ torn[f][2] \in 1..run
    /\ exists \subseteq Files
    /\ whole \subseteq 1..run
    /\ rbufs \in [Files -> ReadBuf]

RowCount(f) == FileEnd(wbufs[f].file, 1)

Dumped(f) == IF at <= End /\ f < j THEN at ELSE at - 1

WritingInv ==
    /\ at <= End + 1 /\ j <= program.files
    /\ \A f \in Files : /\ WriterRun(ColumnTable(f), wbufs[f], 1, Dumped(f))
                        /\ at > End /\ f < j => wbufs[f].buffer = << >>

WrittenInv ==
    \A f \in Files : /\ wbufs[f].buffer = << >>
                     /\ RowCount(f) \in 0..Len(rows)
                     /\ HoldsRows(ColumnTable(f), wbufs[f].file, 1, RowCount(f))

UnzipInv ==
    /\ pc \in {"open", "rows", "done", "died", program.then}
    /\ rows = << >> => pc \in {"open", "done"} /\ out = << >>
    /\ pc \in {"open", "rows"} =>
         /\ out = << >> /\ whole = {}
         /\ \A f \in Files : torn[f] = << >> /\ rbufs[f] = RbufInit
    /\ pc = "open" => at = 1 /\ j = 1 /\ \A f \in Files : RowCount(f) = 0
    /\ pc = "rows" => WritingInv
    /\ pc # "rows" => WrittenInv
    /\ whole # {} => \A f \in Files : torn[f] = << >> /\ RowCount(f) = Len(rows)

\* n rows of file f were read through rb.
ReadUpTo(rb, f, n) ==
    LET file == wbufs[f].file
    IN  /\ n \in 0..RowCount(f)
        /\ ~rb.dead /\ rb.next \in 0..Len(file)
        /\ rb.next # 0 => rb.buffer = file[rb.next]
        /\ UpcomingTo(ColumnTable(f), file, rb, RowCount(f), n + 1)

ZipInv ==
    program.then = "zip" =>
    /\ out \in Seq(Seq(Nat)) /\ ZipsWholeRows /\ ZipInvertsUnzip
    /\ pc = "zip" /\ ~Dupe => \A f \in ToSet(Selected) : ReadUpTo(rbufs[f], f, Len(out))

CatInv ==
    program.then = "cat" =>
    /\ CatsHeads
    /\ pc = "cat" =>
         /\ j <= Len(Selected) + 1
         /\ out = Text(j - 1) \o [i \in 1..at - 1 |-> <<j, i>>]
         /\ \A n \in 1..j - 1 : ~Fatal(n)
         /\ \A f \in Files : (j <= Len(Selected) => f # Selected[j]) => rbufs[f] = RbufInit
         /\ IF j > Len(Selected) THEN at = 1
            ELSE ReadUpTo(rbufs[Selected[j]], Selected[j], at - 1) /\ at - 1 <= Printed(j)

\* The rows that the runs of bpartition before this one read.
Before == IF run = 1 THEN 0 ELSE program.ends[run - 1]

\* What was dumped to file f: whole rows of its bucket, none beyond row n, in
\* the order of the input.
InOrder(w, f, n) ==
    LET s == RowsOut(w) IN
    /\ WholeOutput(rows, w)
    /\ \A k \in 1..Len(s) : s[k] \in 1..n /\ BucketOf(s[k]) = f
    /\ \A k \in 1..Len(s) - 1 : s[k] < s[k + 1]

\* Row i was dumped, and it can be read.
IsDumped(i) == i \in ToSet(RowsOut(wbufs[BucketOf(i)]))
CanBeRead(i) == i \in ToSet(RowsOfFile(Readable(BucketOf(i))))

KeptInv ==
    /\ \A f \in Files : InOrder(wbufs[f], f, at - 1)
    /\ pc \in {"rows", "remove"} => \A i \in Before + 1..at - 1 : IsDumped(i)
    /\ \A i \in 1..Len(rows) : RunOf(i) \in whole /\ ~Spoilt(BucketOf(i), i) => CanBeRead(i)

\* The files that are listed stay; those not yet looked at are there.
Listing == Nat \X Files

ListedInv ==
    /\ out \in Seq(Listing)
    /\ \A n \in 1..Len(out) :
         LET f == out[n][2] IN f \in exists /\ (wbufs[f].file # << >> \/ torn[f] # << >>)
    /\ pc = "rows" => exists = Files
    /\ pc = "remove" => j..program.files \subseteq exists

PartitionInv ==
    /\ pc \in {"open", "rows", "remove", "done"}
    /\ at \in Before + 1..End + 1 /\ j \in Files
    /\ pc = "open" => at = Before + 1
    /\ pc \in {"remove", "done"} => at = End + 1
    /\ pc = "rows" /\ at <= End => j = 1
    /\ pc = "open" => j = 1
    /\ pc \in {"open", "rows"} => run \notin whole
    /\ pc # "done" => \A f \in Files : torn[f] # << >> => torn[f][2] < run
    /\ \A f \in Files :
         \/ pc # "rows" \/ program.files = 1 \/ (at > End /\ f < j) => wbufs[f].buffer = << >>
    /\ ListedInv
    /\ KeptInv

IInv ==
    /\ TypeOK
    /\ program.name = "bunzip" => UnzipInv /\ ZipInv /\ CatInv
    /\ program.name = "bpartition" => PartitionInv
=============================================================================
