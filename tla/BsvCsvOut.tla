------------------------------ MODULE BsvCsvOut ------------------------------
(***************************************************************************)
(* bsv | csv (src/bsv.c, src/csv.c): the lines that CSV_READ_LINE returns  *)
(* become rows, and the rows text again, which csv writes through the      *)
(* buffer of util/write_simple.h, a chunk of text at a time.  csv reads    *)
(* when bsv has ended: the stream between them is the subject of BsvStream.*)
(***************************************************************************)
EXTENDS BsvCsv, SequencesExt

VARIABLES
    arrived,    \* how many of the rows csv gets
    printed,    \* how many it has printed
    wbuf,       \* the buffer, and the text written
    cpc         \* csv: "start", "rows", "done"

outVars == <<arrived, printed, wbuf, cpc>>
allVars == <<vars, outVars>>

\* The lines that bsv dumps: those that are not empty.
Rows == SelectSeq(lines, LAMBDA line : Len(line) > 1 \/ Len(line[1]) > 0)

SimpleInit == [buffer |-> << >>, written |-> << >>]

OutInit ==
    /\ Init
    /\ arrived = 0 /\ printed = 0
    /\ wbuf = SimpleInit
    /\ cpc = "start"

\* Mutant: the offset is not reset.
SimpleFlushKept(w) == [w EXCEPT !.written = @ \o w.buffer]

\* write_flush() and write_bytes(); no column is larger than the buffer.
SimpleFlush(w) == [buffer |-> << >>, written |-> w.written \o w.buffer]

SimpleWrite(w, bytes) ==
    LET room == IF Len(bytes) > BUFFER_SIZE - Len(w.buffer) THEN SimpleFlush(w) ELSE w
    IN  [room EXCEPT !.buffer = @ \o bytes]

Mark(kind) == <<[kind |-> kind, at |-> 0]>>

CsvRow(w, row) ==
    LET text == FoldLeftDomain(LAMBDA v, i :
            IF i = Len(row) THEN SimpleWrite(v, row[i])
            ELSE SimpleWrite(SimpleWrite(v, row[i]), Mark("delimiter")), w, row)
    IN  SimpleWrite(text, Mark("newline"))

\* bsv has ended.  One that died, in dump() say, has written some of its rows.
Start ==
    /\ cpc = "start" /\ pc \in {"done", "fatal"}
    /\ arrived' \in 0..Len(Rows)
    /\ cpc' = "rows"
    /\ UNCHANGED <<vars, printed, wbuf>>

PrintRow ==
    /\ cpc = "rows" /\ printed < arrived
    /\ wbuf' = CsvRow(wbuf, Rows[printed + 1])
    /\ printed' = printed + 1
    /\ UNCHANGED <<vars, arrived, cpc>>

\* Without rows the text is an empty line.
PrintEnd ==
    /\ cpc = "rows" /\ printed = arrived
    /\ wbuf' = SimpleFlush(IF printed = 0 THEN SimpleWrite(wbuf, Mark("newline")) ELSE wbuf)
    /\ cpc' = "done"
    /\ UNCHANGED <<vars, arrived, printed>>

OutTerminated == cpc = "done" /\ UNCHANGED allVars

OutNext ==
    \/ Step /\ UNCHANGED outVars
    \/ Start \/ PrintRow \/ PrintEnd
    \/ OutTerminated

\* Both run on; see Spec in BsvCsv.
OutSpec == OutInit /\ [][OutNext]_allVars /\ WF_allVars(Step /\ UNCHANGED outVars)

-----------------------------------------------------------------------------
\* The text that should come out: a newline that ends an empty line is left
\* out, one is added at the end if it is not there, null bytes are spaces.
Kept ==
    LET Ends(i) == whole[i].kind = "newline"
        stays == SelectSeq([i \in 1..Len(whole) |-> i],
                           LAMBDA i : ~Ends(i) \/ (i > 1 /\ ~Ends(i - 1)))
        text == [n \in 1..Len(stays) |->
                    CASE whole[stays[n]].kind = "null" -> [whole[stays[n]] EXCEPT !.kind = "space"]
                      [] whole[stays[n]].kind \in {"newline", "delimiter"} ->
                            [whole[stays[n]] EXCEPT !.at = 0]
                      [] OTHER -> whole[stays[n]]]
    IN  IF text # << >> /\ Last(text).kind = "newline" THEN text ELSE text \o Mark("newline")

(***************************************************************************)
(* bsv | csv gives a file back, but for its empty lines (bsv.c:27), and    *)
(* with a newline at its end: every character once and in its place,       *)
(* wherever the buffers of the two cut the text.  If bsv dies, or csv is   *)
(* killed, what was written is the text up to there.                       *)
(***************************************************************************)
RoundTrip ==
    /\ arrived > 0 => IsPrefix(wbuf.written \o wbuf.buffer, Kept)
    /\ cpc = "done" /\ pc = "done" /\ arrived = Len(Rows) => wbuf.written = Kept
    /\ cpc = "done" /\ arrived = 0 => wbuf.written = Mark("newline")
=============================================================================
