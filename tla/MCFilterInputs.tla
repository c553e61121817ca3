--------------------------- MODULE MCFilterInputs ---------------------------
(***************************************************************************)
(* The programs, tables and hashes for the instances of BsvFilters.  A byte*)
(* of a number has 4 values there, i64 has two bytes (-8 to 7, or 0 to 15) *)
(* and i16 one (-2 to 1, or 0 to 3).                                       *)
(***************************************************************************)
EXTENDS BsvColumns

\* First columns: empty, text, and text or nothing with a zero byte in it.
Columns == {<< >>, <<1>>, <<1, 0>>, <<2>>, <<0, 1>>}
Order == SetToSeq(Columns)
Place(key) == SelectInSeq(Order, LAMBDA k : k = key)

\* No collision at first, every key in the same slot, and two clusters.
Hashes == {[k \in Columns |-> Place(k)], [k \in Columns |-> 7],
           [k \in Columns |-> 3 + 4 * (Place(k) % 2)]}
ZeroHash == [k \in Columns |-> 0]

\* The values of the rows are powers of two, so that each sum is of other rows.
Keyed == {[i \in 1..Len(keys) |-> <<keys[i], Encode(Long, 2 ^ (i - 1))>>] :
             keys \in BoundedSeq(Columns, 5)}

\* The third row has no second column, or one of the wrong size.
WithBadRow == {[t EXCEPT ![3] = <<@[1]>> \o bad] :
                  t \in {u \in Keyed : Len(u) = 4}, bad \in {<< >>, <<<<1>>>>}}

Streamers == {[name |-> "bsumeach", type |-> Long], [name |-> "bdedupe"], [name |-> "bcounteach"]}
Hashers == {[name |-> "bsumeach-hash", type |-> Long],
            [name |-> "bdedupe-hash"], [name |-> "bcounteach-hash"]}

Job(programs, tables) ==
    [programs |-> programs, tables |-> tables, hashes |-> {ZeroHash}, sizes |-> {<< >>}]

GroupJobs ==
    {[Job(Hashers, Keyed) EXCEPT !.hashes = Hashes], Job(Streamers, Keyed),
     Job({[name |-> "bsumeach", type |-> Long], [name |-> "bsumeach-hash", type |-> Long]},
         WithBadRow)}

-----------------------------------------------------------------------------
Ints == [size : 1..2, signed : BOOLEAN]

\* Texts: empty, not a number, numbers around every limit, a number and more.
Texts == {<< >>, <<97>>, <<49, 97>>} \union {Ascii(n) : n \in {-9, -8, -3, -2, 0, 1, 2, 4, 7, 15, 17}}
Binary == BoundedSeq(0..3, 2)

\* A first column of each kind, with and without a second and third one.
Two == [to |-> "SIZE", size |-> 2]
Conversions == {[to |-> "PASS"]} \union [to : {"SIZE", "HEAD", "TAIL"}, size : {1}]
                 \union [to : {"ASCII", "NUMBER"}, type : Ints]

SchemaRowsOf(to) ==
    LET firsts == CASE to = "ASCII" -> Binary
                    [] to = "NUMBER" -> Texts
                    [] OTHER -> {<< >>, <<1>>, <<1, 2>>, <<1, 2, 3>>}
        one == IF to = "NUMBER" THEN <<49>> ELSE <<1>>
    IN  {<<first, <<1, 2>>>> : first \in firsts}
          \union {<<one>>, <<one, <<1>>>>, <<one, <<1, 2>>, << >>>>}

SchemaJobs ==
    {Job({[name |-> "bschema", filtering |-> filter,
           schema |-> [columns |-> <<c, Two>>, exact |-> exact]] :
              filter \in BOOLEAN, exact \in BOOLEAN},
         BoundedSeq(SchemaRowsOf(c.to), 2)) : c \in Conversions}

\* Two columns that go through scratch, and one between them that does not.
Numbers == [to : {"ASCII", "NUMBER"},
            type : {[size |-> 1, signed |-> FALSE], [size |-> 2, signed |-> TRUE]}]
NumbersOf(c) ==
    IF c.to = "NUMBER" THEN {<<49>>, <<45, 50>>, <<97>>, <<57>>}
    ELSE {Encode(c.type, 1), Encode(c.type, 3)} \union {<<1, 1, 1>>}
ScratchJobs ==
    {Job({[name |-> "bschema", filtering |-> filter,
           schema |-> [columns |-> <<c, Two, d>>, exact |-> TRUE]] : filter \in BOOLEAN},
         BoundedSeq({<<x, y, z>> : x \in NumbersOf(c), y \in {<<1, 2>>, <<1>>}, z \in NumbersOf(d)}, 2)) :
         c \in Numbers, d \in Numbers}

Selections == {<<1>>, <<2, 1>>, <<1, 1>>, <<3>>}
Tables == BoundedSeq({<<<<1>>, << >>>>, <<<<1, 2>>, <<3>>>>, <<<<1>>, <<2>>, <<3>>>>}, 2)
CutJob == Job([name : {"bcut"}, selected : Selections], Tables)
CombineJob == [Job([name : {"bcombine"}, selected : Selections], Tables) EXCEPT
                  !.sizes = {[i \in 0..20 |-> n] : n \in {0, 2}}]

Lists == BoundedSeq({<<<<1>>>>, <<<<1, 0>>>>, <<<<3, 1>>>>, <<<<2>>, <<2>>>>}, 3)
OtherJob == Job({[name |-> "btake", value |-> <<1>>], [name |-> "bcountrows"],
                 [name |-> "bsum", type |-> [size |-> 1, signed |-> FALSE]]}, Lists)

MCInputs == GroupJobs \union SchemaJobs \union ScratchJobs
                \union {CutJob, CombineJob, OtherJob}
=============================================================================
