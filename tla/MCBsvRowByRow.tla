--------------------------- MODULE MCBsvRowByRow ----------------------------
(***************************************************************************)
(* The specifications of single programs that leave buffers and chunks to  *)
(* BsvStream and deal with rows one by one: BsvTopN, and BsvFilters as F.  *)
(* A behaviour is one of a single program; the variables of the other      *)
(* specification stay as they are.                                         *)
(*                                                                         *)
(* With a factor of 2 the heap of btopn is cut back at the third row       *)
(* (N = 1) or the fifth (N = 2), and again while the rest of seven rows is *)
(* loaded.                                                                 *)
(***************************************************************************)
EXTENDS BsvTopN, BsvMap, MCFilterInputs

VARIABLES program, rows, hash, sizes, scratch, read, held, total, map, dumped, state

F == INSTANCE BsvFilters WITH Inputs <- MCInputs, loaded <- read, out <- dumped, pc <- state

TopNInputs == BoundedSeq(1..3, 7)

filterVars == <<program, rows, hash, sizes, scratch, read, held, total, map, dumped, state>>

OnlyTopN ==
    /\ Init
    /\ program = [name |-> "btopn"]
    /\ rows = << >> /\ hash = << >> /\ sizes = << >> /\ scratch = << >> /\ read = 0
    /\ held = << >> /\ total = 0 /\ map = << >> /\ dumped = << >> /\ state = "done"

OnlyFilter ==
    /\ F!Init
    /\ keys = << >> /\ top_n = 0 /\ loaded = 0 /\ heap = << >> /\ out = << >> /\ pc = "done"

Step ==
    \/ Next /\ UNCHANGED filterVars
    \/ F!Next /\ UNCHANGED vars

OneProgram == (OnlyTopN \/ OnlyFilter) /\ [][Step]_<<vars, filterVars>>

-----------------------------------------------------------------------------
\* The programs that keep a map find every key in it, with its own value.
MapFindsKeys == F!MapFindsKeys

\* The hashed programs write one row for each different first column.
HashedGroups == F!HashedGroups

\* bdedupe, bcounteach and bsumeach write one row for each run of rows.
StreamedGroups == F!StreamedGroups

\* bschema keeps the good rows, and converts each column of them by itself.
SchemaConvertsAlone == F!SchemaConvertsAlone

\* What bschema wrote can be converted back.
ConvertsBack == F!ConvertsBack
=============================================================================
