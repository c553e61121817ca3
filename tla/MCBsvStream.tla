---------------------------- MODULE MCBsvStream -----------------------------
(***************************************************************************)
(* A small instance of BsvStream.  Four of the smallest rows fill a buffer *)
(* of 20 bytes exactly, Exact fills it alone, and each of the last three   *)
(* rows makes another assertion of dump() fail.                            *)
(***************************************************************************)
EXTENDS BsvStream, SequencesExt

Small   == [max |-> 0, data |-> 1, widest |-> 0]    \*  5 bytes
Medium  == [max |-> 0, data |-> 4, widest |-> 3]    \*  8 bytes
Exact   == [max |-> 4, data |-> 8, widest |-> 3]    \* 20 bytes
TooBig  == [max |-> 4, data |-> 9, widest |-> 3]    \* 21 bytes
TooMany == [max |-> 5, data |-> 6, widest |-> 0]    \* 20 bytes, 6 columns
TooWide == [max |-> 0, data |-> 5, widest |-> 4]    \*  9 bytes

MCRow == {Small, Medium, Exact, TooBig, TooMany, TooWide}

MCInputs ==
    BoundedSeq({Small, Medium, Exact}, 5) \union
    {Append(s, r) : s \in BoundedSeq({Small, Medium, Exact}, 3),
                    r \in {TooBig, TooMany, TooWide}}
=============================================================================
