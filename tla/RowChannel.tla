----------------------------- MODULE RowChannel -----------------------------
(***************************************************************************)
(* What a bsv stream promises the programs at its two ends: a first-in     *)
(* first-out channel of rows.  Rows are numbered in the order the writer   *)
(* hands them over.  The reader gets each row once, in that order, and is  *)
(* told that the stream ended only when it has every row.  A writer that   *)
(* exits before it closes the stream loses rows from its end only.         *)
(***************************************************************************)
EXTENDS Naturals, Sequences

VARIABLES
    accepted,   \* how many rows the channel holds or has delivered
    delivered,  \* the numbers of the rows delivered
    state,      \* "open", "closed" by the writer, or "cut" by its death
    ended       \* the reader has seen the end of the stream

vars == <<accepted, delivered, state, ended>>

TypeOK ==
    /\ accepted \in Nat
    /\ delivered \in Seq(Nat)
    /\ state \in {"open", "closed", "cut"}
    /\ ended \in BOOLEAN

Init == accepted = 0 /\ delivered = << >> /\ state = "open" /\ ended = FALSE

Accept ==
    /\ state = "open"
    /\ accepted' = accepted + 1
    /\ UNCHANGED <<delivered, state, ended>>

Close ==
    /\ state = "open"
    /\ state' = "closed"
    /\ UNCHANGED <<accepted, delivered, ended>>

Cut ==
    /\ state = "open"
    /\ state' = "cut"
    /\ accepted' \in Len(delivered)..accepted
    /\ UNCHANGED <<delivered, ended>>

Deliver ==
    /\ Len(delivered) < accepted
    /\ delivered' = Append(delivered, Len(delivered) + 1)
    /\ UNCHANGED <<accepted, state, ended>>

End ==
    /\ state # "open"
    /\ Len(delivered) = accepted
    /\ ended' = TRUE
    /\ UNCHANGED <<accepted, delivered, state>>

Next == Accept \/ Close \/ Cut \/ Deliver \/ End

Spec == Init /\ [][Next]_vars
=============================================================================
