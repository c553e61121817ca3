----------------------------- MODULE LeastHead ------------------------------
(***************************************************************************)
(* What merging promises: there is a queue for each file, and as long as   *)
(* one of them is not empty, a first element of least rank is moved to the *)
(* output.  An element is a row number and its rank.                       *)
(***************************************************************************)
EXTENDS Integers, Sequences

Element == [row : Nat, rank : Int]

VARIABLES
    queue,      \* for each file the elements of it that are left
    out         \* the elements moved to the output

vars == <<queue, out>>

Init ==
    /\ queue \in [DOMAIN queue -> Seq(Element)]
    /\ out = << >>

Take(q) ==
    /\ queue[q] # << >>
    /\ \A p \in DOMAIN queue :
         queue[p] # << >> => queue[q][1].rank <= queue[p][1].rank
    /\ queue' = [queue EXCEPT ![q] = Tail(@)]
    /\ out' = Append(out, queue[q][1])

Next == \E q \in DOMAIN queue : Take(q)

Spec == Init /\ [][Next]_vars

\* And it goes on as long as it can.
FairSpec == Spec /\ WF_vars(Next)
=============================================================================
