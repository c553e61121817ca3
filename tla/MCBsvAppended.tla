--------------------------- MODULE MCBsvAppended ---------------------------
(***************************************************************************)
(* The instance of BsvChunkTools whose input was written by two programs,  *)
(* one after the other, to one file: (bsv; bsv) > file, or bsv >> file, as *)
(* readme.md:230 does it, or bpartition, which opens its files with "ab".  *)
(***************************************************************************)
EXTENDS MCBsvChunkTools

MCAppended ==
    UNION {{[rows |-> s, file |-> Written(s, 1, k) \o Written(s, k + 1, Len(s))]
            : k \in 0..Len(s)} : s \in MCTables}
=============================================================================
