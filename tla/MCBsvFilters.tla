---------------------------- MODULE MCBsvFilters ----------------------------
(***************************************************************************)
(* BsvFilters alone, for what its programs do not do as they are described.*)
(***************************************************************************)
EXTENDS BsvFilters, MCFilterInputs
=============================================================================
