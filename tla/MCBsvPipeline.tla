--------------------------- MODULE MCBsvPipeline ---------------------------
(***************************************************************************)
(* Three programs, chunks of two rows, pipes that hold less than a chunk:  *)
(* the constants in MCBsvPipeline.cfg.                                     *)
(***************************************************************************)
EXTENDS BsvPipeline
=============================================================================
