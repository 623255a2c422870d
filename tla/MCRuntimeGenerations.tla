--------------------------- MODULE MCRuntimeGenerations -------------------------
(* Small instances of RuntimeGenerations for TLC. *)
EXTENDS RuntimeGenerations
=============================================================================
