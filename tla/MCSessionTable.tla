----------------------------- MODULE MCSessionTable -----------------------------
(* Small instances of SessionTable for TLC. *)
EXTENDS SessionTable
=============================================================================
