----------------------------- MODULE MCEventJournal -----------------------------
(* Small instances of EventJournal for TLC. *)
EXTENDS EventJournal
=============================================================================
