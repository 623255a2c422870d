----------------------------- MODULE MCHostedSession ----------------------------
(* Small instances of HostedSession for TLC. *)
EXTENDS HostedSession, TLC

Symmetry == Permutations(Requesters) \cup Permutations(Interrupters)
=============================================================================
