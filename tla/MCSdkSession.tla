----------------------------- MODULE MCSdkSession -----------------------------
(* Small instances of SdkSession for TLC. *)
EXTENDS SdkInterrupts, TLC
=============================================================================
