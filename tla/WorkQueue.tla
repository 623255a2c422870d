-------------------------------- MODULE WorkQueue -------------------------------
(***************************************************************************)
(* What a hosted session promises about the work its clients hand it: the  *)
(* items are numbered as they are accepted, done one at a time in that     *)
(* order, each at most once, and once the session refuses work (closed or  *)
(* poisoned) it refuses for good and starts nothing more.                  *)
(* HostedSession.tla implements it.                                        *)
(***************************************************************************)
EXTENDS Naturals

VARIABLES accepted,  \* items accepted so far
          taken,     \* the item started last
          done,      \* the item finished last
          refusing   \* the session is closed or poisoned

qvars == <<accepted, taken, done, refusing>>

QInit == accepted = 0 /\ taken = 0 /\ done = 0 /\ refusing = FALSE

Accept ==
  /\ ~refusing
  /\ accepted' = accepted + 1
  /\ UNCHANGED <<taken, done, refusing>>

Take ==
  /\ ~refusing
  /\ taken = done /\ taken < accepted
  /\ taken' = taken + 1
  /\ UNCHANGED <<accepted, done, refusing>>

(* A Run that poisons the session ends its queue in the same step.          *)
Finish ==
  /\ taken = done + 1
  /\ done' = taken
  /\ refusing => refusing'
  /\ UNCHANGED <<accepted, taken>>

Refuse ==
  /\ refusing' = TRUE
  /\ UNCHANGED <<accepted, taken, done>>

QNext == Accept \/ Take \/ Finish \/ Refuse
QSpec == QInit /\ [][QNext]_qvars
=============================================================================
