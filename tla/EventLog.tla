-------------------------------- MODULE EventLog --------------------------------
(***************************************************************************)
(* What a session's event stream promises a reader: what it holds is one   *)
(* unbroken stretch of one log, in order, each event once.  A reader whose *)
(* position is gone (evicted, or of a log that no longer exists) is told   *)
(* so and starts its view over; nothing is skipped or repeated silently.   *)
(* EventJournal.tla implements it.                                         *)
(***************************************************************************)
EXTENDS Naturals

CONSTANT Readers

VARIABLES log,   \* which log it is and how many events it has
          view   \* reader -> the log it follows and the stretch it holds

lvars == <<log, view>>

Holds(n, from, next) == [log |-> n, from |-> from, next |-> next]

LInit ==
  /\ log = [no |-> 1, length |-> 0]
  /\ view = [r \in Readers |-> Holds(0, 0, 0)]

Grow == log' = [log EXCEPT !.length = @ + 1] /\ UNCHANGED view

(* The host is restarted: another log.                                      *)
Replace == log' = [no |-> log.no + 1, length |-> 0] /\ UNCHANGED view

(* The reader is given the event right after those it holds.                *)
Deliver(r) ==
  /\ view[r].log = log.no /\ view[r].next < log.length
  /\ view' = [view EXCEPT ![r].next = @ + 1]
  /\ UNCHANGED log

(* The reader starts its view over, at any place of the log.                *)
StartOver(r) ==
  /\ \E from \in 0 .. log.length : view' = [view EXCEPT ![r] = Holds(log.no, from, from)]
  /\ UNCHANGED log

LNext == Grow \/ Replace \/ \E r \in Readers : Deliver(r) \/ StartOver(r)
LSpec == LInit /\ [][LNext]_lvars
=============================================================================
