----------------------------- MODULE PaidSchedule -----------------------------
(***************************************************************************)
(* What a paid runner promises to whoever pays for its schedule: the cells *)
(* are attempted in their order, each once, one at a time; a cell is       *)
(* attempted only when every earlier one counts, all in one directory; and *)
(* what was charged never exceeds the authority.  It knows nothing of      *)
(* processes, journals, locks and files, and so of no way to get there     *)
(* after a crash: whatever is lost, the promise stands.  PaidRunners       *)
(* implements it.                                                          *)
(***************************************************************************)
EXTENDS Integers, FiniteSets, FiniteSetsExt

CONSTANTS Cell,      \* the cells, numbered in the order of the schedule
          Dir,       \* where what counts is recorded
          MaxCost,   \* what an attempt may cost
          Total      \* what the authority allows in all

VARIABLES attempts,  \* how often each cell was attempted
          running,   \* the cells whose attempt runs
          charge,    \* what each was charged
          recorded   \* directory |-> the cells whose attempt counts there

pvars == <<attempts, running, charge, recorded>>

Before(c) == {x \in Cell : x < c}

Init ==
    /\ attempts = [c \in Cell |-> 0] /\ running = {}
    /\ charge = [c \in Cell |-> 0]
    /\ recorded = [d \in Dir |-> {}]

\* The next cell, charged at its maximum until more is known.
Attempt(c) ==
    /\ running = {} /\ running' = {c}
    /\ \A x \in Cell : attempts[x] = IF x < c THEN 1 ELSE 0
    /\ \E d \in Dir : recorded[d] = Before(c)
    /\ attempts' = [attempts EXCEPT ![c] = 1]
    /\ charge' = [charge EXCEPT ![c] = MaxCost]
    /\ MapThenSumSet(LAMBDA x : charge'[x], Cell) <= Total
    /\ UNCHANGED recorded

\* It ends, by itself or not, and is charged what it cost.
End(c) ==
    /\ running = {c} /\ running' = {}
    /\ \E amount \in 0 .. MaxCost : charge' = [charge EXCEPT ![c] = amount]
    /\ UNCHANGED <<attempts, recorded>>

\* It counts, after all the cells before it.
Record(c, d) ==
    /\ running = {} /\ attempts[c] = 1
    /\ \A x \in Cell : x > c => attempts[x] = 0
    /\ recorded[d] = Before(c)
    /\ recorded' = [recorded EXCEPT ![d] = @ \cup {c}]
    /\ UNCHANGED <<attempts, running, charge>>

\* What ran may stop, and what was recorded may be lost; what was attempted and
\* what it was charged may not.
Lose ==
    /\ running' = {}
    /\ recorded' \in [Dir -> SUBSET Cell]
    /\ \A d \in Dir : recorded'[d] \subseteq recorded[d]
    /\ UNCHANGED <<attempts, charge>>

Next ==
    \/ \E c \in Cell : Attempt(c) \/ End(c) \/ \E d \in Dir : Record(c, d)
    \/ Lose

Spec == Init /\ [][Next]_pvars
=============================================================================
