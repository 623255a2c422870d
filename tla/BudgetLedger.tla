---------------------------- MODULE BudgetLedger ----------------------------
(***************************************************************************)
(* What the budget journal promises to whoever pays: a ledger of           *)
(* reservations that never loses or changes an entry except by advancing   *)
(* it, and that at no time exposes more than the authority allows.  It     *)
(* knows nothing of files, locks, revisions, processes or power.           *)
(* BudgetJournal implements it with the document a power loss cannot take  *)
(* back.                                                                   *)
(***************************************************************************)
EXTENDS Integers, FiniteSets, FiniteSetsExt

CONSTANTS MaxCost,   \* the maximum a reservation may cost
          Total      \* what the authority allows in all

VARIABLE ledger      \* entry id |-> [run, state, charge]

\* What an entry may become: an authorized request stays charged for ever, at its
\* maximum or at what was measured.
Advances ==
    {<<"reserved", s>> : s \in {"reserved", "request_authorized", "committed",
                                "aborted_pre_request"}}
    \cup {<<"request_authorized", s>> : s \in {"request_authorized", "committed"}}
    \cup {<<"committed", "committed">>, <<"aborted_pre_request", "aborted_pre_request">>}

Charged(e) ==
    CASE e.state = "committed" -> e.charge \in 0 .. MaxCost
      [] e.state = "aborted_pre_request" -> e.charge = 0
      [] OTHER -> e.charge = MaxCost

Sound(l) ==
    /\ \A i \in DOMAIN l : Charged(l[i])
    /\ \A i, j \in DOMAIN l :
          /\ l[i].run = l[j].run
          /\ l[i].state # "aborted_pre_request" /\ l[j].state # "aborted_pre_request"
          => i = j
    /\ MapThenSumSet(LAMBDA i : l[i].charge, DOMAIN l) <= Total

Init == ledger = << >>

\* Several entries may advance and appear at once: a crash may have hidden them.
Next ==
    /\ ledger' # ledger
    /\ DOMAIN ledger \subseteq DOMAIN ledger'
    /\ \A i \in DOMAIN ledger :
          /\ ledger'[i].run = ledger[i].run
          /\ <<ledger[i].state, ledger'[i].state>> \in Advances
          /\ ledger[i].state = "committed" => ledger'[i].charge = ledger[i].charge
    /\ Sound(ledger')

Spec == Init /\ [][Next]_ledger
=============================================================================
