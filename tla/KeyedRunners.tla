----------------------------- MODULE KeyedRunners -----------------------------
(***************************************************************************)
(* The runners whose checkpoint is a file of rollouts keyed by cell:       *)
(* chained_runner.py, run_multi_arm of paired_runner.py and                *)
(* plugin_pair_runner.py.  A start loads the checkpoint, holds it against  *)
(* the journal, and refuses whatever the two do not agree on.              *)
(*                                                                         *)
(* A chain is one task's attempts: each imports the store archive the      *)
(* previous one exported, and the ledger records both ends.  A store is    *)
(* the set of the attempts that left something in it; an attempt that      *)
(* empties the store or makes it anew has left that.  {} is no store.      *)
(***************************************************************************)
EXTENDS PaidRunner

LedgerRow(c, t, from, to)  == [cell |-> c, tx |-> t, from |-> from, to |-> to,
                               failed |-> FALSE]
FailedAttempt(c, t, from)  == [cell |-> c, tx |-> t, from |-> from, to |-> NoArchive,
                               failed |-> TRUE]

\* A start: the journal is opened first, the checkpoint is read under its lock.
KeyedStart(p, d) ==
    /\ kind \in {"chained", "arms", "plugin"} /\ At(p, "idle")
    /\ JOpen(p)
    /\ job' = [job EXCEPT ![p] = [Idle EXCEPT !.pc = "load", !.dir = d]]
    /\ UNCHANGED <<kind, money, files>>

\* The end of every load: the schedule goes on, or the runner raises.
Loaded(p, holds) ==
    /\ At(p, "load") /\ JReady(p)
    /\ IF holds THEN Goto(p, "next") /\ UNCHANGED journalVars ELSE Exit(p)
    /\ UNCHANGED <<kind, money, files>>

\* The next cell, if the runner's own arithmetic says it can be afforded.
NextReserve(p, affordable, import) ==
    /\ At(p, "next") /\ Remaining(job[p].dir) # {}
    /\ IF affordable THEN Reserve(p, NextCell(job[p].dir), import)
       ELSE Exit(p) /\ UNCHANGED <<kind, money, files>>

-----------------------------------------------------------------------------
(* chained_runner.py                                                        *)

\* validate_chains
LedgerHolds(d) ==
    /\ \A i \in DOMAIN ledger[d] :
          LET row == ledger[d][i]
          IN /\ ~row.failed
             /\ row.to = archive[d][row.cell]
             /\ \A j \in DOMAIN ledger[d] : ledger[d][j].cell = row.cell => i = j
             /\ IF row.cell = 1 THEN row.from = {}
                ELSE \E j \in DOMAIN ledger[d] : /\ ledger[d][j].cell = row.cell - 1
                                                 /\ ledger[d][j].to = row.from
    /\ {ledger[d][i].cell : i \in DOMAIN ledger[d]} = Done(d)

\* The ledger and the rollout name the same transaction.
LedgerPaid(d) ==
    \A r \in Rows(d) : \A i \in DOMAIN ledger[d] :
        ledger[d][i].cell = r.cell => ledger[d][i].tx = r.tx

ChainedLoad(p) ==
    LET d == job[p].dir
    IN /\ kind = "chained"
       /\ Loaded(p, /\ LedgerHolds(d) /\ RowsHold(d) /\ LedgerPaid(d)
                    /\ NoOrphans(d) /\ Spent(d) < Total)

\* Mutant: every attempt imports the store of the first.
Import_First(d, c) == IF c = 1 THEN {} ELSE archive[d][1]

\* What attempt c starts from: the archive the previous row names.
Import(d, c) == IF c = 1 THEN {} ELSE archive[d][c - 1]

ChainedReserve(p) ==
    LET d == job[p].dir
    IN /\ kind = "chained"
       /\ NextReserve(p, Spent(d) < Total /\ Spent(d) + MaxCost <= Total,
                      Import(d, NextCell(d)))

\* export_store: the store is archived before anything reads the rollout.  What
\* is in it is the session's doing: it may have added to what it was given, left it
\* alone, dropped part of it, made it anew or removed it.
Export(p) ==
    /\ kind = "chained" /\ At(p, "running") /\ Ended(p)
    /\ left[job[p].cell] # "infra"
    /\ \E store \in SUBSET (job[p].store \cup {job[p].cell}) :
          archive' = [archive EXCEPT ![job[p].dir][job[p].cell] = store]
    /\ Goto(p, "exported")
    /\ UNCHANGED <<journalVars, kind, money, checkpoint, kept, opened, artifacts, ledger>>

\* A store was imported and none is there to be carried on.  Only the names of the
\* store's entries are compared, never what is in them.
Vanished(from, to) == from # {} /\ to = {}

\* The attempt is recorded, unless the store it imported vanished.
LedgerAppend(p) ==
    /\ At(p, "exported")
    /\ LET c == job[p].cell
           d == job[p].dir
       IN /\ ~Vanished(job[p].store, archive[d][c])
          /\ ledger' = [ledger EXCEPT ![d] =
                Append(@, LedgerRow(c, job[p].tx, job[p].store, archive[d][c]))]
    /\ Goto(p, "ledgered")
    /\ UNCHANGED <<journalVars, kind, money, checkpoint, kept, opened, artifacts, archive>>

ChainedCommit(p) == At(p, "ledgered") /\ JReady(p) /\ Commit(p)

\* Whatever fails after the authorization is recorded as a failed attempt, also
\* when the attempt was committed and only its rollout could not be written.
ChainedFails(p) ==
    /\ kind = "chained"
    /\ \/ job[p].pc \in {"exported", "ledgered", "committing"}
       \/ At(p, "running") /\ Ended(p)
       \/ At(p, "authorizing") /\ JReady(p)
    /\ LET c == job[p].cell
           d == job[p].dir
       IN ledger' = [ledger EXCEPT ![d] =
                        Append(@, FailedAttempt(c, job[p].tx, job[p].store))]
    /\ Exit(p)
    /\ UNCHANGED <<kind, money, checkpoint, kept, opened, artifacts, archive>>

-----------------------------------------------------------------------------
(* run_multi_arm of paired_runner.py                                        *)

\* _require_remaining_schedule_capacity: strictly more than the schedule needs.
Capacity(d) == Total - Spent(d) > MaxCost * Cardinality(Remaining(d))

ArmsLoad(p) ==
    LET d == job[p].dir
    IN kind = "arms" /\ Loaded(p, RowsHold(d) /\ NoOrphans(d) /\ Capacity(d))

ArmsReserve(p) == kind = "arms" /\ NextReserve(p, Capacity(job[p].dir), {})

ArmsCommit(p) ==
    /\ kind = "arms" /\ At(p, "running") /\ Ended(p) /\ left[job[p].cell] # "infra"
    /\ Commit(p)

\* No usable evidence, or usage over its maximum: the rollout is written with its
\* transaction still authorized, and stops the schedule.
ArmsInvalid(p) ==
    /\ kind = "arms" /\ At(p, "running") /\ Ended(p) /\ left[job[p].cell] = "infra"
    /\ LET c == job[p].cell
           row == Row(c, job[p].tx, cost[c], FALSE, << >>)
       IN checkpoint' = [checkpoint EXCEPT ![job[p].dir] = Append(@, row)]
    /\ Exit(p)
    /\ UNCHANGED <<kind, money, kept, opened, artifacts, ledger, archive>>

-----------------------------------------------------------------------------
(* plugin_pair_runner.py                                                    *)

\* What the journal has committed, and the rest of the schedule at its maximum.
PluginFits(d) ==
    LET settled == {t \in Transactions(jmem) : State(jmem, t) = "committed"}
    IN MapThenSumSet(LAMBDA t : Charge(jmem, t), settled)
       + MaxCost * Cardinality(Remaining(d)) <= Total

PluginLoad(p) ==
    LET d == job[p].dir
    IN kind = "plugin" /\ Loaded(p, RowsHold(d) /\ NoOrphans(d) /\ PluginFits(d))

PluginReserve(p) == kind = "plugin" /\ NextReserve(p, TRUE, {})

\* The run is preserved, the tree is still frozen, its evidence is unambiguous.
PluginCommit(p) ==
    /\ kind = "plugin" /\ At(p, "running") /\ Ended(p) /\ left[job[p].cell] # "infra"
    /\ Commit(p)

PluginRefuses(p) ==
    /\ kind = "plugin" /\ At(p, "running") /\ Ended(p) /\ left[job[p].cell] = "infra"
    /\ Exit(p)
    /\ UNCHANGED <<kind, money, files>>

-----------------------------------------------------------------------------
KeyedWrites(p) == kind \in {"chained", "arms", "plugin"} /\ WriteRollouts(p)

KeyedStep(p) ==
    \/ \E d \in Dir : KeyedStart(p, d)
    \/ ChainedLoad(p) \/ ChainedReserve(p) \/ Export(p) \/ LedgerAppend(p)
    \/ ChainedCommit(p) \/ ChainedFails(p)
    \/ ArmsLoad(p) \/ ArmsReserve(p) \/ ArmsCommit(p) \/ ArmsInvalid(p)
    \/ PluginLoad(p) \/ PluginReserve(p) \/ PluginCommit(p) \/ PluginRefuses(p)
    \/ KeyedWrites(p)
=============================================================================
