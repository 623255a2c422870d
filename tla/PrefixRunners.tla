---------------------------- MODULE PrefixRunners -----------------------------
(***************************************************************************)
(* The runners whose checkpoint names a prefix of the schedule and the     *)
(* revision of the journal it was written at: run_paid of                  *)
(* project_harness_e3_pilot.py, run_block of                               *)
(* tinykg_lean_factorial_executor.py, whose cells are the pilot's, and     *)
(* run_memory_agent_schedule of memory_agent_runtime.py.  A resume is      *)
(* refused unless the journal is exactly where the checkpoint left it.     *)
(***************************************************************************)
EXTENDS PaidRunner

LastHead(d) == checkpoint[d][Len(checkpoint[d])].head

Starting(p, d, pc, resume) ==
    job' = [job EXCEPT ![p] = [Idle EXCEPT !.pc = pc, !.dir = d, !.resume = resume]]

\* _replace_private_file: replaced here, durable once the directory is synced.
Checkpoint(p, row) ==
    /\ checkpoint' = [checkpoint EXCEPT ![job[p].dir] = Append(@, row)]
    /\ Goto(p, "syncing")
    /\ UNCHANGED <<journalVars, kind, money, kept, opened, artifacts, ledger, archive>>

Sync(p) ==
    /\ At(p, "syncing")
    /\ kept' = [kept EXCEPT ![job[p].dir] = Len(checkpoint[job[p].dir])]
    /\ Goto(p, "next")
    /\ UNCHANGED <<journalVars, kind, money, checkpoint, opened, artifacts, ledger, archive>>

\* The artifact directory of a cell is made before anything is reserved, and its
\* presence refuses the cell for good.
Prepare(p) ==
    /\ kind \in {"pilot", "block", "agent"}
    /\ At(p, "next") /\ Remaining(job[p].dir) # {}
    /\ LET d == job[p].dir
       IN IF NextCell(d) \in artifacts[d]
          THEN Exit(p) /\ UNCHANGED artifacts
          ELSE /\ artifacts' = [artifacts EXCEPT ![d] = @ \cup {NextCell(d)}]
               /\ Goto(p, "prepared") /\ UNCHANGED journalVars
    /\ UNCHANGED <<kind, money, checkpoint, kept, opened, ledger, archive>>

\* The runner raises, and leaves everything as it is.
Refuses(p) == Exit(p) /\ UNCHANGED <<kind, money, files>>

\* A rollout whose evidence does not hold is never committed.
Unusable(p) ==
    /\ kind \in {"pilot", "block", "agent"} /\ At(p, "running") /\ Ended(p)
    /\ left[job[p].cell] # "scored"
    /\ Refuses(p)

\* The checkpoint of the cell just committed, at the revision of its commit.
CellCheckpoint(p) ==
    /\ At(p, "committing") /\ JReady(p)
    /\ Checkpoint(p, Row(job[p].cell, job[p].tx, cost[job[p].cell], TRUE, jmem))

-----------------------------------------------------------------------------
(* project_harness_e3_pilot.py, and its cells in the factorial              *)

Paired == kind \in {"pilot", "block"}

\* The run directory is made, or found, before the journal is opened.
PilotStart(p, d) ==
    /\ kind = "pilot" /\ At(p, "idle")
    /\ \/ d \in opened /\ Starting(p, d, "opening", TRUE) /\ UNCHANGED opened
       \/ d \notin opened /\ Starting(p, d, "opening", FALSE) /\ opened' = opened \cup {d}
    /\ UNCHANGED <<journalVars, kind, money, checkpoint, kept, artifacts, ledger, archive>>

PilotOpen(p) ==
    /\ Paired /\ At(p, "opening")
    /\ JOpen(p)
    /\ Goto(p, "load")
    /\ UNCHANGED <<kind, money, files>>

\* A fresh run writes the checkpoint of an empty prefix.
PilotInitial(p) ==
    /\ Paired /\ At(p, "load") /\ JReady(p) /\ ~job[p].resume
    /\ Checkpoint(p, Initial(jmem))

\* _load_resume
PilotResumable(d) ==
    /\ checkpoint[d] # << >> /\ LastHead(d) = jmem
    /\ \A t \in Transactions(jmem) : State(jmem, t) \notin {"reserved", "request_authorized"}
    /\ Cardinality({t \in Transactions(jmem) : State(jmem, t) = "committed"})
       = Cardinality(Done(d))

\* The end of a resumption.
Resumed(p, holds) ==
    /\ At(p, "load") /\ JReady(p) /\ job[p].resume
    /\ IF holds THEN Goto(p, "next") /\ UNCHANGED journalVars ELSE Exit(p)
    /\ UNCHANGED <<kind, money, files>>

PilotLoad(p) == kind = "pilot" /\ Resumed(p, PilotResumable(job[p].dir))

\* _rollout_window: the operator asked for fewer rollouts than are left.
PilotPauses(p) == kind = "pilot" /\ At(p, "next") /\ Refuses(p)

\* The binaries, the rules, the store or the sandbox do not hold: the artifact
\* directory stays behind.
PilotUnprepared(p) == Paired /\ At(p, "prepared") /\ Refuses(p)

PilotReserve(p) ==
    /\ Paired /\ At(p, "prepared")
    /\ Reserve(p, NextCell(job[p].dir), {})

PilotCommit(p) ==
    /\ Paired /\ At(p, "running") /\ Ended(p) /\ left[job[p].cell] = "scored"
    /\ Commit(p)

\* What the treatment did is examined after the commit: a refusal leaves a committed
\* cell without a checkpoint.
PilotRefuses(p) == Paired /\ At(p, "committing") /\ JReady(p) /\ Refuses(p)

PilotCheckpoint(p) == Paired /\ CellCheckpoint(p)

-----------------------------------------------------------------------------
(* tinykg_lean_factorial_executor.py                                        *)

\* A fresh block wants a fresh journal as well as a fresh directory.
BlockStart(p, d) ==
    /\ kind = "block" /\ At(p, "idle")
    /\ \/ d \in opened /\ Starting(p, d, "opening", TRUE) /\ UNCHANGED opened
       \/ /\ d \notin opened /\ jdisk = << >> /\ jlock = Nobody
          /\ Starting(p, d, "opening", FALSE)
          /\ opened' = opened \cup {d}
    /\ UNCHANGED <<journalVars, kind, money, checkpoint, kept, artifacts, ledger, archive>>

\* _reopen_completed: the projection of each completed cell is built again, from a
\* receipt the journal still confirms.
BlockReopens(d) == \A r \in Rows(d) : r.cell # 0 => ReceiptHolds(r)

BlockLoad(p) ==
    LET d == job[p].dir
    IN kind = "block" /\ Resumed(p, PilotResumable(d) /\ BlockReopens(d))

-----------------------------------------------------------------------------
(* memory_agent_runtime.py                                                  *)

\* The journal is opened first; the directory is made, or found, under its lock.
AgentStart(p, d) ==
    /\ kind = "agent" /\ At(p, "idle")
    /\ JOpen(p)
    /\ \E resume \in BOOLEAN : Starting(p, d, "load", resume)
    /\ UNCHANGED <<kind, money, files>>

AgentFresh(p) ==
    /\ kind = "agent" /\ At(p, "load") /\ JReady(p) /\ ~job[p].resume
    /\ IF job[p].dir \in opened
       THEN Exit(p) /\ UNCHANGED opened
       ELSE /\ opened' = opened \cup {job[p].dir}
            /\ Goto(p, "next") /\ UNCHANGED journalVars
    /\ UNCHANGED <<kind, money, checkpoint, kept, artifacts, ledger, archive>>

\* validate_memory_agent_resume
AgentResumable(d) ==
    /\ checkpoint[d] # << >> /\ LastHead(d) = jmem
    /\ artifacts[d] = Done(d)
    /\ \A t \in Transactions(jmem) : State(jmem, t) = "committed"
    /\ Cardinality(Transactions(jmem)) = Cardinality(Done(d))

AgentLoad(p) == kind = "agent" /\ Resumed(p, AgentResumable(job[p].dir))

\* The store, its catalogue, the sandbox or its probe does not hold.
AgentUnprepared(p) == kind = "agent" /\ At(p, "prepared") /\ Refuses(p)

\* _require_production_budget: strictly more than the schedule needs.
AgentReserve(p) ==
    /\ kind = "agent" /\ At(p, "prepared")
    /\ LET d == job[p].dir
       IN IF Total - Spent(d) > MaxCost * Cardinality(Remaining(d))
          THEN Reserve(p, NextCell(d), {})
          ELSE Refuses(p)

AgentCommit(p) ==
    /\ kind = "agent" /\ At(p, "running") /\ Ended(p) /\ left[job[p].cell] = "scored"
    /\ Commit(p)

\* The memory the session read and wrote is examined after the commit.
AgentRefuses(p) == kind = "agent" /\ At(p, "committing") /\ JReady(p) /\ Refuses(p)

\* Nothing may be unsettled in the journal the checkpoint names.
AgentCheckpoint(p) ==
    /\ kind = "agent"
    /\ \A t \in Transactions(jmem) : State(jmem, t) \notin {"reserved", "request_authorized"}
    /\ CellCheckpoint(p)

-----------------------------------------------------------------------------
PrefixStep(p) ==
    \/ Sync(p) \/ Prepare(p) \/ Unusable(p)
    \/ \E d \in Dir : PilotStart(p, d) \/ BlockStart(p, d) \/ AgentStart(p, d)
    \/ PilotOpen(p) \/ PilotInitial(p) \/ PilotLoad(p) \/ BlockLoad(p)
    \/ PilotPauses(p) \/ PilotUnprepared(p) \/ PilotReserve(p)
    \/ PilotCommit(p) \/ PilotRefuses(p) \/ PilotCheckpoint(p)
    \/ AgentFresh(p) \/ AgentLoad(p) \/ AgentUnprepared(p) \/ AgentReserve(p)
    \/ AgentCommit(p) \/ AgentRefuses(p) \/ AgentCheckpoint(p)
=============================================================================
