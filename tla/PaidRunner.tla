------------------------------ MODULE PaidRunner ------------------------------
(***************************************************************************)
(* What the runners of paid schedules share (src/scripts/eval): a frozen   *)
(* schedule of cells, a budget journal held for as long as the runner      *)
(* lives, an output directory with the checkpoint of what was completed,   *)
(* and for each cell the same course: reserve, authorize, one paid session *)
(* in a child process, commit, checkpoint.                                 *)
(*                                                                         *)
(* The operator may start a runner again whenever he likes, on the same    *)
(* output directory or on another one with the same journal.  Runners die, *)
(* their sessions outlive them, and the power fails.  The sessions and     *)
(* what the provider charges for them are external.                        *)
(***************************************************************************)
EXTENDS BudgetJournal

CONSTANTS Kind,       \* the runners
          Length,     \* how many cells the schedule of each has
          Dir,        \* output directories
          NoDir

ASSUME RunnerAssumption ==
    /\ Kind \subseteq {"chained", "arms", "plugin", "pilot", "block", "agent"}
    /\ Run \subseteq Nat \ {0} /\ IsFiniteSet(Run)
    /\ \A k \in Kind : Length[k] \in Nat /\ 1 .. Length[k] \subseteq Run
    /\ Note = SUBSET (Run \cup {0})
    /\ NoDir \notin Dir

VARIABLES kind,        \* the runner this journal and schedule belong to
          job,         \* where each process is
          sessions,    \* history: the paid sessions started for each cell
          live,        \* the cells whose session runs
          left,        \* what the session of a cell left behind
          cost,        \* what it was charged, its maximum while it runs
          checkpoint,  \* the rows of each directory's checkpoint
          kept,        \* how many of them a power loss cannot take back
          opened,      \* run directories that exist
          artifacts,   \* cells with an artifact directory
          ledger,      \* the chain ledger
          archive      \* the store archive each chained attempt left

money == <<sessions, live, left, cost>>
files == <<checkpoint, kept, opened, artifacts, ledger, archive>>
vars  == <<journalVars, kind, job, money, files>>

\* nothing yet; a scored rollout; one that does not count; no usable evidence
Left == {"none", "scored", "unscored", "infra"}

\* A checkpoint row, and the row of a checkpoint that completes nothing yet.
Row(c, t, amount, scored, head) ==
    [cell |-> c, tx |-> t, cost |-> amount, scored |-> scored, head |-> head]
Initial(head) == Row(0, 0, 0, TRUE, head)

\* No archive: a set no attempt can leave.
NoArchive == {0}

Idle == [pc |-> "idle", dir |-> NoDir, resume |-> FALSE, cell |-> 0, tx |-> 0,
         store |-> {}]

At(p, pc)   == job[p].pc = pc
Goto(p, pc) == job' = [job EXCEPT ![p].pc = pc]

\* An exception, or the end of the runner: the with block closes the journal.
Exit(p) ==
    /\ IF jlock = p THEN JClose(p) ELSE UNCHANGED journalVars
    /\ job' = [job EXCEPT ![p] = Idle]

-----------------------------------------------------------------------------
(* What a checkpoint says                                                   *)

Rows(d)      == {checkpoint[d][i] : i \in DOMAIN checkpoint[d]}
Done(d)      == {r.cell : r \in Rows(d)} \ {0}
Remaining(d) == (1 .. Length[kind]) \ Done(d)

\* Mutant: the schedule skips the first cell that is left.
NextCell_Skips(d) == Min(Remaining(d)) + 1

NextCell(d)  == Min(Remaining(d))
Spent(d)     == MapThenSumSet(LAMBDA i : checkpoint[d][i].cost, DOMAIN checkpoint[d])

\* _validate_checkpoint_budget_receipt: the journal has the row's transaction,
\* committed, for this cell and at this cost.
ReceiptHolds(r) ==
    /\ State(jmem, r.tx) = "committed"
    /\ jmem[r.tx].run = r.cell
    /\ Charge(jmem, r.tx) = r.cost

\* Mutant: a rollout that does not count is as good as any.
RowsHold_Unscored(d) ==
    /\ \A r \in Rows(d) : ReceiptHolds(r)
    /\ \A i, j \in DOMAIN checkpoint[d] :
          \/ i = j
          \/ /\ checkpoint[d][i].cell # checkpoint[d][j].cell
             /\ checkpoint[d][i].tx # checkpoint[d][j].tx

\* _validate_checkpoint_rows: every row counts, no cell and no transaction twice.
RowsHold(d) ==
    /\ \A r \in Rows(d) : r.scored /\ ReceiptHolds(r)
    /\ \A i, j \in DOMAIN checkpoint[d] :
          \/ i = j
          \/ /\ checkpoint[d][i].cell # checkpoint[d][j].cell
             /\ checkpoint[d][i].tx # checkpoint[d][j].tx

\* _require_no_orphan_budget_transactions
NoOrphans(d) ==
    \A t \in Transactions(jmem) :
        State(jmem, t) = "aborted_pre_request" \/ \E r \in Rows(d) : r.tx = t

-----------------------------------------------------------------------------
(* The course of one cell                                                   *)

Reserve(p, c, import) ==
    /\ JReserve(p, c, import)
    /\ job' = [job EXCEPT ![p].pc = "reserving", ![p].cell = c, ![p].store = import]
    /\ UNCHANGED <<kind, money, files>>

\* The authorization, at the revision the reservation was returned at.
Authorize(p) ==
    /\ At(p, "reserving") /\ JReady(p)
    /\ \E t \in Live(jmem, job[p].cell) :
          /\ JAuthorize(p, t, Len(jmem), {})
          /\ job' = [job EXCEPT ![p].pc = "authorizing", ![p].tx = t]
    /\ UNCHANGED <<kind, money, files>>

\* abort_pre_request, in the handler of whatever came before the authorization.
Abort(p, t) ==
    /\ JAbort(p, t, {})
    /\ Goto(p, "aborting")
    /\ UNCHANGED <<kind, money, files>>

Aborted(p) ==
    /\ At(p, "aborting") /\ (JReady(p) \/ JRaised(p))
    /\ Exit(p)
    /\ UNCHANGED <<kind, money, files>>

\* A call of the journal raised where no handler does anything.
Raised(p) ==
    /\ JRaised(p)
    /\ \/ job[p].pc \in {"load", "reserving"}
       \/ job[p].pc = "authorizing" /\ kind = "arms"
       \/ job[p].pc = "committing" /\ kind # "chained"
    /\ Exit(p)
    /\ UNCHANGED <<kind, money, files>>

\* authorize_request raised: the handler asks for an abort, which the journal
\* refuses when the authorization reached the disk after all.
AuthorizeRaised(p) ==
    /\ At(p, "authorizing") /\ JRaised(p) /\ kind # "arms"
    /\ Abort(p, job[p].tx)

\* Something frozen changed, or there is no credential, before authorize_request.
Drift(p) ==
    /\ At(p, "reserving") /\ JReady(p) /\ kind \in {"arms", "pilot", "block", "agent"}
    /\ \E t \in Live(jmem, job[p].cell) : Abort(p, t)

\* The session starts: from here on it costs what the provider says it costs.
StartSession(p) ==
    /\ At(p, "authorizing") /\ JReady(p)
    /\ sessions' = [sessions EXCEPT ![job[p].cell] = @ + 1]
    /\ live' = live \cup {job[p].cell}
    /\ cost' = [cost EXCEPT ![job[p].cell] = MaxCost]
    /\ Goto(p, "running")
    /\ UNCHANGED <<journalVars, kind, left, files>>

\* It ends by itself, whether its runner still waits for it or not.
SessionEnds(c) ==
    /\ c \in live
    /\ live' = live \ {c}
    /\ \E l \in Left \ {"none"} : left' = [left EXCEPT ![c] = l]
    /\ \E amount \in 0 .. MaxCost : cost' = [cost EXCEPT ![c] = amount]
    /\ UNCHANGED <<journalVars, kind, job, sessions, files>>

Ended(p) == job[p].cell \notin live

\* A timeout or an interrupt while the session runs: the direct child is killed,
\* what it did is unknown, and its runner goes on to its handler.
SessionKilled(p) ==
    /\ At(p, "running") /\ ~Ended(p)
    /\ live' = live \ {job[p].cell}
    /\ left' = [left EXCEPT ![job[p].cell] = "infra"]
    /\ UNCHANGED <<journalVars, kind, job, sessions, cost, files>>

\* The measured usage is committed, once the evidence of the session holds.
Commit(p) ==
    /\ JCommit(p, job[p].tx, cost[job[p].cell], {})
    /\ Goto(p, "committing")
    /\ UNCHANGED <<kind, money, files>>

\* Mutant: the rollout is written while its commit is under way.
WriteRollouts_Early(p) ==
    /\ At(p, "committing") /\ jlock = p
    /\ LET c == job[p].cell
           d == job[p].dir
           row == Row(c, job[p].tx, cost[c], left[c] = "scored", << >>)
       IN /\ checkpoint' = [checkpoint EXCEPT ![d] = Append(@, row)]
          /\ IF row.scored THEN Goto(p, "next") /\ UNCHANGED journalVars ELSE Exit(p)
    /\ UNCHANGED <<kind, money, kept, opened, artifacts, ledger, archive>>

\* write_rollouts: the file is replaced, the directory is not synced.  A rollout
\* that does not count stops the schedule, after it was written.
WriteRollouts(p) ==
    /\ At(p, "committing") /\ JReady(p)
    /\ LET c == job[p].cell
           d == job[p].dir
           row == Row(c, job[p].tx, cost[c], left[c] = "scored", << >>)
       IN /\ checkpoint' = [checkpoint EXCEPT ![d] = Append(@, row)]
          /\ IF row.scored THEN Goto(p, "next") /\ UNCHANGED journalVars ELSE Exit(p)
    /\ UNCHANGED <<kind, money, kept, opened, artifacts, ledger, archive>>

\* The schedule is complete.
Finish(p) ==
    /\ At(p, "next") /\ Remaining(job[p].dir) = {}
    /\ Exit(p)
    /\ UNCHANGED <<kind, money, files>>

-----------------------------------------------------------------------------
(* What else happens                                                        *)

\* A runner dies, or raises where no handler does anything; its session goes on.
Crash(p) ==
    /\ ~At(p, "idle")
    /\ Exit(p)
    /\ UNCHANGED <<kind, money, files>>

\* A file that was replaced but whose directory was never synced may be an older
\* one again; a ledger whose directory entry was never synced may be gone.
PowerLoss ==
    /\ JPowerLoss
    /\ job' = [p \in Proc |-> Idle]
    /\ live' = {}
    /\ left' = [c \in Run |-> IF c \in live THEN "infra" ELSE left[c]]
    /\ \E n \in [Dir -> 0 .. Max({Len(checkpoint[d]) : d \in Dir})] :
          /\ \A d \in Dir : n[d] \in kept[d] .. Len(checkpoint[d])
          /\ checkpoint' = [d \in Dir |-> SubSeq(checkpoint[d], 1, n[d])]
          /\ kept' = n
    /\ ledger' \in [Dir -> {ledger[d] : d \in Dir} \cup {<< >>}]
    /\ \A d \in Dir : ledger'[d] \in {ledger[d], << >>}
    /\ UNCHANGED <<kind, sessions, cost, opened, artifacts, archive>>

JournalWork == JWork /\ UNCHANGED <<kind, job, money, files>>
InspectJournal == JInspect /\ UNCHANGED <<kind, job, money, files>>

Init ==
    /\ JInit
    /\ kind \in Kind
    /\ job = [p \in Proc |-> Idle]
    /\ sessions = [c \in Run |-> 0] /\ live = {}
    /\ left = [c \in Run |-> "none"] /\ cost = [c \in Run |-> 0]
    /\ checkpoint = [d \in Dir |-> << >>] /\ kept = [d \in Dir |-> 0]
    /\ opened = {} /\ artifacts = [d \in Dir |-> {}]
    /\ ledger = [d \in Dir |-> << >>]
    /\ archive = [d \in Dir |-> [c \in Run |-> NoArchive]]
=============================================================================
