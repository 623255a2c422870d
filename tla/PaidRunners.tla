----------------------------- MODULE PaidRunners ------------------------------
(***************************************************************************)
(* Any one of the paid runners, its operator, its sessions and its power   *)
(* supply.  Two processes may run it at once, on one or two directories.   *)
(***************************************************************************)
EXTENDS KeyedRunners, PrefixRunners

RunnerStep(p) ==
    \/ KeyedStep(p) \/ PrefixStep(p)
    \/ Authorize(p) \/ AuthorizeRaised(p) \/ Drift(p) \/ Aborted(p) \/ Raised(p)
    \/ StartSession(p) \/ SessionKilled(p) \/ Finish(p) \/ Crash(p)

Next ==
    \/ \E p \in Proc : RunnerStep(p)
    \/ \E c \in Run : SessionEnds(c)
    \/ JournalWork \/ InspectJournal \/ PowerLoss

Spec == Init /\ [][Next]_vars

-----------------------------------------------------------------------------
RowType ==
    [cell : Run \cup {0}, tx : 0 .. MaxRevision + 1, cost : 0 .. MaxCost,
     scored : BOOLEAN, head : Seq(Event)]
LedgerType ==
    [cell : Run, tx : 1 .. MaxRevision + 1, from : SUBSET Run,
     to : (SUBSET Run) \cup {NoArchive}, failed : BOOLEAN]
Course == {"idle", "opening", "load", "next", "prepared", "reserving", "authorizing",
           "running", "exported", "ledgered", "committing", "syncing", "aborting"}

\* Types: the state of a runner (RunnerStep) and of its files is what it says.
TypeOK ==
    /\ JTypeOK
    /\ kind \in Kind
    /\ job \in [Proc -> [pc : Course, dir : Dir \cup {NoDir}, resume : BOOLEAN,
                         cell : Run \cup {0}, tx : 0 .. MaxRevision + 1,
                         store : SUBSET Run]]
    /\ sessions \in [Run -> Nat] /\ live \subseteq Run
    /\ left \in [Run -> Left] /\ cost \in [Run -> 0 .. MaxCost]
    /\ checkpoint \in [Dir -> Seq(RowType)] /\ kept \in [Dir -> Nat]
    /\ \A d \in Dir : kept[d] <= Len(checkpoint[d])
    /\ opened \subseteq Dir /\ artifacts \in [Dir -> SUBSET Run]
    /\ ledger \in [Dir -> Seq(LedgerType)]
    /\ archive \in [Dir -> [Run -> (SUBSET Run) \cup {NoArchive}]]

\* A cell is paid for once: whatever crashes, whichever directory the operator
\* starts the runner on, and whatever a power loss takes back, no cell of the
\* schedule gets a second session ("a paid attempt is never re-run").
PaidOnce == \A c \in Run : sessions[c] <= 1

\* An attempt that is not accounted for stops everything: no session starts while
\* another one runs, or while the journal holds an attempt, authorized or settled,
\* without a scored row in the directory of the runner that starts it
\* (validate_chains, _require_no_orphan_budget_transactions, _load_resume,
\* validate_memory_agent_resume).
Accounted(p, t) ==
    \/ State(jdisk, t) \in {"reserved", "aborted_pre_request"}
    \/ t = job[p].tx
    \/ \E r \in Rows(job[p].dir) : r.tx = t /\ r.scored

StopsEverything ==
    [][\A p \in Proc : StartSession(p) =>
           live = {} /\ \A t \in Transactions(jdisk) : Accounted(p, t)]_vars

\* What the provider may have charged is in the journal, also after a power loss,
\* and within what the authority of the journal allows (BudgetJournal is
\* crash-conservative: an attempt counts at its maximum until it is settled).
SpendCovered ==
    /\ MapThenSumSet(LAMBDA c : cost[c], Run) <= Exposure(jsynced)
    /\ Exposure(jsynced) <= Total

\* A scored row never runs ahead of the journal: its transaction is durably
\* committed, for this cell and at what the session cost, and pays for no other
\* row of the directory (write_rollouts and the checkpoints come after commit).
CheckpointTrue ==
    \A d \in Dir : \A i \in DOMAIN checkpoint[d] :
        LET r == checkpoint[d][i]
        IN r.scored /\ r.cell # 0 =>
              /\ State(jsynced, r.tx) = "committed"
              /\ jsynced[r.tx].run = r.cell
              /\ Charge(jsynced, r.tx) = cost[r.cell]
              /\ \A j \in DOMAIN checkpoint[d] : checkpoint[d][j].tx = r.tx => i = j

\* An attempt of a chain that counts was given exactly the store the attempt before
\* it left, whatever that one did to it, and the archive its own row names is still
\* the one it left: no crash, restart or second process writes an archive again that
\* a row relies on (validate_chains, the import of the previous row's archive).
ChainLinked ==
    \A d \in Dir : \A i \in DOMAIN ledger[d] :
        LET row == ledger[d][i]
        IN ~row.failed =>
              /\ row.from = IF row.cell = 1 THEN {} ELSE archive[d][row.cell - 1]
              /\ row.to = archive[d][row.cell]

\* To whoever pays, a runner is a schedule walked through once and in order: whatever
\* dies, loses power or is started a second time, no cell is attempted before all the
\* earlier ones count in one directory, none is attempted twice, and what the attempts
\* cost stays within the authority (the load and the course of a cell in each runner).
Counting(d) == {r.cell : r \in {x \in Rows(d) : x.scored}} \ {0}

Schedule == INSTANCE PaidSchedule WITH
    Cell <- Run, attempts <- sessions, running <- live, charge <- cost,
    recorded <- [d \in Dir |-> Counting(d)]

ScheduleKept == Schedule!Spec
=============================================================================
