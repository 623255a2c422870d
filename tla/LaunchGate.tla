----------------------------- MODULE LaunchGate -----------------------------
(***************************************************************************)
(* The paid launch gate (src/scripts/eval/workbuddy/launch_gate.py): one   *)
(* manifest, its budget journal, and the operator commands that share      *)
(* them.  `launch` reserves, authorizes and runs a paid wave once; when    *)
(* its evidence is refused, `recover` publishes the failure receipt a      *)
(* dead launch did not, `resume-audit` audits the same artifacts again,    *)
(* and `resume-trials` reruns the trials that died of infrastructure.      *)
(*                                                                         *)
(* Every command is a process that may be interrupted, may die, and may    *)
(* run beside another command; the wave it started outlives it.  What the  *)
(* wave leaves on disk is one outcome for each task.                       *)
(***************************************************************************)
EXTENDS BudgetJournal

CONSTANTS Task,          \* the frozen task selection
          Path,          \* receipt paths the operator uses
          NoPath,
          TheRun,        \* the run identity of the manifest
          MaxResumed     \* MAX_RESUMED_TRIALS

ASSUME GateAssumption ==
    /\ Run = {TheRun}
    /\ NoPath \notin Path
    /\ Note = [trials : SUBSET Task, from : Path \cup {NoPath}]
    /\ MaxResumed \in Nat
    /\ IsFiniteSet(Task)

VARIABLES job,        \* the command each process executes
          launches,   \* history: the paid waves started for the run
          wave,       \* the first wave: none, running, ended
          code,       \* its exit code
          first,      \* what it left for each task
          tainted,    \* tasks whose directory was renamed *.tainted-a1
          rerun,      \* the tasks a process has a second wave running for
          clean2,     \* clean attempt-2 directories of each task
          failed2,    \* tasks with an attempt-2 directory that failed
          receipt     \* what each receipt path holds

world == <<launches, wave, code, first, tainted, rerun, clean2, failed2>>
vars  == <<journalVars, job, world, receipt>>

\* clean and scored; died of infrastructure; failed otherwise; a trajectory
\* without a result; nothing.
Outcome == {"clean", "infra", "fault", "partial", "absent"}

NoNote == [trials |-> {}, from |-> NoPath]
Empty  == [kind |-> "none"]
Torn   == [kind |-> "torn"]
\* What a failure receipt freezes of the first wave's files, by their digests.
Artifacts == first

Failure(stage, rc) ==
    [kind |-> "failure", stage |-> stage, code |-> rc,
     checkpoint |-> jdisk, frozen |-> Artifacts]
Success(cost) == [kind |-> "success", cost |-> cost]

Idle == [pc |-> "idle", path |-> NoPath, from |-> NoPath, tx |-> 0, cost |-> 0,
         rows |-> {}, clean |-> {}, failed |-> {}, exceptions |-> {}]

At(p, pc)   == job[p].pc = pc
Goto(p, pc) == job' = [job EXCEPT ![p].pc = pc]

\* An exception leaves the command: the with block closes the journal.
Exit(p) ==
    /\ IF jlock = p THEN JClose(p) ELSE UNCHANGED journalVars
    /\ job' = [job EXCEPT ![p] = Idle]

-----------------------------------------------------------------------------
(* Receipts                                                                 *)

Free(path) == receipt[path] = Empty

\* _write_private_new, as the last thing a command does: it never overwrites,
\* and cut short it leaves a file that needs inspection.
Publish(p, content) ==
    /\ \/ Free(job[p].path)
          /\ \E c \in {content, Torn} : receipt' = [receipt EXCEPT ![job[p].path] = c]
       \/ ~Free(job[p].path) /\ UNCHANGED receipt
    /\ Exit(p)
    /\ UNCHANGED world

\* _persist_authorized_failure_receipt: it observes the journal once more and
\* freezes the artifacts as they are.
PublishFailure(p, stage, rc) ==
    IF ~jtmp /\ jmem = jdisk
    THEN Publish(p, Failure(stage, rc))
    ELSE Exit(p) /\ UNCHANGED <<world, receipt>>

\* validate_authorized_failure_receipt against the journal as it is on disk: only a
\* resumption of trials may find resume events of the receipt's own transaction
\* behind the checkpoint.
CheckpointStands(c, trailing) ==
    \/ jdisk = c
    \/ /\ trailing
       /\ Len(jdisk) > Len(c)
       /\ SubSeq(jdisk, 1, Len(c)) = c
       /\ \A i \in Len(c) + 1 .. Len(jdisk) :
             jdisk[i].action = "trial_resume_authorized"

\* ... and the checks both resuming commands make of the receipt itself.
ResumableReceipt(path, trailing) ==
    /\ receipt[path].kind = "failure"
    /\ receipt[path].stage = "post_run_evidence_audit"
    /\ CheckpointStands(receipt[path].checkpoint, trailing)

\* The transactions a command finds for its manifest and run.
Matches == {t \in Transactions(jmem) : jmem[t].run = TheRun}

\* The one transaction recovery and resumption insist on.
ExactAuthorized(t) == Matches = {t} /\ State(jmem, t) = "request_authorized"

-----------------------------------------------------------------------------
(* The evidence audit                                                       *)

\* Does the evidence of t's first attempt hold: its identity, its configuration, its
\* control files, its metrics?
TrialClean(t) == first[t] = "clean"

\* _collect_usage, the trials: every task bound to exactly one clean trial of the
\* attempt it must come from, and no trial half written.
TrialsBound(rows) == \A t \in Task :
    IF t \in rows THEN clean2[t] = 1 ELSE TrialClean(t) /\ clean2[t] = 0

\* ... and the first attempts of the resumed tasks: exactly those are tainted.
AttemptOneAccounted(rows) == rows = tainted

Audited(rows) == TrialsBound(rows) /\ AttemptOneAccounted(rows)

\* What is committed: a unit for each scored trial, and for each attempt 1 that
\* was rerun.
Usage(rows) == Cardinality(Task) + Cardinality(rows)

Min2(n) == IF n > 2 THEN 2 ELSE n

-----------------------------------------------------------------------------
(* execute_launch                                                           *)

LaunchStart(p, path) ==
    /\ At(p, "idle") /\ Free(path)
    /\ JOpen(p)
    /\ job' = [job EXCEPT ![p] = [Idle EXCEPT !.pc = "launch", !.path = path]]
    /\ UNCHANGED <<world, receipt>>

LaunchReserve(p) ==
    /\ At(p, "launch")
    /\ JReserve(p, TheRun, NoNote)
    /\ Goto(p, "reserving")
    /\ UNCHANGED <<world, receipt>>

\* The inputs are observed again; then the authorization, at the revision the
\* reservation was returned at.
LaunchAuthorize(p) ==
    /\ At(p, "reserving") /\ JReady(p)
    /\ \E t \in Live(jmem, TheRun) :
          /\ JAuthorize(p, t, Len(jmem), NoNote)
          /\ job' = [job EXCEPT ![p].pc = "authorizing", ![p].tx = t]
    /\ UNCHANGED <<world, receipt>>

\* An input drifted, or the process was interrupted: not authorized, so abort.
LaunchDrifted(p) ==
    /\ At(p, "reserving") /\ JReady(p)
    /\ \E t \in Live(jmem, TheRun) :
          /\ JAbort(p, t, NoNote)
          /\ job' = [job EXCEPT ![p].pc = "aborting", ![p].tx = t]
    /\ UNCHANGED <<world, receipt>>

\* authorize_request raised: the handler aborts, whatever reached the disk.
LaunchAuthorizeRaised(p) ==
    /\ At(p, "authorizing") /\ JRaised(p)
    /\ JAbort(p, job[p].tx, NoNote)
    /\ Goto(p, "aborting")
    /\ UNCHANGED <<world, receipt>>

LaunchAborted(p) ==
    /\ At(p, "aborting") /\ (JReady(p) \/ JRaised(p))
    /\ Exit(p)
    /\ UNCHANGED <<world, receipt>>

\* The credential is read and the wave started.
LaunchRun(p) ==
    /\ At(p, "authorizing") /\ JReady(p)
    /\ launches' = launches + 1
    /\ wave' = "running"
    /\ Goto(p, "running")
    /\ UNCHANGED <<journalVars, code, first, tainted, rerun, clean2, failed2, receipt>>

\* The credential cannot be read, or METACODES_WB_RESUME_TASKS is set: the
\* request stays authorized.
LaunchNoCredential(p) ==
    /\ At(p, "authorizing") /\ JReady(p)
    /\ Exit(p)
    /\ UNCHANGED <<world, receipt>>

\* An interrupt while the wave runs: subprocess.run kills its child.
LaunchInterrupted(p) ==
    /\ At(p, "running") /\ wave = "running"
    /\ wave' = "ended"
    /\ first' \in [Task -> Outcome]
    /\ Exit(p)
    /\ UNCHANGED <<launches, code, tainted, rerun, clean2, failed2, receipt>>

\* The wave failed, or its evidence is refused: a failure receipt.
LaunchFailed(p) ==
    /\ At(p, "running") /\ wave = "ended"
    /\ IF code # 0 THEN PublishFailure(p, "runner_nonzero", code)
                   ELSE PublishFailure(p, "post_run_evidence_audit", 0)

\* The evidence is accepted: commit what it measured, then the receipt.
LaunchCommit(p) ==
    /\ At(p, "running") /\ wave = "ended" /\ code = 0
    /\ Audited({})
    /\ JCommit(p, job[p].tx, Usage({}), NoNote)
    /\ job' = [job EXCEPT ![p].pc = "committing", ![p].cost = Usage({})]
    /\ UNCHANGED <<world, receipt>>

\* Mutant: the receipt does not wait for the commit to return.
Receipt_Early(p) ==
    /\ At(p, "committing") /\ jlock = p
    /\ Publish(p, Success(job[p].cost))

\* The last step of launch, resume-audit and resume-trials.
Receipt(p) ==
    /\ At(p, "committing") /\ JReady(p)
    /\ Publish(p, Success(job[p].cost))

\* A call of the journal raised where no handler aborts.
Raised(p) ==
    /\ JRaised(p)
    /\ job[p].pc \in {"launch", "reserving", "committing", "recover",
                      "auditing", "matching", "resuming"}
    /\ Exit(p)
    /\ UNCHANGED <<world, receipt>>

\* The flock is not waited for, and a left-over temporary file is not passed.
JournalRefused(p) ==
    /\ job[p].pc \in {"audited", "scanned"}
    /\ jlock # Nobody \/ jtmp
    /\ Exit(p)
    /\ UNCHANGED <<world, receipt>>

-----------------------------------------------------------------------------
(* recover_authorized_failure_receipt                                       *)

RecoverStart(p, path) ==
    /\ At(p, "idle") /\ Free(path)
    /\ JOpen(p)
    /\ job' = [job EXCEPT ![p] = [Idle EXCEPT !.pc = "recover", !.path = path]]
    /\ UNCHANGED <<world, receipt>>

\* Stage and exit code are what the operator says they were.
Recover(p) ==
    /\ At(p, "recover") /\ JReady(p)
    /\ IF \E t \in Matches : ExactAuthorized(t)
       THEN \/ PublishFailure(p, "runner_nonzero", 1)
            \/ PublishFailure(p, "post_run_evidence_audit", 0)
       ELSE Exit(p) /\ UNCHANGED <<world, receipt>>

-----------------------------------------------------------------------------
(* resume_post_run_audit                                                    *)

\* Before the journal is opened: the failure receipt, every frozen artifact as
\* it was (under its tainted name where trials were resumed), the audit again.
AuditPasses(from, rows) ==
    /\ ResumableReceipt(from, rows # {})
    /\ Artifacts = receipt[from].frozen
    /\ Audited(rows)

AuditStart(p, from, path) ==
    /\ At(p, "idle") /\ Free(path)
    /\ AuditPasses(from, {})
    /\ job' = [job EXCEPT ![p] = [Idle EXCEPT !.pc = "audited", !.path = path,
                                              !.from = from]]
    /\ UNCHANGED <<journalVars, world, receipt>>

\* The journal may have moved since: the transaction must still be the exact one.
AuditOpen(p) ==
    /\ At(p, "audited")
    /\ JOpen(p)
    /\ Goto(p, "auditing")
    /\ UNCHANGED <<world, receipt>>

\* The resume rows of the caller must be the ones the journal authorized.
RowsJournaled(t, rows, from) ==
    IF rows = {} THEN Resumes(jmem, t) = {}
    ELSE \E i \in Resumes(jmem, t) : jmem[i].note = [trials |-> rows, from |-> from]

AuditCommit(p) ==
    /\ At(p, "auditing") /\ JReady(p)
    /\ LET rows == job[p].rows
       IN IF \E t \in Matches : ExactAuthorized(t) /\ RowsJournaled(t, rows, job[p].from)
          THEN /\ \E t \in Matches : JCommit(p, t, Usage(rows), NoNote)
               /\ job' = [job EXCEPT ![p].pc = "committing", ![p].cost = Usage(rows)]
          ELSE Exit(p)
    /\ UNCHANGED <<world, receipt>>

-----------------------------------------------------------------------------
(* resume_trials                                                            *)

\* The trials that ended in an exception, renamed or not.
Exceptions == {t \in Task : first[t] \in {"infra", "fault"}}

\* Before the journal is opened: the failure receipt, no half-written trial,
\* room in the budget, and which tasks already have an attempt 2.
ResumeScan(p, from, path) ==
    /\ At(p, "idle")
    /\ ResumableReceipt(from, TRUE)
    /\ \A t \in Task : first[t] # "partial"
    /\ Cardinality({t \in Task : first[t] # "absent"})
         + Cardinality({t \in Task : clean2[t] > 0}) < MaxCost
    /\ job' = [job EXCEPT ![p] =
          [Idle EXCEPT !.pc = "scanned", !.path = path, !.from = from,
                       !.exceptions = Exceptions,
                       !.clean = {t \in Task : clean2[t] > 0}, !.failed = failed2]]
    /\ UNCHANGED <<journalVars, world, receipt>>

ResumeOpen(p) ==
    /\ At(p, "scanned")
    /\ JOpen(p)
    /\ Goto(p, "matching")
    /\ UNCHANGED <<world, receipt>>

\* No resumption is journaled: every exception must be of infrastructure, ...
MayResume(p, t) ==
    /\ ExactAuthorized(t) /\ Resumes(jmem, t) = {}
    /\ job[p].exceptions # {} /\ job[p].exceptions \cap tainted = {}
    /\ Cardinality(job[p].exceptions) <= MaxResumed
    /\ \A x \in job[p].exceptions : first[x] = "infra"

\* ... or an earlier command journaled it: continue with the rows it authorized.
MayContinue(p, t) ==
    /\ ExactAuthorized(t)
    /\ \E i \in Resumes(jmem, t) :
          /\ jmem[i].note.from = job[p].from
          /\ jmem[i].note.trials \subseteq job[p].exceptions

\* The decision is journaled before anything is renamed or spent.
ResumeAuthorize(p) ==
    /\ At(p, "matching") /\ JReady(p)
    /\ \E t \in Matches :
          /\ MayResume(p, t)
          /\ JResume(p, t, [trials |-> job[p].exceptions, from |-> job[p].from])
    /\ job' = [job EXCEPT ![p].pc = "resuming", ![p].rows = job[p].exceptions]
    /\ UNCHANGED <<world, receipt>>

ResumeContinue(p) ==
    /\ At(p, "matching") /\ JReady(p)
    /\ \E t \in Matches : \E i \in Resumes(jmem, t) :
          /\ MayContinue(p, t)
          /\ job' = [job EXCEPT ![p].pc = "resuming", ![p].rows = jmem[i].note.trials]
    /\ UNCHANGED <<journalVars, world, receipt>>

ResumeRefused(p) ==
    /\ At(p, "matching") /\ JReady(p)
    /\ ~\E t \in Matches : MayResume(p, t) \/ MayContinue(p, t)
    /\ Exit(p)
    /\ UNCHANGED <<world, receipt>>

\* Mutant: the command does not wait for the authorization to return.
ResumeUnlock_Early(p) ==
    /\ At(p, "resuming")
    /\ JClose(p)
    /\ Goto(p, "tainting")
    /\ UNCHANGED <<world, receipt>>

\* The lock is released before the directories are renamed.
ResumeUnlock(p) ==
    /\ At(p, "resuming") /\ JReady(p)
    /\ JClose(p)
    /\ Goto(p, "tainting")
    /\ UNCHANGED <<world, receipt>>

\* One rename; a directory that has its tainted name already is left alone.
Taint(p, t) ==
    /\ At(p, "tainting") /\ t \in job[p].rows \ tainted
    /\ tainted' = tainted \cup {t}
    /\ UNCHANGED <<journalVars, job, launches, wave, code, first, rerun, clean2,
                   failed2, receipt>>

\* What the scan saw decides which trials still need their attempt 2.
Pending(p) == job[p].rows \ job[p].clean

ResumeBurned(p) ==
    /\ At(p, "tainting") /\ job[p].rows \subseteq tainted
    /\ job[p].rows \cap job[p].failed # {}
    /\ Exit(p)
    /\ UNCHANGED <<world, receipt>>

\* The second wave, for those trials, under its own instance id.
ResumeRerun(p) ==
    /\ At(p, "tainting") /\ job[p].rows \subseteq tainted
    /\ job[p].rows \cap job[p].failed = {}
    /\ Pending(p) # {}
    /\ rerun[p] = {}
    /\ rerun' = [rerun EXCEPT ![p] = Pending(p)]
    /\ Goto(p, "rerunning")
    /\ UNCHANGED <<journalVars, launches, wave, code, first, tainted, clean2,
                   failed2, receipt>>

\* Its runner exited with another code than 0: a later command continues.
ResumeRunnerFailed(p) ==
    /\ At(p, "rerunning") /\ rerun[p] = {}
    /\ Exit(p)
    /\ UNCHANGED <<world, receipt>>

\* The audit of both attempts, after the rerun or at once when none is pending.
ResumeAudit(p) ==
    /\ \/ At(p, "rerunning") /\ rerun[p] = {}
       \/ /\ At(p, "tainting") /\ job[p].rows \subseteq tainted
          /\ job[p].rows \cap job[p].failed = {} /\ Pending(p) = {}
    /\ \/ /\ AuditPasses(job[p].from, job[p].rows) /\ Free(job[p].path)
          /\ Goto(p, "audited") /\ UNCHANGED journalVars
       \/ Exit(p)
    /\ UNCHANGED <<world, receipt>>

-----------------------------------------------------------------------------
(* The waves, and what else happens to processes and files                  *)

\* The first wave ends by itself.
WaveEnds ==
    /\ wave = "running"
    /\ wave' = "ended"
    /\ first' \in [Task -> Outcome]
    /\ code' \in {0, 1}
    /\ UNCHANGED <<journalVars, job, launches, tainted, rerun, clean2, failed2, receipt>>

\* What a second wave leaves for its trials: clean, failed, or nothing.
RerunLeft(p, good, bad) ==
    /\ clean2' = [t \in Task |-> IF t \in good THEN Min2(clean2[t] + 1) ELSE clean2[t]]
    /\ failed2' = failed2 \cup bad
    /\ rerun' = [rerun EXCEPT ![p] = {}]

RerunEnds(p) ==
    /\ rerun[p] # {}
    /\ \E good \in SUBSET rerun[p] : \E bad \in SUBSET (rerun[p] \ good) :
          RerunLeft(p, good, bad)
    /\ UNCHANGED <<journalVars, job, launches, wave, code, first, tainted, receipt>>

\* The operator deletes a half-written trial, as resume-trials tells him to.
DeletePartial(t) ==
    /\ first[t] = "partial" /\ wave # "running"
    /\ first' = [first EXCEPT ![t] = "absent"]
    /\ UNCHANGED <<journalVars, job, launches, wave, code, tainted, rerun, clean2,
                   failed2, receipt>>

\* The operator removes what a torn write left.
Inspect(path) ==
    /\ receipt[path] = Torn
    /\ receipt' = [receipt EXCEPT ![path] = Empty]
    /\ UNCHANGED <<journalVars, job, world>>

InspectJournal ==
    /\ JInspect
    /\ UNCHANGED <<job, world, receipt>>

\* A command dies, and its lock with it; its wave goes on.
Crash(p) ==
    /\ ~At(p, "idle")
    /\ Exit(p)
    /\ UNCHANGED <<world, receipt>>

\* The machine stops: every command, every wave.
PowerLoss ==
    /\ JPowerLoss
    /\ job' = [p \in Proc |-> Idle]
    /\ wave' = IF wave = "running" THEN "ended" ELSE wave
    /\ first' \in IF wave = "running" THEN [Task -> Outcome] ELSE {first}
    /\ rerun' = [p \in Proc |-> {}]
    /\ UNCHANGED <<launches, code, tainted, clean2, failed2, receipt>>

JournalWork == JWork /\ UNCHANGED <<job, world, receipt>>

-----------------------------------------------------------------------------
Init ==
    /\ JInit
    /\ job = [p \in Proc |-> Idle]
    /\ launches = 0 /\ wave = "none" /\ code = 1
    /\ first = [t \in Task |-> "absent"]
    /\ tainted = {} /\ rerun = [p \in Proc |-> {}]
    /\ clean2 = [t \in Task |-> 0] /\ failed2 = {}
    /\ receipt = [x \in Path |-> Empty]

Launch(p) ==
    \/ \E path \in Path : LaunchStart(p, path)
    \/ LaunchReserve(p) \/ LaunchAuthorize(p) \/ LaunchDrifted(p)
    \/ LaunchAuthorizeRaised(p) \/ LaunchAborted(p)
    \/ LaunchRun(p) \/ LaunchNoCredential(p) \/ LaunchInterrupted(p)
    \/ LaunchFailed(p) \/ LaunchCommit(p)

Audit(p) ==
    \/ \E from, path \in Path : AuditStart(p, from, path)
    \/ AuditOpen(p) \/ AuditCommit(p)

Resume(p) ==
    \/ \E from, path \in Path : ResumeScan(p, from, path)
    \/ ResumeOpen(p) \/ ResumeAuthorize(p) \/ ResumeContinue(p) \/ ResumeRefused(p)
    \/ ResumeUnlock(p) \/ (\E t \in Task : Taint(p, t))
    \/ ResumeBurned(p) \/ ResumeRerun(p) \/ ResumeRunnerFailed(p) \/ ResumeAudit(p)

Command(p) ==
    \/ Launch(p) \/ Audit(p) \/ Resume(p)
    \/ (\E path \in Path : RecoverStart(p, path)) \/ Recover(p)
    \/ Receipt(p) \/ Raised(p) \/ JournalRefused(p) \/ Crash(p)

Next ==
    \/ \E p \in Proc : Command(p) \/ RerunEnds(p)
    \/ JournalWork \/ WaveEnds \/ InspectJournal \/ PowerLoss
    \/ \E t \in Task : DeletePartial(t)
    \/ \E path \in Path : Inspect(path)

Spec == Init /\ [][Next]_vars

-----------------------------------------------------------------------------
(* Properties                                                               *)

Tx == 0 .. MaxRevision + 1
Job == [pc : {"idle", "launch", "reserving", "authorizing", "aborting", "running",
              "committing", "recover", "audited", "auditing", "scanned", "matching",
              "resuming", "tainting", "rerunning"},
        path : Path \cup {NoPath}, from : Path \cup {NoPath}, tx : Tx,
        cost : 0 .. 2 * Cardinality(Task), rows : SUBSET Task, clean : SUBSET Task,
        failed : SUBSET Task, exceptions : SUBSET Task]

WellFormed(c) ==
    \/ c \in {Empty, Torn}
    \/ c.kind = "success" /\ c.cost \in 0 .. MaxCost
    \/ /\ c.kind = "failure" /\ c.code \in {0, 1}
       /\ c.stage \in {"runner_nonzero", "post_run_evidence_audit"}
       /\ c.checkpoint \in Seq(Event) /\ c.frozen \in [Task -> Outcome]

\* The types of the journal, of the commands, of what the waves leave and of the
\* receipts; a receipt only ever reports a cost its transaction's maximum covers.
TypeOK ==
    /\ JTypeOK
    /\ job \in [Proc -> Job]
    /\ launches \in Nat /\ wave \in {"none", "running", "ended"} /\ code \in {0, 1}
    /\ first \in [Task -> Outcome] /\ tainted \subseteq Task
    /\ rerun \in [Proc -> SUBSET Task]
    /\ clean2 \in [Task -> 0 .. 2] /\ failed2 \subseteq Task
    /\ \A x \in Path : WellFormed(receipt[x])

AuthorizedIn(d) == \E t \in Transactions(d) :
    State(d, t) \in {"request_authorized", "committed"}
ResumedIn(d, tasks) == \E i \in DOMAIN d :
    d[i].action = "trial_resume_authorized" /\ tasks \subseteq d[i].note.trials

\* The paid wave of a run is started at most once, however many launches are tried,
\* killed or interrupted, and once it was, no power loss makes the journal forget
\* that it was paid for (execute_launch: authorize_request is never repeated, and
\* returns only after the directory is synced; reserve refuses an authorized run).
OneLaunch == launches <= 1 /\ (launches > 0 => AuthorizedIn(jsynced))

\* A trial's directory is tainted, and a trial run again, only after the journal
\* has an event that authorizes it: for every task that is touched, in the same
\* step in which it is touched (resume_trials journals before it renames).
SpendJournaled == [][
    /\ tainted' # tainted => ResumedIn(jdisk, tainted' \ tainted)
    /\ \A p \in Proc : rerun'[p] # {} =>
          rerun'[p] = rerun[p] \/ ResumedIn(jdisk, rerun'[p])]_vars

\* Whoever may append believes exactly what the disk says, also after appends that
\* failed half way and after another process did its own (_reobserve_current).
NoDrift == \A p \in Proc : JReady(p) => jmem = jdisk

\* A success receipt reports a committed cost no power loss takes back, and there
\* is never a second one, although four commands may write one and each writes it
\* after it has committed (Receipt follows commit in every command).
ReceiptsTrue ==
    /\ \A x \in Path : receipt[x].kind = "success" =>
          \E i \in DOMAIN jsynced : /\ jsynced[i].action = "committed"
                                    /\ jsynced[i].cost = receipt[x].cost
    /\ \A x, y \in Path :
          receipt[x].kind = "success" /\ receipt[y].kind = "success" => x = y

-----------------------------------------------------------------------------
(* What the code's comments say and its runs disprove                       *)

AllIdle == \A p \in Proc : At(p, "idle")

\* A launch whose wave exited 0 and whose audit alone failed can be accounted for:
\* with the journal where the failure receipt left it, its transaction is the one
\* the resuming commands find (resume_post_run_audit's docstring).
AuditResumable == \A x \in Path :
    /\ AllIdle
    /\ receipt[x].kind = "failure" /\ receipt[x].stage = "post_run_evidence_audit"
    /\ receipt[x].checkpoint = jdisk
    => Cardinality({t \in Transactions(jdisk) : jdisk[t].run = TheRun}) = 1
=============================================================================
