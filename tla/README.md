# Verification of metacodes

This directory holds TLA+ specifications of the parts of metacodes in which
steps of several actors meet or in which a crash may fall between two steps:

* the session core of the Zig program: the lifecycle of an agent session and of
  the plugin generations it runs on (`src/src/core/agent_session.zig`), the
  multi-session service around it (`src/src/core/session_host.zig`) and the
  event journal its clients follow (`src/src/core/event_journal.zig`, `serveSse`
  in `src/src/web/server.zig`, `doAttach` in `src/src/daemon/uds.zig`);
* the Python SDK's Session (`src/sdk/python/src/metacodes/_client.py`): calls from
  host threads, the thread of each Run, and Ctrl+C;
* the paid evaluations (`src/scripts/eval`): the budget journal that survives
  deaths and power loss, the launch gate's four commands, and six runners of paid
  schedules that resume from their checkpoints.

TLC checks the specifications on small instances. TLAPS proves, for every value of the
constants, every safety invariant and action property that the runs find to hold, and of
four that they implement their abstract specification: the event journal, the hosted
session, the budget journal (under the launch gate and under the paid runners) and the
paid runners as a whole. Liveness is only model-checked. Line
numbers refer to the commit this directory was written against;
`PROJECT.json` maps each definition to its lines.

## Inventory

metacodes runs coding agents. A *Session* owns a Conversation and a model
provider, a *Run* takes one prompt through the agent loop, and Hosts (the web
server, the daemon, the C ABI and the SDKs over it, the REPL) open Sessions and
drive them. Beside the program, the repository keeps the scripts that evaluate it
with paid model calls; what these may spend, and never spend twice, is their own
core logic.

| Component | State it keeps | Operations | Talks to | What is hard | What makes it correct |
|---|---|---|---|---|---|
| AgentSession lifecycle (`core/agent_session.zig`) | `state`, ids of the active Run and compaction, abort flags, `in_flight_provider_cancels`, provider, Conversation | admitRun, the AdmittedRun calls, abort, compact, abortCompact, mutations, setModel, rewind, checkpoint lease, destroy; event delivery | provider (`cancel` outside the lock), the Host's sink and UI | any call may come from any thread; `Provider.cancel` runs unlocked; AdmittedRun is copyable; sink failures | no freed provider is used, an abort hits only its target, one runner, nothing delivered after the end, leases see no change |
| HostedSession (`core/session_host.zig`) | queue, phase, interrupt/release/returned flags, pending UI request and its answer, `kernel_users` | submit, command, respond, interrupt, close; the driver thread; requestUi | AgentSession, EventJournal, transcript writer | an interrupt reads the Run, drops the lock and acts; prompts block tool threads; close joins a driver that waits for an answer | the kernel is never called when it refuses or is gone, no answer after a stop, work in order and once, close returns |
| SessionHost (`core/session_host.zig`) | table of open sessions, `closed`; a shell's references and `retired` | open, acquire, release, close, deinit | AgentRuntime's id registry | look, build unlocked, look again; last reference against retirement | shells freed once and only when unreachable; ids never stick; deinit leaves nothing |
| EventJournal and readers | window of lines, `base_seq`, byte count, epoch, `closed`; per connection `since` | append, close, planResume, waitSinceFrom; serveSse, doAttach | appended to by HostedSession, read by connections | eviction while a reader waits, reconnects, host restarts, close between two reads | a client's view is one unbroken stretch of one log, or it is told to start over |
| AgentRuntime, RuntimeHost (`core/agent_session.zig`) | the host's active generation and state; a runtime's `live_sessions`, state and id registry | replace, createSession, createRestoredSession, destroy; retire, retainSession, releaseSession | AgentSession, plugin cleanup (which may call the host again) | a generation retired while a session is created on it; freed by retirement or by its last session; a host call from within a cleanup | no session or call refers to a freed runtime; freed once, off the host's lock, and in the end; ids unique in a runtime |
| Python SDK Session (`sdk/python/.../_client.py`) | `_handle`, `_run_lock`, `_handle_lock`, `_active_run_id`, the id counters, `_state`; a `_RunThread` for each Run | run, abort, submit, update_credential, close; callbacks | AgentCore behind the C ABI | Ctrl+C at any wait, and again; a caller that leaves its Run; abort reading fields without a lock; close against a Run | a Session that reports idle runs nothing, the lock is given back by its owner, a result is of its own Run, AgentCore is called as it allows, close returns |
| Budget journal (`scripts/eval/memory_budget_journal.py`) | a hash-chained JSON document, a flock, the copy in memory | open, reserve, authorize_request, authorize_trial_resume, commit, abort_pre_request | file system; launch gate and runners | death or power loss between write, rename and directory sync; an append that raised but may be in force; another process appended since | no authorized spending is forgotten, one live transaction for a run, exposure within the authority, memory equals disk when appending |
| Launch gate (`scripts/eval/workbuddy/launch_gate.py`) | journal, receipt files, trial directories | launch, recover, resume-audit, resume-trials | budget journal, the runner subprocess | four commands that race, die and are started again; the wave outlives its launch | one paid wave, nothing rerun before it is journaled, one true success receipt |
| Paid runners (`chained_runner.py`, `paired_runner.py`, `plugin_pair_runner.py`, `project_harness_e3_pilot.py`, `tinykg_lean_factorial_executor.py`, `memory_agent_runtime.py`) | checkpoint, ledger, archives, artifact directories | start or resume, and for each cell: reserve, authorize, session, commit, checkpoint | budget journal, child processes | a death between any two of these, a second directory over one journal, files a power loss takes back | no cell paid for twice, spending journaled and bounded, checkpoints true, chains linked, an unaccounted attempt stops everything |
| Agent jobs (`core/agent_job_registry.zig`) | entries, `starting`, `closing`, per-job status | spawn, abort, drain, stop | providers, worker threads | cap checked twice, cancel against teardown, stop against nested spawns | cap holds, done announced once, no thread outlives the registry |
| Run input (`core/run_input.zig`) | window, entries, `adopted`, reservations | open, submit, next, adopt, refuse, close | agent loop, session budget | input accepted as the Run ends | each accepted input adopted or reported, each reservation settled once |
| Agent loop and tools, compaction kernel, goal, stop gates | turns, tool slots, counters | run | provider, tools, UI | tool threads in parallel | abort respected at each turn |
| Swarm, MCP, providers, LSP, plugins, transcript, permissions, sandbox, REPL/TUI, rule pipeline; the evaluation's validators, analysis and adapters; release scripts | - | - | - | external I/O, presentation, or sequential functions of their input | not modelled, see below |

How they interact: a client calls `SessionHost`, which finds the
`HostedSession`; its driver thread makes every call into the `AgentSession`
except `abort`, which interrupting and closing threads make directly. A Run's
tool threads come back through `requestHostUi` into `HostedSession.requestUi`
and wait there for `respond`. Everything worth seeing is appended to the
session's `EventJournal`, which SSE and socket connections follow. The Python
SDK drives an `AgentSession` through the C ABI instead. The launch gate and the
paid runners share nothing with these at run time; they share the budget journal
with each other.

## Modules

| Module | Models | Form |
|---|---|---|
| `SessionState` | the fields under `AgentSession.mutex` and one operator per critical section | state and operators, no threads |
| `AgentSession` | that API called from any thread, and event delivery under `callback_mutex` | EXTENDS `SessionState` |
| `HostedSession` | the driver, tool threads, interrupters and the closer of one hosted session | EXTENDS `SessionState` (the composition) |
| `WorkQueue` | what a hosted session promises about accepted work | abstract; `HostedSession` implements it |
| `SessionTable` | SessionHost's table, shell lifetime, id registry | on its own; a kernel is one bit |
| `RuntimeGenerations` | RuntimeHost, the runtimes it replaces and their sessions | on its own; a session is its runtime, id and stage |
| `EventJournal` | the journal, its readers, clients, restarts | on its own |
| `EventLog` | what a stream promises a reader | abstract; `EventJournal` implements it |
| `SdkSession` | one SDK Session, its Run threads and AgentCore as it is called | on its own; AgentCore is external |
| `SdkInterrupts` | the same with Ctrl+C inside `Thread.start` too | EXTENDS `SdkSession` |
| `BudgetJournal` | the journal: flock, append protocol, failures, power loss, its operations | state and operators, parameterised by processes, runs and evidence |
| `BudgetLedger` | what the journal promises to whoever pays | abstract; the journal of `LaunchGate` and of `PaidRunners` implements it |
| `LaunchGate` | the four commands of the launch gate | EXTENDS `BudgetJournal` (the composition) |
| `PaidRunner` | what the six runners share: files, sessions, the course of a cell, deaths, power loss | EXTENDS `BudgetJournal` |
| `KeyedRunners` | `run_chained`, `run_multi_arm`, `run_paid_pair`: checkpoints keyed by cell | EXTENDS `PaidRunner` |
| `PrefixRunners` | `run_paid`, `run_block`, `run_memory_agent_schedule`: checkpoints of a prefix | EXTENDS `PaidRunner` |
| `PaidRunners` | any of the six, its operator and its power supply | EXTENDS both (the composition) |
| `PaidSchedule` | what a runner promises about the cells of its schedule | abstract; `PaidRunners` implements it |
| `AgentSession_proofs`, `RuntimeGenerations_proofs`, `EventJournal_proofs`, `SdkSession_proofs`, `BudgetJournal_proofs`, `LaunchGate_proofs`, `PaidRunners_proofs` | their theorems | EXTEND their module and TLAPS; the last two also `BudgetJournal_proofs` |
| `SessionHost_proofs` | the theorems about `HostedSession` and `SessionTable`, the two halves of `session_host.zig` | EXTENDS both and TLAPS |
| `MC*` | the instances TLC checks | |

### SessionState, AgentSession

`state`, `active_run_id`, `active_run_started`, `last_run_id`, `abort_signal`,
`callback_failed`, the three compaction ids, `compact_abort_signal` and
`in_flight_provider_cancels` are the fields of the same names. A provider is its
generation, so that using a freed one is a difference of numbers; the
Conversation is a bit that every write flips, so that a reader which must see no
write compares it across a step. `Admits` is the gate at the head of every
admission; `BeginRun`, `ClaimAdmittedRun`, `FinishRunLifecycle`, `PoisonRun`,
`AbortBorrow`, `FinishProviderCancel`, `BeginCompact`, `CommitCompact`,
`FinishCompact`, ... are the critical sections of the functions of (nearly) the
same names.

In `AgentSession`, `call[t]` is the call thread `t` is inside between two
critical sections; `delivering` is the Run whose event holds `callback_mutex`.
Error returns that change nothing are not steps, with one exception: a refused
claim ends the call of a thread that holds a copy. A thread inside
`Provider.cancel` (`Cancelling`) keeps what it was called for, a Run or a compaction,
with its id: `CancelReachesOnlyItsTarget` compares that id with the session's, so
that a later Run or compaction admitted meanwhile would show. The agent loop writes to the
Conversation any number of times and returns or fails; it does not have to
notice an abort. `destroy` requires unique ownership by its documentation, and
the model lets it be called only then, except that an abort may still be inside
`Provider.cancel`, which the code itself checks.

### HostedSession

`driver` is the point the driver thread is at, and each action one critical
section of `HostedSession.mutex` or of `AgentSession.mutex`, so that an
interrupt, a close, an answer or a tool thread comes in between any two.
`Faults` names the failures of a run: `run` (the agent loop fails), `announce`
(out of memory writing a UI request), `malformed` (an unreadable answer),
`timeout` (`ui_request_timeout_ms`). A turn lets every tool thread prompt or
not, for a permission or with a question; the two differ in what a cancelled
request returns. A request the client cannot render is the same as none.
A configuration command is a mutation that succeeds or fails; `set_model`'s
exchange of providers is in `AgentSession` only. `unsaved` says whether anything
committed is missing from the transcript.

### SessionTable

`open` is modelled with an explicit id (a generated one cannot collide), in its
three parts: first look, construction outside the lock with the id registered,
publication or withdrawal. `op[t]` is the call of thread `t` between its
critical sections. The shutdown that `HostedSession` describes step by step is
one step here.

### RuntimeGenerations

A runtime is its generation number; `memory` says whether it is allocated, and
`state`, `live_sessions` and `session_ids` are its fields. Generation 0 is a
runtime made by `AgentRuntime.create` with no host over it, as `SessionHost` uses
one. `op[t]` is the call of thread `t` with the runtime and the session it is
about. `host_mutex` names the thread that keeps the host's lock from one step to
another: only a creation through the host does, from the look at `active` until
it returns. Each lock section of a runtime is one step.

A creation retains the runtime, registers an id and returns, or fails anywhere
and undoes what it did. A restored session's own id and a drawn one are the same
choice of an id that is not registered. Building the session's contents is
success or failure. `RegistryTrue`
says that a runtime's registry is exactly the ids of the sessions recorded in it, so
that a creation that failed leaves none behind.

Freeing a runtime runs plugin cleanup, which may call the
host again; the calls that other threads make in that interval stand for those
calls, except that a thread which held the host's lock would wait for itself,
and `CleanupOffLock` excludes that. `RuntimeHost.destroy` frees the host with its
mutex, so it is taken to be the last call made on the host; sessions are
destroyed by one owner each, as the code's comment requires. Refusals that
change nothing are not steps.

### EventJournal

A line is its true number and its size; frame ids and cursors come from
`base_seq` and the readers' own arithmetic as in the code. `cursor` is what a
client resumes from, `view` the stretch it holds, cleared by `resync`. The two
calls of `serveSse` after an empty wait (`waitSinceFrom`, `isClosed`) are two
steps. Out of memory while a line is appended loses the line before it has a
number, so it is not a step.

### SdkSession

`handle`, `run_lock`, `handle_lock`, `active_run_id`, `next_run_id`,
`next_input_id` and `state` are the fields of `Session` without their underscore;
`run_lock` also names what it was taken for, a Run or (`CloseHolds`) a close.
`state` is the Run whose collector is in place, `observed` the Runs whose events
it has got. `pc[t]` is where host thread `t` is in `run`, `close`, `abort`,
`submit` or `update_credential`; `phase[r]` where the thread of Run `r` is;
`returned` and `abandoned` are the flags caller and thread hand the Run over
with. Python threads are preempted between any two bytecodes, so each read and
each write of a shared field is a step of its own, unless a lock covers both.

Ctrl+C reaches the main thread at the points where it waits for a Run, any number
of times; inside `Thread.start` it is modelled in `SdkInterrupts`, where it
refutes what `SdkSession` has shown. AgentCore is modelled from how it is called:
it admits one Run, aborts the active one only, returns from a Run when it
likes, refuses to destroy a Session that runs. `describe`, `set_model`,
`set_permission_mode` and `rewind_to_user_message` are single unlocked native
calls, and `EventStream` and `Runtime.close` are left out.

### BudgetJournal

A document is the sequence of its events. The hash chain, the file modes, the
clock and the token budget (a second budget of the same form) are left out. A
transaction is named by the revision of its reservation, which its id binds; two
documents with equal events compare equal, also when one was written again after
a power loss took the first back.

`jdisk` is the file under the journal's name, `jsynced` what a power loss leaves
of it, `jmem` the copy of the process that holds `jlock`, and `jstep` the point of
an append: `JWrite`, `JReplace` and `JSync` are the temporary file, the rename and
the sync of the directory, any of which may raise (`JFail`). A process that raised
believes nothing until it has read the document again (`_reobserve_current`); one
that died leaves a temporary file over which nobody may append until the operator
has looked (`JInspect`). `JOpen` takes the flock and replays. `JReserve`,
`JAuthorize`, `JResume`, `JCommit` and `JAbort` are the journal's operations with
the conditions replay puts on each event (`Admissible`). Not modelled: a
`_replace_private_file` that leaves its temporary file when it fails before the
rename, and the durability of the run directory's own creation.

`BudgetLedger` knows nothing of any of this: an entry only advances, a run has one
live entry, and what is exposed stays within the authority. `LedgerKept` says that
the document a power loss cannot take back implements it; TLC checks it under the
launch gate, and it is proved there and for the paid runners.

### LaunchGate

A command is a process at a point (`job[p].pc`); whatever it reads before it has
the lock may be stale when it gets it. The wave is a child process, and outlives
a launch that died. What it leaves is one outcome for each task, which stands for
the evidence the audit looks at; which rows fail is chosen when the wave ends.
`first` is what the wave left, `tainted` the directories `resume-trials` renamed,
`rerun`, `clean2` and `failed2` the second attempts. A receipt is empty, torn (the
process died writing it), a failure with the journal's checkpoint and the frozen
rows, or a success with its cost. The operator may inspect and remove a torn
receipt or a partial trial (`Inspect`, `DeletePartial`). Building the manifest
(`build_launch_manifest`) is a function of files and comes before all of this.

### PaidRunner, KeyedRunners, PrefixRunners, PaidRunners

`kind` chooses the runner: `chained` is `run_chained`, `arms` `run_multi_arm`,
`plugin` `run_paid_pair`, `pilot` `run_paid`, `block` `run_block` and `agent`
`run_memory_agent_schedule`. A cell of the schedule is a run of the journal.
`sessions[c]` counts the paid sessions a cell was given, `live` those that go on
(also without their runner), `left` and `cost` what they left and what the
provider charged, which nobody knows before the end. `checkpoint`, `ledger`,
`archive`, `artifacts` and `opened` are the files of an output directory, `kept`
how much of the checkpoint is durable. Runners that sync their checkpoint have a
step `Sync`; the others may lose it with the power.

Abstracted: evidence is one of scored, unscored, infrastructure failure; a
torn line at the end of a ledger is the line missing; a child keeps its own cost within
the maximum it was given. A store is the set of attempts that left something in it, and
`{}` is no store. A session may leave any part of what it imported, since `run_chained`
compares only the names of the top-level entries: a store that was pruned or recreated
under its name passes, and `Vanished` refuses only a store that is gone. One entry
stands for both names of `STORE_ENTRIES`. The cells are one chain, where
`chained_schedule` interleaves a chain for each task, replicate and arm: cells of
different chains share the schedule and the journal, which the model has for all cells
alike, and no store. The arms runner keeps a checkpoint file for each arm, and a power
loss may take each back by itself; the model keeps one file for each directory. A fresh block also refuses a journal's lock file it finds, which
the model allows. `run_calibration` is `run_block` over another schedule, and
`run_paired` has no journal.

`PaidSchedule` is what all six amount to for whoever pays: `Attempt` takes the next cell,
charged at its maximum, when all the earlier ones count in one directory; `End` settles
the charge; `Record` makes the cell count, and only then may the next be attempted; `Lose`
is whatever a death or a power loss does, which may forget what counts and never what was
attempted or charged. Processes, locks, journals and files do not occur in it. In
`PaidRunners` what was attempted is `sessions`, what runs is `live`, the charge is `cost`,
and a cell counts in a directory when a scored row says so (`Counting`).

## Runs

Seven runs of the session core and the SDK, two of the paid evaluations, three
of expected violations.

| Run | Bounds | Fairness | Shows |
|---|---|---|---|
| `AgentSession` | 3 threads, Run and compaction ids to 2, 2 providers; 32,792 states | `CancelReturns`, `CompactReturns` | aborts in flight never meet a freed provider, another Run or another compaction, and they drain |
| `HostedSession` | 2 tool threads, 2 interrupters, 2 items of 4 kinds, 1 turn; 5,575,038 states, symmetry over tool threads and interrupters | - | the kernel is never called when it would refuse or is gone, answers match, none after a stop, the work queue |
| `HostedSessionLive` | 1 tool thread, 1 interrupter, 2 items; 180,348 states | threads that run go on | an interrupt stops its Run, close returns, accepted work is done |
| `SessionTable` | 3 threads, 2 ids, 2 shells; 62,467 states | a call that was begun goes on, holders release | lifetime and ids |
| `RuntimeGenerations` | 2 threads, 2 sessions, 2 ids, generations to 3; 29,824 states | a call goes on, owners destroy their sessions | lifetime of runtimes, a registry that holds the ids in use and no other, and that every superseded runtime is freed |
| `EventJournal` | one SSE and one socket reader, a window of 2 lines and 2 bytes, lines of 1 and 3 bytes, 3 lines, 2 journals; 288,676 states | connection threads run on | the window and frame ids, the refinement of EventLog, lines arrive and close ends readers |
| `SdkSession` | the main thread and another, 2 Runs, 1 input; 92,586 states | see below | an idle Session runs nothing, locks and results belong to their Run, AgentCore is called as it allows, close returns |
| `LaunchGate` | 2 processes, 1 task, 2 receipt paths, maximum 3 of 6 in all, 6 events, 1 resumption; 456,240 states, symmetry over processes and paths | - | one paid wave, reruns journaled, memory equals disk, one true success receipt, the journal keeps its ledger |
| `PaidRunners` | 2 processes, 2 directories, all six runners, 2 cells (3 for a chain), maximum 2 of 5 in all, 10 events; 893,926 states, symmetry over processes and directories | - | nothing paid twice, spending journaled and bounded, checkpoints true, chains linked, unaccounted attempts stop everything, the refinement of PaidSchedule |

Why the bounds suffice for what is asked. Three threads: the worst cases of the
lifecycle have a thread inside `Provider.cancel`, one whose activity it was for,
and one that tries the next activity. Two Runs and two items: every hazard is
one item against its successor. Two tool threads: one asks and one waits for
`ui_serial`. One turn allows a prompt in a turn and the abort test after it. A
window of two with lines over the byte limit evicts one line, two lines, and
keeps a single oversized one. Two journals are one restart. `MaxShells` = 2 with
two ids gives both two sessions and one id opened again. `MaxGeneration` = 3
stands for 2^64 - 1: one generation draining, its successor active, a third
staged or active, and then the numbers exhausted; two sessions are the last one
of a runtime against one being created, in the same runtime or in the next.

In `SdkSession` only the main thread can be interrupted, and what it abandons
meets one other thread; two Runs are the abandoned one and the next. A refused
start gives its Run's number up for good, so that the bound limits the calls of
`run` too. In `LaunchGate` two processes are a command and one that started while it
held a stale view or died; six events are an aborted transaction and the whole
life of another (reserved, authorized, resumed, committed), and the budget admits
both. One task is enough for a trial that is clean, broken, half written or
absent, since every rule of the gate speaks of one trial or of all of them; with two
tasks the instance is out of TLC's reach. In `PaidRunners` the budget is one
short of what the longest schedule may cost, so that the affordability checks
decide; three cells make a chain whose middle has a predecessor and a successor;
ten events leave room for an aborted reservation beside three full cells. Two
directories over one journal are the resume that finds an older checkpoint.

Fairness. `Provider.cancel` marks the request cancelled and never waits for the
activity, so it returns; a compaction ends because its request does. In
`HostedSession` weak fairness is given per thread (driver, each tool thread,
each interrupt under way, the closer) and to nothing that a user does: nobody
has to submit, answer, interrupt or close. A thread in a condition wait is given
fairness only for the step its predicate guards, and each change of the
predicate broadcasts. `AcceptedWorkIsDone` therefore has the hypothesis that no
prompt stays unanswered for ever. `MaxTurns` is the code's own bound. In
`RuntimeGenerations` a call under way is strongly fair, which assumes that a
thread waiting for the host's lock gets it in the end; that every session is
destroyed in the end is a condition on its owner and what `SupersededIsFreed` is
conditional on. In `EventJournal` every wait ends at a broadcast or after 15 s.
In `SdkSession` the steps inside a call and the acquisition in `close` are strongly
fair: Python's locks are not fair, but `close` polls for as long as it takes and
the thread that frees the lock has work to do in between; the Run's thread is
weakly fair; and a Run returns only after an abort of it (the documents call abort
cooperative), never otherwise. `LaunchGate` and `PaidRunners` are checked for safety
only: nothing there has to happen, an operator may stop at any point.

### What the runs of expected violations show

Three statements of the repository's comments do not hold of the code; each has a
run with its counterexample and an entry under `findings`.

* `StaleInterrupt`: `interrupt` releases prompts for a Run that is already over,
  after the driver cleared the flag for the next one. That Run's prompts are
  cancelled though it was never aborted. The run has no faults and one kind of
  prompt.
* `InterruptedStart`: an interrupt that arrives inside `Thread.start` finds
  `started` still false; `run` releases the Session while the Run's thread goes on.
* `AbortedLaunch`: after one aborted reservation, the audit of a later launch of
  the same run can never be resumed, since `resume-audit` counts the aborted
  transaction too.

### Known disagreements without a run

The modules keep the definitions; TLC refutes each, and no run repeats it.

* `InterruptLeavesSessionUsable` (`HostedSession`): interrupting a pending question
  is recorded as a Host failure; the session is poisoned and its queue dropped.
* `TranscriptComplete` (`HostedSession`): a Run whose interrupt is still inside
  `Provider.cancel` finishes without its transcript.
* `EndedSawAll` (`EventJournal`): lines appended between an empty wait and the test
  of `isClosed` are not sent before the stream ends.
* `AttachNeverRepeats` (`EventJournal`): a socket reader behind the window gets the
  same lines again.

Others are known from reading or from the models and are not stated as
properties:

* with the fault `announce`, a response accepted between the announcement of a
  request's id and its withdrawal stays in the slot and is given to the next
  request. It needs an allocation failure. The `HostedSession` run, which states
  `AnswersMatch`, leaves that fault out for this reason; `HostedSessionLive`
  includes it;
* a launch-gate command that dies after its commit and before its receipt leaves a
  wave that is paid for and for which no command can write a receipt;
* two concurrent `submit` calls of the SDK may use one input id;
* Ctrl+C inside the abort handler of `_RunThread.wait`, between its two waits,
  leaves the Run's lock taken for good: neither caller nor thread closes the Run;
* an abort between the claim of `_active_run_id` and AgentCore's admission of the
  Run finds no Run and is lost;
* `abort` and `submit` of the SDK may hand AgentCore a handle that a `close` destroyed
  after they read it. What AgentCore then does is outside the model, in which such a
  call has no effect; `CoreCallsLegal` covers destroy, run and update_credential.

## Proofs

Every theorem is proved for all values of the constants that satisfy the named
assumptions of the module. The pattern is the same throughout: none of the
invariants is inductive by itself, an invariant `IInv` collects what is missing as
named parts, there is one lemma per action, and the temporal step is PTL.

**AgentSession_proofs**: type correctness, the eight safety invariants and the
action property `LeaseIsImmutable`, for every finite set of threads and all
bounds (`SessionBounds`, `ThreadsFinite`). That the count of cancels is
exact says nothing without knowing who is inside; that a provider is not
replaced under a Run needs that the only thread in a Run is the one of the
active Run, that mutation and Run exclude each other, and that a cancel in
flight closes the gate. `IInv` is `TypeOK`;
`CallsMatchState`, what each kind of call in progress says about the state, the
ids and the provider (a thread in `run` means an active, started Run with the
same id; in `compact`, `mutate` or `lease`, the corresponding state; inside
`Provider.cancel`, that its Run or compaction is still the last one admitted);
`CompactIdsAgree`, that the compaction under way is the last one admitted;
`OneAtATime`, at most one thread in a Run and at most one in each of the other
exclusive calls; `RunIdsAgree` and `RefusalRemembered`, how the ids a thread holds
and a refused callback are remembered; and the remaining safety invariants. The
count of cancels is the cardinality of a set of threads (`CancelThreads`), with
`NoBorrowAtZero`, `CancelEntered` and `CancelLeft` from `FiniteSetTheorems` for a
thread that joins or leaves it. `LeaseIsImmutable` follows because a thread with a
lease out fixes the state to `checkpointing`: by `CallsMatchState` no Run,
compaction or mutation is in progress, and no admission is enabled. Six of these
invariants and `LeaseIsImmutable` are proved only: the run checks the two that no
other implies.

**RuntimeGenerations_proofs**: six safety invariants, two of which the run checks,
for any set of threads and ids, any finite set of sessions and any last generation
(`GenerationBound`, `SessionsFinite`, `NoneIsNoValue`). That a runtime is not freed
under a session follows only from an exact account, so `IInv` adds to `TypeOK`:
`LockForActive`, a thread that keeps the host's lock is creating a session on the
active runtime and the host is usable; `OneOwnerCall`, at most one thread is inside
`replace` or `destroy`, and exactly when the host's state says so;
`NumbersInOrder`, `next_generation` follows `active`, is the only number being
staged, and nothing else refers to a number beyond `active`; `CallsMatchSessions`,
each call in progress on a session agrees with the session's stage, and no two
calls are about one session; `CountsExact`, `live_sessions` is the cardinality of
the set of sessions recorded in the runtime; `RegistryExact`, `session_ids` is the
set of their ids; and `ReapedAlone`, `NoDanglingRuntime` with the state of the
runtimes that calls are freeing (`destroying`), publishing or about to retire (alive
and active). `RegistryIsTrue` follows from `RegistryExact`. The counting steps rest on `FS_AddElement` and `FS_RemoveElement`.

**EventJournal_proofs**: `Spec => ImplementsEventLog`, the refinement, for any
readers, window limits, line sizes and number of journals (`JournalBounds`). The
invariant says of the journal that the lines of the window carry their true
numbers (`WindowTrue`), and of each browser that the cursor it would resume from
(`CursorTrue`) and the `since` of its connection (`WaitingTrue`) are where its
view ends, or lie before the window (`Follows`) - in which case the next batch
begins with `resync` - and that a batch under way continues the view line by line
(`SendingTrue`). An append keeps this because `base_seq` never falls; a restart
because every cursor is then of an earlier epoch, and `planResume` continues a
cursor only if it names the current epoch or is nothing at all. `EvictedInRange` shows with
well-foundedness of the naturals that eviction always finds a number of lines.
`WindowIsExact` is the run's invariant; `TypesHold`, that everything keeps its type, is
proved and not run apart, since the window's account is the part of it that could
be wrong. `WindowIsExact` needs the byte count, which the model defines as a fold over the window: `CountsExist` and
`BytesIs` show that the fold is a sum over positions (a least counterexample among
the finite sets of positions would have a smaller one), and `BytesOfMore` and `BytesSplit`
that it is additive, so an append adds its line's size and an eviction takes away
what it evicts (`BytesTrue`, `Counting`); that the window fits its limits again is what the
eviction chooses (`EvictedInRange`). `MaxEpoch` is at least 1: the first journal exists.

**SdkSession_proofs**: the run's five safety properties, for any host threads and any
number of Runs and inputs (`SdkAssumption`). The parts of `IInv` say who
holds what: `LockHeld`, the Session's lock is held for exactly one Run or close,
and who will give it back is determined by `returned`, `abandoned` and where
caller and thread are; `RunsFinishOnce`, that exactly one of the two does;
`IdsFresh`, Run ids are used once; `CoreAgrees`, AgentCore runs what the thread of
the lock's Run is inside; `HandleHeld`, the handle is alive under `_handle_lock`
and its removal happens once; `StateIsOwn`, the collector in place is the lock
holder's. Calls that touch none of this (`abort`, `submit`, waits) are covered by
lemmas on quiet steps.

**BudgetJournal_proofs** and **LaunchGate_proofs**: `NoDrift`, `OneLaunch`,
`ReceiptsTrue`, `SpendJournaled` and `TypeOK` of the launch gate, and `JournalKeepsLedger`, that
its journal implements `BudgetLedger`, for any processes, tasks,
receipt paths and bounds (`JournalAssumption`, `GateAssumption`). `Sound(d)` says of
a document that events of a transaction follow its reservation, that it is settled
at most once and that a run has one live transaction; it is preserved by an
admissible append (`AppendSound`) and closed under prefixes (`PrefixSound`), which is
what a power loss leaves. `JInv` holds of every reachable state of the journal, in
whatever module uses it: disk, document in memory and the document being written are
sound, the durable document is a prefix of the one on disk, and whoever holds the
flock between appends has in memory what is on disk. It also says that the document on
disk replays (`Replays`): each of its events was affordable when it was appended. `JobOK` then says for each
point of each command what the flock lets it conclude (a launch at `authorizing`
whose append has not raised knows that nobody started the wave and, once the append
is synced, that its authorization is durable; a command without the lock knows only
what stays on disk). The
step from the journal to the wave is `LiveUnpaid`: while a launch holds the lock on
a transaction that is only reserved, `launches` is zero, because a launch that
started the wave left an authorized transaction no later reservation can pass.

`JournalKeepsLedger` compares the durable document before and after a step. Every step of
a command is a call the journal offers (`CommandCalls`), and no call touches what is durable
(`JCallKeeps`); only the sync of a directory and a power loss do (`StepSyncs`), and each leaves
a continuation of what was durable; `Continued` is what that means for a transaction (it
keeps its run, it only advances, what was committed keeps its cost) and `OneEntry` that
a run has one live entry. Several events may become durable at once, which is why the
ledger's step is not an append. That the entries' charges sum to no more than the
authority is `ReplaysWithin`, from the affordability check of the last reservation, and
rests on the first part of `BudgetJournal_proofs`: the sum over a finite set, which the
library defines by a choice of some element, obeys its recursion (`SumsExist`), does not
depend on that choice (`SumWithout`), and is monotone along an injection (`SumCovered`).

`TypesHold` adds to `IInv` what only the types need (`GateTypes`; its part about the journal,
`JTypes`, serves the runners too): a document has room for the event that is being written,
the document a process believes in is itself sound, also after an append that raised, and
the transaction and cost a command holds are within their bounds from the point where it
learns them. An event that is merely asked for may carry any cost, since `reserve` and
`commit` compare it with the maximum only then. A success receipt's cost is bounded because
it was committed, an event that replays.

**PaidRunners_proofs**: `PaidOnce`, `CheckpointTrue`, `StopsEverything`,
`ChainLinked`, `SpendCovered` and `TypeOK`, and the refinements `LedgerKept` and
`ScheduleKept`, for any of the six runners, any processes, directories, schedules, notes
and bounds (`JournalAssumption`, `RunnerAssumption`), with power losses, deaths and
sessions that outlive their runner. A schedule is finite. Eight layers, each resting on
earlier ones:

* `PaidOnce`. On `JInv`, per cell: a session leaves an authorization for its cell that
  is durable (`SessionsOK`), a runner that reserves a cell under the flock has seen that
  there is none (`ReservingOK`, by `ReservedUnpaid` and `LiveUnpaid`), so the session of
  the cell it then authorizes was not started (`AuthorizingOK`). Neither checkpoint nor
  ledger is used: the checks of a load only decide how much is refused, the journal
  alone keeps a cell from being paid for twice.
* `CheckpointTrue`. What a row says (`RowTrue`: its session is over, its transaction was
  authorized, and if it is scored committed at what the session cost) and what a runner
  knows of the transaction it works on (`TxOK`: no row names it until its commit has
  returned). That a session's cost stays what the row reports follows because a cell
  with a row had its session, and a session starts only for a cell that had none. That
  the commit found is the only one is `SettledOnce`.
* `StopsEverything`. `Closed(d, t)`: the transaction is unpaid or directory `d` has a
  scored row for it. A load that succeeds has seen every transaction closed (or, for a
  prefix runner, no cell done); the runner then holds the flock, so nothing is
  reserved but by itself, and the statement is carried from one cell to the next
  (`BetweenOK`) and, but for the cell's own transaction, through a cell (`WithinOK`).
  Two places are hard. The prefix runners compare only *numbers*, the committed
  transactions against the rows: that equal numbers leave nothing out needs that each
  row has a commit of its own, and counts by a surjection from the rows
  (`CountedRows`). And a prefix runner that starts with nothing done has compared
  nothing: what saves it is that the journal holds nothing but first cells until the
  first cell is committed (`OrderOK`), so that the reservation it has to make is refused
  if anybody was there before. That no session is live follows from the same facts: it
  would have left a paid transaction, whose row says that its session is over.
* `ChainLinked`. Both ends of a ledger row that counts are sealed: the store it was given
  is what the predecessor's archive holds, and the archive it names is still the one it
  wrote. Nothing is said of what the session did to the store in between. An attempt's
  import is fixed when it is reserved (`StoreOK`) and its predecessor's session has begun
  by then (`Follows`, `Begun`); an archive is written only by the runner that follows the
  session of that very cell, once, so it cannot change under that cell's row or its
  successor's (`AheadOK`, `LedgerOK`). Rows of an attempt that failed claim nothing.
* `SpendCovered`. `SpendInv`: every commit on disk, and one on its way there, says what the
  session of its cell cost, and that session is over. A cell that was paid for has a
  durable authorization (`SessionsOK`), hence a transaction charged at what it cost or,
  uncommitted, at the maximum (`CellPaid`). Different cells have different transactions, so
  the sum over the cells is covered by the sum over the transactions (`SumCovered`), and
  that by the authority (`ReplaysWithin`).
* `TypesHold`. Two facts are more than types. A runner that resumes imports what the
  predecessor's archive holds; that this is a set at all, never `NoArchive`, needs that
  a cell's archive is written before its row (`ArchivedOK`, `RowsArchived`) and that
  nothing takes it away while the row stands. And the number of synced rows stays within
  the checkpoint, whatever a power loss takes back (`CheckpointTyped`).
* `RunnersKeepLedger`. Every step of a runner is a call the journal offers
  (`RunnerCalls`, which needs the types), so the argument for the launch gate applies.
* `RunnersKeepSchedule`. `CourseInv`: under the lock, the cell a runner works on is the
  first that its directory does not have, and once its session has started no later cell
  has had one (`CourseOK`, `LastOK`); sessions start in the order of the cells, one at a
  time (`InOrder`). The step that is hard is `Attempt`: that all earlier cells *count* in
  the runner's directory. A cell is skipped because it has a row; the row says that the
  cell had its session, a session leaves a paid transaction, and the argument for
  `StopsEverything` closes every such transaction but the runner's own by a scored row of
  this directory, which is a row of that very cell (`CountsOrHere`). No later cell can
  have been attempted, since this one has had no session and sessions start in order
  (`StartsNext`). That the charges stay within the authority is `SpendAccounted`. All
  other steps map to `End`, `Record`, `Lose` or a stutter.

**SessionHost_proofs**: everything the runs check of `SessionTable` but its liveness, and
of `HostedSession` the type invariant, `KernelNeverRefuses`, `AnswersMatch`,
`NoAnswerAfterStop` and the refinement of `WorkQueue`.

For the table, any finite set of threads, any ids and any number of shells
(`TableBounds`, `ThreadsAssumption`): `TableInv` says which point of a call owns a
shell (`OpOK`, `Exclusive`: a shell is built, undone or freed by one call), that `references`
counts the holders and the call that publishes (`CountOK`), that shells with a kernel are
in the table or in the hands of a call (`KernelsOK`), and that `deinit` is called once and
what it emptied stays empty (`DeinitOK`).

For one hosted session, any tool threads, any finite set of interrupters
(`InterruptersFinite`), all faults and bounds: `HostedInv` is `TypeOK` and, by part of
the code, `KernelOK` (the point of the driver decides the state of the kernel), `RunOK`
and `StopOK` (the current Run is the driver's, and whoever stops it was asked to),
`QueueOK` (the queue is the accepted items after the one taken last, all of them as long
as the session takes work), `PromptOK` and `SlotOK` (one request is pending, and what
lies in the slot was given for it), `CloseOK`, and `UsersOK`: `kernel_users` and
`in_flight_provider_cancels` are cardinalities of the sets of threads that are inside,
which is why the count the driver and `close` wait for at zero means that nobody is.
`AnswersReachTheirRequest` has the hypothesis `"announce" \notin Faults`: without it the
property is false (see the disagreements above), and the run that checks it makes the
same choice. `QueueRefined` needs of `HostedInv` only that the queue has the order of
acceptance and that nothing is started by a session that refuses; each of the steps that
do not accept, start or finish work is a stutter of `WorkQueue`.

Model-checked only: liveness (`CancelsDrain`, `SupersededIsFreed`, `CloseReturns`,
`ClosedShellIsFreed`, `ReadersGoOn` and the live run of the hosted session), which
is out of the prover's reach, as is ENABLED.

## Not modelled

* The AgentSession's contents: configuration, provider construction, tools,
  goals, jobs, teams, permissions; the plugins of a runtime.
* The agent loop beyond the abort test, prompts and its result; the choice of
  what a compaction keeps.
* Capability routing, event wording, transcript format, HTTP and socket parsing.
* Background jobs and run input (see the plan), shell jobs, swarm mailboxes (files
  shared between processes), MCP, LSP, OAuth and plugins (external protocols),
  the rule pipeline (sequential, over files), REPL and TUI (presentation).
* Of the SDK: single native calls without a lock of their own, the C structures,
  `EventStream`, `Runtime`; the Node binding, which makes the same calls.
* Of the evaluation scripts: `rule_control.py`, `memory_replay.py`, `analysis.py`, the
  adapters and the experiment definitions. They are long, but each is one pass of a
  sequential program over documents, thousands of lines of "this field has this
  form", with no state kept between calls and nobody running beside them; a model
  would repeat the checks field by field. `run_paired` has no journal,
  `run_calibration` is `run_block` again.
* Release scripts and build files.

This is why the map covers a tenth of the implementation's lines: most of the rest
is validation and I/O. `PROJECT.json` lists each component with its reason.

## Plan

In this order:

1. `AgentJobs`: `spawnBackground` with its reservation and second cap check,
   the worker's end, `abortInScope` and `cancel_provider`, `drainNewlyDone`,
   `readers`, `stop` and `deinit`. The cap, cancel against freed providers,
   announced exactly once, stop returns.
2. `RunInput` with the session budget: an abstract ledger (each reservation
   committed or released once) and the queue that implements it.
3. A composition of `HostedSession` and `EventJournal`: every request announced
   in the stream is closed in it, and the last events precede the close.
4. Proofs: a table of sessions, each opened and freed once, that `SessionTable`
   implements; what `HostedSession` and `EventJournal` promise together (see 3).
