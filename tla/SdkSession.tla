------------------------------- MODULE SdkSession -------------------------------
(***************************************************************************)
(* One Session of the Python SDK (sdk/python/src/metacodes/_client.py):    *)
(* run(), close(), abort(), submit() and update_credential() called from   *)
(* any thread, the thread each Run executes on, and Ctrl+C in the main     *)
(* thread.  AgentCore behind the C ABI is external: it admits one Run at a *)
(* time, aborts the active Run only, and refuses to destroy a Session that *)
(* runs.                                                                   *)
(***************************************************************************)
EXTENDS Naturals

CONSTANTS
  Threads,          \* host threads
  Main,             \* the one Ctrl+C interrupts
  MaxRun,           \* bound: calls of run() that get the lock
  MaxInput          \* bound: inputs submitted

ASSUME SdkAssumption ==
  /\ Main \in Threads
  /\ MaxRun \in Nat
  /\ MaxInput \in Nat

Runs == 1..MaxRun
CloseHolds == MaxRun + 1

VARIABLES
  \* the Session object
  handle,           \* _handle is set
  run_lock,         \* _run_lock: 0 free, else the Run (or a close) it was taken for
  handle_lock,      \* _handle_lock is held
  active_run_id, next_run_id, next_input_id,
  state,            \* the Run whose _RunState is _state, 0 for None
  observed,         \* Runs whose events that _RunState has observed
  \* the calls of host threads
  pc,
  run_of,           \* the Run a thread's run() is about
  seen_run,         \* the Run id an abort() or submit() has read
  seen_input,       \* the input id a submit() has read
  timed,            \* the thread's close() has a timeout
  \* the Run threads
  phase, returned, abandoned,
  \* AgentCore
  alive, core_run, core_aborted,
  inputs,           \* ids the active Run accepted
  \* history
  attempts          \* times run() has taken the lock

session == <<handle, run_lock, handle_lock, active_run_id, next_run_id,
             next_input_id, state, observed>>
calls == <<pc, run_of, seen_run, seen_input, timed>>
threads == <<phase, returned, abandoned>>
core == <<alive, core_run, core_aborted, inputs>>
vars == <<session, calls, threads, core, attempts>>

InRun == {"acquire", "prepare", "start", "starting", "join", "interrupt_read",
          "interrupt_native", "join_again", "abandon", "collect", "clear", "release"}
InClose == {"close_try", "close_read", "close_native", "close_deadline",
            "close_check", "close_lock", "destroy", "drop_handle", "keep_handle",
            "close_release"}
InAbort == {"abort_native"}
InSubmit == {"submit_bump", "submit_native"}
InUpdate == {"update_check", "update_native", "update_release"}
PCs == {"idle"} \cup InRun \cup InClose \cup InAbort \cup InSubmit \cup InUpdate
Phases == {"none", "ready", "native", "ended", "clear", "release", "dead"}

Init ==
  /\ handle = TRUE /\ run_lock = 0 /\ handle_lock = FALSE
  /\ active_run_id = 0 /\ next_run_id = 1 /\ next_input_id = 1
  /\ state = 0 /\ observed = {}
  /\ pc = [t \in Threads |-> "idle"]
  /\ run_of = [t \in Threads |-> 0]
  /\ seen_run = [t \in Threads |-> 0]
  /\ seen_input = [t \in Threads |-> 0]
  /\ timed = [t \in Threads |-> FALSE]
  /\ phase = [r \in Runs |-> "none"]
  /\ returned = [r \in Runs |-> FALSE]
  /\ abandoned = [r \in Runs |-> FALSE]
  /\ alive = TRUE /\ core_run = 0 /\ core_aborted = FALSE
  /\ inputs = {}
  /\ attempts = 0

Goto(t, label) == pc' = [pc EXCEPT ![t] = label]

-----------------------------------------------------------------------------
(* AgentCore's abort, reached with a live handle: it stops the active Run  *)
(* and no other; any other id is stale and the refusal is dropped.         *)
CoreAbort(r) ==
  /\ core_aborted' = (core_aborted \/ (core_run = r /\ r # 0))
  /\ UNCHANGED <<alive, core_run, inputs>>

\* _abort_active reads the active Run and the handle, then calls abort.
AbortRead(t, call, skip) ==
  /\ IF active_run_id # 0 /\ handle
       THEN /\ seen_run' = [seen_run EXCEPT ![t] = active_run_id]
            /\ Goto(t, call)
       ELSE Goto(t, skip) /\ UNCHANGED seen_run
  /\ UNCHANGED <<session, run_of, seen_input, timed, threads, core, attempts>>

AbortCall(t, after) ==
  /\ IF alive
       THEN CoreAbort(seen_run[t])
       ELSE UNCHANGED core
  /\ Goto(t, after)
  /\ seen_run' = [seen_run EXCEPT ![t] = 0]
  /\ UNCHANGED <<session, run_of, seen_input, timed, threads, attempts>>

-----------------------------------------------------------------------------
(* run()                                                                    *)

RunCall(t) ==
  /\ pc[t] = "idle" /\ handle /\ attempts < MaxRun
  /\ Goto(t, "acquire")
  /\ UNCHANGED <<session, run_of, seen_run, seen_input, timed, threads, core,
                 attempts>>

\* Mutant: the acquire succeeds although the lock is taken.
RunAcquire_Taken(t) ==
  /\ pc[t] = "acquire"
  /\ IF attempts < MaxRun
       THEN /\ run_lock' = next_run_id /\ Goto(t, "prepare")
            /\ attempts' = attempts + 1
            /\ run_of' = [run_of EXCEPT ![t] = next_run_id]
       ELSE Goto(t, "idle") /\ UNCHANGED <<run_lock, run_of, attempts>>
  /\ UNCHANGED <<handle, handle_lock, active_run_id, next_run_id, next_input_id,
                 state, observed, seen_run, seen_input, timed, threads, core>>

\* The acquire does not block: another Run, or a close, refuses this one (so
\* does the bound of the model once MaxRun calls had the lock).
RunAcquire(t) ==
  /\ pc[t] = "acquire"
  /\ IF run_lock = 0 /\ attempts < MaxRun
       THEN /\ run_lock' = next_run_id /\ Goto(t, "prepare")
            /\ attempts' = attempts + 1
            /\ run_of' = [run_of EXCEPT ![t] = next_run_id]
       ELSE Goto(t, "idle") /\ UNCHANGED <<run_lock, run_of, attempts>>
  /\ UNCHANGED <<handle, handle_lock, active_run_id, next_run_id, next_input_id,
                 state, observed, seen_run, seen_input, timed, threads, core>>

\* Mutant: the id is incremented twice.
RunPrepare_Twice(t) ==
  /\ pc[t] = "prepare"
  /\ next_run_id' = next_run_id + 2
  /\ state' = next_run_id /\ observed' = {}
  /\ active_run_id' = next_run_id
  /\ Goto(t, "start")
  /\ UNCHANGED <<handle, run_lock, handle_lock, next_input_id, run_of, seen_run,
                 seen_input, timed, threads, core, attempts>>

RunPrepare(t) ==
  /\ pc[t] = "prepare"
  /\ next_run_id' = next_run_id + 1
  /\ state' = next_run_id /\ observed' = {}
  /\ active_run_id' = next_run_id
  /\ Goto(t, "start")
  /\ UNCHANGED <<handle, run_lock, handle_lock, next_input_id, run_of, seen_run,
                 seen_input, timed, threads, core, attempts>>

\* max_turns out of range: the lock was taken, no Run was made.
RunRefused(t) ==
  /\ pc[t] = "prepare"
  /\ Goto(t, "clear")
  /\ UNCHANGED <<session, run_of, seen_run, seen_input, timed, threads, core,
                 attempts>>

\* Thread.start creates the thread, then waits until it has begun.
RunStart(t) ==
  /\ pc[t] = "start"
  /\ phase' = [phase EXCEPT ![run_of[t]] = "ready"]
  /\ Goto(t, "starting")
  /\ UNCHANGED <<session, run_of, seen_run, seen_input, timed, returned, abandoned,
                 core, attempts>>

RunStartFails(t) ==
  /\ pc[t] = "start"
  /\ Goto(t, "clear")
  /\ UNCHANGED <<session, run_of, seen_run, seen_input, timed, threads, core,
                 attempts>>

RunStarted(t) ==
  /\ pc[t] = "starting"
  /\ Goto(t, "join")
  /\ UNCHANGED <<session, run_of, seen_run, seen_input, timed, threads, core,
                 attempts>>

Join(t) ==
  /\ pc[t] = "join" /\ phase[run_of[t]] = "dead"
  /\ Goto(t, "collect")
  /\ UNCHANGED <<session, run_of, seen_run, seen_input, timed, threads, core,
                 attempts>>

InterruptJoin(t) ==
  /\ t = Main
  /\ pc[t] = "join"
  /\ Goto(t, "interrupt_read")
  /\ UNCHANGED <<session, run_of, seen_run, seen_input, timed, threads, core,
                 attempts>>

InterruptRead(t) == pc[t] = "interrupt_read" /\ AbortRead(t, "interrupt_native", "join_again")
InterruptAbort(t) == pc[t] = "interrupt_native" /\ AbortCall(t, "join_again")

JoinAgain(t) ==
  /\ pc[t] = "join_again" /\ phase[run_of[t]] = "dead"
  /\ Goto(t, "clear")
  /\ UNCHANGED <<session, run_of, seen_run, seen_input, timed, threads, core,
                 attempts>>

InterruptAgain(t) ==
  /\ t = Main
  /\ pc[t] = "join_again"
  /\ Goto(t, "abandon")
  /\ UNCHANGED <<session, run_of, seen_run, seen_input, timed, threads, core,
                 attempts>>

\* Mutant: the caller finishes the Run whether its thread has returned or not.
Abandon_Finishes(t) ==
  /\ pc[t] = "abandon"
  /\ abandoned' = [abandoned EXCEPT ![run_of[t]] = TRUE]
  /\ Goto(t, "clear")
  /\ UNCHANGED <<session, run_of, seen_run, seen_input, timed, phase, returned,
                 core, attempts>>

\* Under _RunThread._lock: whoever comes second closes the Run.
Abandon(t) ==
  /\ pc[t] = "abandon"
  /\ abandoned' = [abandoned EXCEPT ![run_of[t]] = ~returned[run_of[t]]]
  /\ Goto(t, IF returned[run_of[t]] THEN "clear" ELSE "idle")
  /\ UNCHANGED <<session, run_of, seen_run, seen_input, timed, phase, returned,
                 core, attempts>>

Collect(t) ==
  /\ pc[t] = "collect"
  /\ Goto(t, "clear")
  /\ UNCHANGED <<session, run_of, seen_run, seen_input, timed, threads, core,
                 attempts>>

\* _finish_run: the fields first, the lock last.
ClearRun ==
  /\ active_run_id' = 0 /\ state' = 0 /\ observed' = {}
  /\ UNCHANGED <<handle, run_lock, handle_lock, next_run_id, next_input_id>>
ReleaseRun ==
  /\ run_lock' = 0
  /\ UNCHANGED <<handle, handle_lock, active_run_id, next_run_id, next_input_id,
                 state, observed>>

FinishClear(t) ==
  /\ pc[t] = "clear" /\ ClearRun
  /\ Goto(t, "release")
  /\ UNCHANGED <<run_of, seen_run, seen_input, timed, threads, core, attempts>>
FinishRelease(t) ==
  /\ pc[t] = "release" /\ ReleaseRun
  /\ run_of' = [run_of EXCEPT ![t] = 0]
  /\ Goto(t, "idle")
  /\ UNCHANGED <<seen_run, seen_input, timed, threads, core, attempts>>

-----------------------------------------------------------------------------
(* The Run's own thread                                                     *)

\* The native call: AgentCore refuses a closed Session and a second Run.
NativeCall(r) ==
  /\ phase[r] = "ready"
  /\ IF alive /\ core_run = 0
       THEN /\ core_run' = r
            /\ phase' = [phase EXCEPT ![r] = "native"]
       ELSE /\ phase' = [phase EXCEPT ![r] = "ended"]
            /\ UNCHANGED core_run
  /\ UNCHANGED <<session, calls, returned, abandoned, alive, core_aborted,
                 inputs, attempts>>

\* An event of the Run is observed by whatever _state is.
Event(r) ==
  /\ phase[r] = "native" /\ r \notin observed
  /\ observed' = IF state = 0 THEN observed ELSE observed \cup {r}
  /\ UNCHANGED <<handle, run_lock, handle_lock, active_run_id, next_run_id,
                 next_input_id, state, calls, threads, core, attempts>>

\* A listener raises: run() will raise its error; the active Run is aborted.
ListenerRaises(r) ==
  /\ phase[r] = "native" /\ ~core_aborted
  /\ IF active_run_id # 0 /\ handle
       THEN core_aborted' = (core_aborted \/ core_run = active_run_id)
       ELSE UNCHANGED core_aborted
  /\ UNCHANGED <<handle, run_lock, handle_lock, active_run_id, next_run_id,
                 next_input_id, state, observed, calls, threads, alive, core_run,
                 inputs, attempts>>

NativeReturns(r) ==
  /\ phase[r] = "native"
  /\ core_run' = 0
  /\ phase' = [phase EXCEPT ![r] = "ended"]
  /\ core_aborted' = FALSE /\ inputs' = {}
  /\ UNCHANGED <<session, calls, returned, abandoned, alive, attempts>>

\* Mutant: the thread finishes the Run although its caller still waits.
RunReturned_Finishes(r) ==
  /\ phase[r] = "ended"
  /\ returned' = [returned EXCEPT ![r] = TRUE]
  /\ phase' = [phase EXCEPT ![r] = "clear"]
  /\ UNCHANGED <<session, calls, abandoned, core, attempts>>

\* Under _RunThread._lock: returned is set and abandoned read in one section.
RunReturned(r) ==
  /\ phase[r] = "ended"
  /\ returned' = [returned EXCEPT ![r] = TRUE]
  /\ phase' = [phase EXCEPT ![r] = IF abandoned[r] THEN "clear" ELSE "dead"]
  /\ UNCHANGED <<session, calls, abandoned, core, attempts>>

RunThreadClear(r) ==
  /\ phase[r] = "clear" /\ ClearRun
  /\ phase' = [phase EXCEPT ![r] = "release"]
  /\ UNCHANGED <<calls, returned, abandoned, core, attempts>>
RunThreadRelease(r) ==
  /\ phase[r] = "release" /\ ReleaseRun
  /\ phase' = [phase EXCEPT ![r] = "dead"]
  /\ UNCHANGED <<calls, returned, abandoned, core, attempts>>

-----------------------------------------------------------------------------
(* close()                                                                  *)

CloseCall(t) ==
  /\ pc[t] = "idle" /\ handle
  /\ \E limited \in BOOLEAN : timed' = [timed EXCEPT ![t] = limited]
  /\ Goto(t, "close_try")
  /\ UNCHANGED <<session, run_of, seen_run, seen_input, threads, core, attempts>>

CloseAcquire(t) ==
  /\ pc[t] = "close_try" /\ run_lock = 0
  /\ run_lock' = CloseHolds
  /\ Goto(t, "close_check")
  /\ UNCHANGED <<handle, handle_lock, active_run_id, next_run_id, next_input_id,
                 state, observed, run_of, seen_run, seen_input,
                 timed, threads, core, attempts>>

\* Mutant: close only waits.
CloseWaited_Silent(t) ==
  /\ pc[t] = "close_try" /\ run_lock # 0
  /\ Goto(t, "close_deadline")
  /\ UNCHANGED <<session, run_of, seen_run, seen_input, timed, threads, core,
                 attempts>>

\* acquire(timeout=0.05) gave up: abort the active Run and try again.
CloseWaited(t) ==
  /\ pc[t] = "close_try" /\ run_lock # 0
  /\ Goto(t, "close_read")
  /\ UNCHANGED <<session, run_of, seen_run, seen_input, timed, threads, core,
                 attempts>>
CloseRead(t) == pc[t] = "close_read" /\ AbortRead(t, "close_native", "close_deadline")
CloseAbort(t) == pc[t] = "close_native" /\ AbortCall(t, "close_deadline")
CloseRetry(t) ==
  /\ pc[t] = "close_deadline"
  /\ Goto(t, "close_try")
  /\ UNCHANGED <<session, run_of, seen_run, seen_input, timed, threads, core,
                 attempts>>
CloseTimesOut(t) ==
  /\ pc[t] = "close_deadline" /\ timed[t]
  /\ timed' = [timed EXCEPT ![t] = FALSE]
  /\ Goto(t, "idle")
  /\ UNCHANGED <<session, run_of, seen_run, seen_input, threads, core, attempts>>

\* Another close may have destroyed the Session meanwhile.
CloseCheck(t) ==
  /\ pc[t] = "close_check"
  /\ Goto(t, IF handle THEN "close_lock" ELSE "close_release")
  /\ UNCHANGED <<session, run_of, seen_run, seen_input, timed, threads, core,
                 attempts>>

\* Mutant: close does not wait for an update of the credential.
CloseTakesHandle_Unlocked(t) ==
  /\ pc[t] = "close_lock"
  /\ handle_lock' = TRUE
  /\ Goto(t, "destroy")
  /\ UNCHANGED <<handle, run_lock, active_run_id, next_run_id, next_input_id, state,
                 observed, run_of, seen_run, seen_input, timed,
                 threads, core, attempts>>

CloseTakesHandle(t) ==
  /\ pc[t] = "close_lock" /\ ~handle_lock
  /\ handle_lock' = TRUE
  /\ Goto(t, "destroy")
  /\ UNCHANGED <<handle, run_lock, active_run_id, next_run_id, next_input_id, state,
                 observed, run_of, seen_run, seen_input, timed,
                 threads, core, attempts>>

Destroy(t) ==
  /\ pc[t] = "destroy"
  /\ alive' = (core_run # 0)
  /\ Goto(t, IF core_run = 0 THEN "drop_handle" ELSE "keep_handle")
  /\ UNCHANGED <<session, run_of, seen_run, seen_input, timed, threads, core_run,
                 core_aborted, inputs, attempts>>

DestroyReturned(t) ==
  /\ pc[t] \in {"drop_handle", "keep_handle"}
  /\ handle' = (pc[t] = "keep_handle")
  /\ handle_lock' = FALSE
  /\ Goto(t, "close_release")
  /\ UNCHANGED <<run_lock, active_run_id, next_run_id, next_input_id, state,
                 observed, run_of, seen_run, seen_input, timed, threads, core,
                 attempts>>

CloseRelease(t) ==
  /\ pc[t] = "close_release" /\ ReleaseRun
  /\ timed' = [timed EXCEPT ![t] = FALSE]
  /\ Goto(t, "idle")
  /\ UNCHANGED <<run_of, seen_run, seen_input, threads, core, attempts>>

-----------------------------------------------------------------------------
(* abort(), submit(), update_credential()                                   *)

AbortStart(t) == pc[t] = "idle" /\ AbortRead(t, "abort_native", "idle")
AbortFinish(t) == pc[t] = "abort_native" /\ AbortCall(t, "idle")

SubmitCall(t) ==
  /\ pc[t] = "idle" /\ active_run_id # 0 /\ next_input_id <= MaxInput
  /\ seen_run' = [seen_run EXCEPT ![t] = active_run_id]
  /\ seen_input' = [seen_input EXCEPT ![t] = next_input_id]
  /\ Goto(t, "submit_bump")
  /\ UNCHANGED <<session, run_of, timed, threads, core, attempts>>
\* The id was read, now it is incremented: no lock is held.
SubmitBumpId(t) ==
  /\ pc[t] = "submit_bump"
  /\ next_input_id' = next_input_id + 1
  /\ Goto(t, "submit_native")
  /\ UNCHANGED <<handle, run_lock, handle_lock, active_run_id, next_run_id, state,
                 observed, run_of, seen_run, seen_input, timed,
                 threads, core, attempts>>
\* AgentCore takes it for the active Run, under an id that Run has not seen.
SubmitNative(t) ==
  /\ pc[t] = "submit_native"
  /\ inputs' = IF alive /\ core_run = seen_run[t] /\ ~core_aborted
                 THEN inputs \cup {seen_input[t]} ELSE inputs
  /\ seen_run' = [seen_run EXCEPT ![t] = 0]
  /\ seen_input' = [seen_input EXCEPT ![t] = 0]
  /\ Goto(t, "idle")
  /\ UNCHANGED <<session, run_of, timed, threads, alive, core_run, core_aborted,
                 attempts>>

UpdateCall(t) ==
  /\ pc[t] = "idle" /\ ~handle_lock
  /\ handle_lock' = TRUE
  /\ Goto(t, "update_check")
  /\ UNCHANGED <<handle, run_lock, active_run_id, next_run_id, next_input_id, state,
                 observed, run_of, seen_run, seen_input, timed,
                 threads, core, attempts>>
UpdateCheck(t) ==
  /\ pc[t] = "update_check"
  /\ Goto(t, IF handle THEN "update_native" ELSE "update_release")
  /\ UNCHANGED <<session, run_of, seen_run, seen_input, timed, threads, core,
                 attempts>>
UpdateReturns(t) ==
  /\ pc[t] = "update_native"
  /\ Goto(t, "update_release")
  /\ UNCHANGED <<session, run_of, seen_run, seen_input, timed, threads, core,
                 attempts>>
UpdateRelease(t) ==
  /\ pc[t] = "update_release"
  /\ handle_lock' = FALSE
  /\ Goto(t, "idle")
  /\ UNCHANGED <<handle, run_lock, active_run_id, next_run_id, next_input_id, state,
                 observed, run_of, seen_run, seen_input, timed,
                 threads, core, attempts>>

-----------------------------------------------------------------------------
\* What a thread does once it has entered a call.
InCall(t) ==
  \/ RunAcquire(t) \/ RunPrepare(t) \/ RunRefused(t) \/ RunStart(t) \/ RunStartFails(t)
  \/ RunStarted(t) \/ Join(t) \/ InterruptRead(t) \/ InterruptAbort(t) \/ JoinAgain(t)
  \/ Abandon(t) \/ Collect(t) \/ FinishClear(t) \/ FinishRelease(t)
  \/ CloseAcquire(t) \/ CloseWaited(t) \/ CloseRead(t) \/ CloseAbort(t) \/ CloseRetry(t)
  \/ CloseCheck(t) \/ CloseTakesHandle(t) \/ Destroy(t) \/ DestroyReturned(t)
  \/ CloseRelease(t) \/ AbortFinish(t)
  \/ SubmitBumpId(t) \/ SubmitNative(t)
  \/ UpdateCheck(t) \/ UpdateReturns(t) \/ UpdateRelease(t)
Enter(t) ==
  RunCall(t) \/ CloseCall(t) \/ AbortStart(t) \/ SubmitCall(t) \/ UpdateCall(t)
\* Ctrl+C while the main thread waits for a Run.
Interrupt(t) == InterruptJoin(t) \/ InterruptAgain(t)
\* What a Run's thread does without waiting for anybody.
RunThread(r) ==
  NativeCall(r) \/ RunReturned(r) \/ RunThreadClear(r) \/ RunThreadRelease(r)

Next ==
  \/ \E t \in Threads : Enter(t) \/ InCall(t) \/ Interrupt(t) \/ CloseTimesOut(t)
  \/ \E r \in Runs : RunThread(r) \/ Event(r) \/ ListenerRaises(r) \/ NativeReturns(r)

Spec == Init /\ [][Next]_vars

\* Threads go on, a lock that is free again and again is got, and an aborted
\* Run returns (abort is cooperative); a Run nobody aborts may go on for ever.
AbortedReturns(r) == core_aborted /\ NativeReturns(r)
FairSpec ==
  /\ Spec
  /\ \A t \in Threads : SF_vars(InCall(t)) /\ SF_vars(CloseAcquire(t))
  /\ \A r \in Runs : WF_vars(RunThread(r)) /\ WF_vars(AbortedReturns(r))

-----------------------------------------------------------------------------
\* Types: the fields of the Session and where every call and Run thread is.
TypeOK ==
  /\ handle \in BOOLEAN /\ run_lock \in 0..CloseHolds /\ handle_lock \in BOOLEAN
  /\ active_run_id \in 0..MaxRun /\ next_run_id \in 1..(MaxRun + 1)
  /\ next_input_id \in Nat
  /\ state \in 0..MaxRun /\ observed \in SUBSET Runs
  /\ pc \in [Threads -> PCs] /\ run_of \in [Threads -> 0..MaxRun]
  /\ seen_run \in [Threads -> 0..MaxRun] /\ seen_input \in [Threads -> Nat]
  /\ timed \in [Threads -> BOOLEAN]
  /\ phase \in [Runs -> Phases] /\ returned \in [Runs -> BOOLEAN]
  /\ abandoned \in [Runs -> BOOLEAN]
  /\ alive \in BOOLEAN /\ core_run \in 0..MaxRun /\ core_aborted \in BOOLEAN
  /\ inputs \in SUBSET Nat
  /\ attempts \in 0..MaxRun

\* A Session whose lock is free has no Run: no thread of one is on its way
\* into, inside or out of AgentCore (the promise of _RunThread and run()).
IdleMeansEnded ==
  run_lock = 0 => core_run = 0 /\ \A r \in Runs : phase[r] \in {"none", "dead"}

\* The lock is released by the Run or close it was taken for: each Run is
\* finished once, by its caller or, when that stopped waiting, by its thread.
ReleasesOwnLock ==
  /\ \A t \in Threads :
       /\ pc[t] \in {"clear", "release"} => run_lock = run_of[t]
       /\ pc[t] = "close_release" => run_lock = CloseHolds
  /\ \A r \in Runs : phase[r] \in {"clear", "release"} => run_lock = r

\* A RunResult is built from the events of its own Run only.
ResultIsOwn ==
  \A t \in Threads : pc[t] = "collect" => state = run_of[t] /\ observed \subseteq {run_of[t]}

\* Every call into AgentCore finds it as the call needs it: close() destroys an
\* idle Session that nobody destroyed before, run() starts on an idle one (a Run
\* that met a finished close is told so), update_credential uses a live handle.
CoreCallsLegal ==
  /\ \A t \in Threads : /\ pc[t] = "destroy" => core_run = 0 /\ alive
                        /\ pc[t] = "update_native" => alive
  /\ \A r \in Runs : phase[r] = "ready" => core_run = 0

\* close() without a timeout returns, whatever Runs are going: aborted Runs
\* return, abandoned ones are finished by their own thread.
CloseReturns ==
  \A t \in Threads : (pc[t] \in InClose /\ ~timed[t]) ~> (pc[t] = "idle")
=============================================================================
