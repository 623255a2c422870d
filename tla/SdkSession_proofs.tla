--------------------------- MODULE SdkSession_proofs ---------------------------
(***************************************************************************)
(* Proofs about SdkSession for every number of host threads, Runs and      *)
(* inputs.  Who may finish a Run is decided by two locks and three flags;   *)
(* IInv says, for every place a call can be at, which of them protect it.  *)
(***************************************************************************)
EXTENDS SdkSession, TLAPS

(* Where a call holds _run_lock for its Run, and where a close holds it.    *)
RunHolds(t) == pc[t] \in InRun \ {"acquire"}
CloseHoldsLock(t) ==
  pc[t] \in {"close_check", "close_lock", "destroy", "drop_handle", "keep_handle",
             "close_release"}

\* run() after the Run's thread exists and before it is known to be dead.
Waits == {"starting", "join", "interrupt_read", "interrupt_native", "join_again",
          "abandon"}

(* _run_lock has one holder: a thread in run() that has not given its Run   *)
(* up, a thread in close(), or the thread of an abandoned Run.              *)
LockHeld ==
  /\ \A t \in Threads :
       /\ RunHolds(t) => /\ run_of[t] \in Runs /\ run_lock = run_of[t]
                         /\ ~abandoned[run_of[t]]
       /\ CloseHoldsLock(t) => run_lock = CloseHolds
  /\ \A t, u \in Threads :
       (RunHolds(t) \/ CloseHoldsLock(t)) /\ (RunHolds(u) \/ CloseHoldsLock(u)) => t = u

(* Run ids are new: no Run at or above next_run_id was ever started.        *)
IdsFresh ==
  /\ next_run_id <= attempts + 1
  /\ \A t \in Threads :
       /\ pc[t] = "prepare" => run_of[t] = next_run_id /\ next_run_id <= attempts
       /\ pc[t] \in InRun \ {"acquire", "prepare", "clear", "release"} =>
            run_of[t] < next_run_id
       /\ pc[t] = "start" => phase[run_of[t]] = "none"
       /\ pc[t] \in Waits => phase[run_of[t]] # "none"
  /\ \A r \in Runs :
       /\ r >= next_run_id => phase[r] = "none"
       /\ phase[r] = "none" => ~returned[r] /\ ~abandoned[r]

(* A Run on its way holds the lock, and of its caller and its own thread    *)
(* the one that comes second finishes it.                                   *)
RunsFinishOnce ==
  /\ \A r \in Runs :
       /\ phase[r] \notin {"none", "dead"} => run_lock = r
       /\ phase[r] \in {"clear", "release"} => abandoned[r]
       /\ returned[r] => phase[r] \in {"clear", "release", "dead"}
  /\ \A t \in Threads :
       pc[t] \in {"collect", "clear", "release"} => phase[run_of[t]] \in {"none", "dead"}

(* AgentCore runs exactly the Run whose thread is in the native call.       *)
CoreAgrees ==
  /\ core_run # 0 => core_run \in Runs /\ phase[core_run] = "native"
  /\ \A r \in Runs : phase[r] = "native" => core_run = r

(* _handle_lock guards the handle: only its holder destroys or forgets it.  *)
HandleHolds(t) ==
  pc[t] \in {"destroy", "drop_handle", "keep_handle", "update_check",
             "update_native", "update_release"}
HandleHeld ==
  /\ \A t \in Threads : HandleHolds(t) => handle_lock
  /\ \A t, u \in Threads : HandleHolds(t) /\ HandleHolds(u) => t = u
  /\ \A t \in Threads :
       pc[t] \in {"close_lock", "destroy", "drop_handle", "keep_handle",
                  "update_native"} => handle
  /\ handle => alive \/ \E t \in Threads : pc[t] = "drop_handle"

(* _state is that of the Run the lock is held for, and what it has observed *)
(* is gone before the lock is.                                              *)
StateIsOwn ==
  /\ \A t \in Threads :
       /\ pc[t] \in InRun \ {"acquire", "prepare", "clear", "release"} =>
            state = run_of[t]
       /\ pc[t] = "release" => observed = {}
  /\ \A r \in Runs : phase[r] = "release" => observed = {}
  /\ observed \subseteq {run_lock}

IInv ==
  /\ TypeOK
  /\ LockHeld
  /\ IdsFresh
  /\ RunsFinishOnce
  /\ CoreAgrees
  /\ HandleHeld
  /\ StateIsOwn

-----------------------------------------------------------------------------
(* A quiet step moves a call between places no invariant tells apart, and   *)
(* touches only what no invariant but TypeOK mentions.                       *)
Free == {"idle", "acquire", "abort_native", "submit_bump", "submit_native",
         "close_try", "close_read", "close_native", "close_deadline"}
Quiet(t) ==
  /\ \E place \in Free \cup Waits :
       /\ {pc[t], place} \subseteq Free \/ {pc[t], place} \subseteq Waits
       /\ pc' = [pc EXCEPT ![t] = place]
  /\ seen_run' \in [Threads -> 0..MaxRun] /\ seen_input' \in [Threads -> Nat]
  /\ timed' \in [Threads -> BOOLEAN] /\ next_input_id' \in Nat
  /\ core_aborted' \in BOOLEAN /\ inputs' \in SUBSET Nat
  /\ UNCHANGED <<handle, run_lock, handle_lock, active_run_id, next_run_id, state,
                 observed, run_of, threads, alive, core_run, attempts>>

(* IInv tells no two states a quiet step connects apart.                    *)
LEMMA QuietStepKeeps ==
  ASSUME IInv, NEW t \in Threads, Quiet(t)
  PROVE  IInv'
  <1>1. PICK place \in Free \cup Waits :
          /\ {pc[t], place} \subseteq Free \/ {pc[t], place} \subseteq Waits
          /\ pc' = [pc EXCEPT ![t] = place]
    BY DEF Quiet
  <1>2. /\ seen_run' \in [Threads -> 0..MaxRun] /\ seen_input' \in [Threads -> Nat]
        /\ timed' \in [Threads -> BOOLEAN] /\ next_input_id' \in Nat
        /\ core_aborted' \in BOOLEAN /\ inputs' \in SUBSET Nat
    BY DEF Quiet
  <1>3. UNCHANGED <<handle, run_lock, handle_lock, active_run_id, next_run_id, state,
                   observed, run_of, phase, returned, abandoned, alive, core_run,
                   attempts>>
    BY DEF Quiet, threads
  <1>4. pc \in [Threads -> PCs]
    BY DEF IInv, TypeOK
  <1>5. TypeOK'
    BY <1>1, <1>2, <1>3, <1>4, SdkAssumption DEF IInv, Free, Waits, TypeOK, PCs,
       InRun, InClose, InAbort, InSubmit, InUpdate
  <1>6. LockHeld'
    BY <1>1, <1>3, <1>4 DEF IInv, Free, Waits, LockHeld, RunHolds, CloseHoldsLock,
       InRun
  <1>7. IdsFresh'
    BY <1>1, <1>3, <1>4 DEF IInv, Free, Waits, IdsFresh, InRun
  <1>8. RunsFinishOnce'
    BY <1>1, <1>3, <1>4 DEF IInv, Free, Waits, RunsFinishOnce
  <1>9. CoreAgrees'
    BY <1>1, <1>3, <1>4 DEF IInv, Free, Waits, CoreAgrees
  <1>10. HandleHeld'
    BY <1>1, <1>3, <1>4 DEF IInv, Free, Waits, HandleHeld, HandleHolds
  <1>11. StateIsOwn'
    BY <1>1, <1>3, <1>4 DEF IInv, Free, Waits, StateIsOwn, InRun
  <1> QED  BY <1>5, <1>6, <1>7, <1>8, <1>9, <1>10, <1>11 DEF IInv

(* Waiting, being interrupted while waiting, retrying, and the whole of     *)
(* abort() and submit() are quiet.                                          *)
LEMMA QuietSteps ==
  ASSUME IInv, NEW t \in Threads,
         RunCall(t) \/ RunStarted(t) \/ InterruptJoin(t) \/ InterruptRead(t) \/
         InterruptAbort(t) \/ InterruptAgain(t) \/ CloseCall(t) \/ CloseWaited(t) \/
         CloseRead(t) \/ CloseAbort(t) \/ CloseRetry(t) \/ CloseTimesOut(t) \/
         AbortStart(t) \/ AbortFinish(t) \/ SubmitCall(t) \/ SubmitBumpId(t) \/
         SubmitNative(t)
  PROVE  Quiet(t)
  <1>1. ASSUME RunCall(t) PROVE Quiet(t)
    BY <1>1, SdkAssumption DEF RunCall, Goto, session, threads, core, Quiet, Free,
       Waits, IInv, TypeOK
  <1>2. ASSUME RunStarted(t) PROVE Quiet(t)
    BY <1>2, SdkAssumption DEF RunStarted, Goto, session, threads, core, Quiet,
       Free, Waits, IInv, TypeOK
  <1>3. ASSUME InterruptJoin(t) PROVE Quiet(t)
    BY <1>3, SdkAssumption DEF InterruptJoin, Goto, session, threads, core, Quiet,
       Free, Waits, IInv, TypeOK
  <1>4. ASSUME InterruptRead(t) PROVE Quiet(t)
    <2>1. CASE active_run_id # 0 /\ handle
      BY <1>4, SdkAssumption, <2>1 DEF InterruptRead, AbortRead, Goto, session,
         threads, core, Quiet, Free, Waits, IInv, TypeOK
    <2>2. CASE ~(active_run_id # 0 /\ handle)
      BY <1>4, SdkAssumption, <2>2 DEF InterruptRead, AbortRead, Goto, session,
         threads, core, Quiet, Free, Waits, IInv, TypeOK
    <2> QED  BY <2>1, <2>2
  <1>5. ASSUME InterruptAbort(t) PROVE Quiet(t)
    <2>1. core_aborted' \in BOOLEAN
      <3>1. CASE alive
        BY <1>5, <3>1 DEF IInv, TypeOK, InterruptAbort, AbortCall, CoreAbort
      <3>2. CASE ~alive
        BY <1>5, <3>2 DEF IInv, TypeOK, InterruptAbort, AbortCall, core
      <3> QED  BY <3>1, <3>2
    <2>2. UNCHANGED <<alive, core_run, inputs>>
      BY <1>5 DEF InterruptAbort, AbortCall, CoreAbort, core
    <2> QED
      BY <1>5, SdkAssumption, <2>1, <2>2 DEF InterruptAbort, AbortCall, Goto,
         session, threads, Quiet, Free, Waits, IInv, TypeOK
  <1>6. ASSUME InterruptAgain(t) PROVE Quiet(t)
    BY <1>6, SdkAssumption DEF InterruptAgain, Goto, session, threads, core, Quiet,
       Free, Waits, IInv, TypeOK
  <1>7. ASSUME CloseCall(t) PROVE Quiet(t)
    BY <1>7, SdkAssumption DEF CloseCall, Goto, session, threads, core, Quiet, Free,
       Waits, IInv, TypeOK
  <1>8. ASSUME CloseWaited(t) PROVE Quiet(t)
    BY <1>8, SdkAssumption DEF CloseWaited, Goto, session, threads, core, Quiet,
       Free, Waits, IInv, TypeOK
  <1>9. ASSUME CloseRead(t) PROVE Quiet(t)
    <2>1. CASE active_run_id # 0 /\ handle
      BY <1>9, SdkAssumption, <2>1 DEF CloseRead, AbortRead, Goto, session, threads,
         core, Quiet, Free, Waits, IInv, TypeOK
    <2>2. CASE ~(active_run_id # 0 /\ handle)
      BY <1>9, SdkAssumption, <2>2 DEF CloseRead, AbortRead, Goto, session, threads,
         core, Quiet, Free, Waits, IInv, TypeOK
    <2> QED  BY <2>1, <2>2
  <1>10. ASSUME CloseAbort(t) PROVE Quiet(t)
    <2>1. core_aborted' \in BOOLEAN
      <3>1. CASE alive
        BY <1>10, <3>1 DEF IInv, TypeOK, CloseAbort, AbortCall, CoreAbort
      <3>2. CASE ~alive
        BY <1>10, <3>2 DEF IInv, TypeOK, CloseAbort, AbortCall, core
      <3> QED  BY <3>1, <3>2
    <2>2. UNCHANGED <<alive, core_run, inputs>>
      BY <1>10 DEF CloseAbort, AbortCall, CoreAbort, core
    <2> QED
      BY <1>10, SdkAssumption, <2>1, <2>2 DEF CloseAbort, AbortCall, Goto, session,
         threads, Quiet, Free, Waits, IInv, TypeOK
  <1>11. ASSUME CloseRetry(t) PROVE Quiet(t)
    BY <1>11, SdkAssumption DEF CloseRetry, Goto, session, threads, core, Quiet,
       Free, Waits, IInv, TypeOK
  <1>12. ASSUME CloseTimesOut(t) PROVE Quiet(t)
    BY <1>12, SdkAssumption DEF CloseTimesOut, Goto, session, threads, core, Quiet,
       Free, Waits, IInv, TypeOK
  <1>13. ASSUME AbortStart(t) PROVE Quiet(t)
    <2>1. CASE active_run_id # 0 /\ handle
      BY <1>13, SdkAssumption, <2>1 DEF AbortStart, AbortRead, Goto, session,
         threads, core, Quiet, Free, Waits, IInv, TypeOK
    <2>2. CASE ~(active_run_id # 0 /\ handle)
      BY <1>13, SdkAssumption, <2>2 DEF AbortStart, AbortRead, Goto, session,
         threads, core, Quiet, Free, Waits, IInv, TypeOK
    <2> QED  BY <2>1, <2>2
  <1>14. ASSUME AbortFinish(t) PROVE Quiet(t)
    <2>1. core_aborted' \in BOOLEAN
      <3>1. CASE alive
        BY <1>14, <3>1 DEF IInv, TypeOK, AbortFinish, AbortCall, CoreAbort
      <3>2. CASE ~alive
        BY <1>14, <3>2 DEF IInv, TypeOK, AbortFinish, AbortCall, core
      <3> QED  BY <3>1, <3>2
    <2>2. UNCHANGED <<alive, core_run, inputs>>
      BY <1>14 DEF AbortFinish, AbortCall, CoreAbort, core
    <2> QED
      BY <1>14, SdkAssumption, <2>1, <2>2 DEF AbortFinish, AbortCall, Goto, session,
         threads, Quiet, Free, Waits, IInv, TypeOK
  <1>15. ASSUME SubmitCall(t) PROVE Quiet(t)
    BY <1>15, SdkAssumption DEF SubmitCall, Goto, session, threads, core, Quiet,
       Free, Waits, IInv, TypeOK
  <1>16. ASSUME SubmitBumpId(t) PROVE Quiet(t)
    BY <1>16, SdkAssumption DEF SubmitBumpId, Goto, threads, core, Quiet, Free,
       Waits, IInv, TypeOK
  <1>17. ASSUME SubmitNative(t) PROVE Quiet(t)
    <2>1. inputs' \in SUBSET Nat
      <3>1. inputs \subseteq Nat /\ seen_input[t] \in Nat
        BY DEF IInv, TypeOK
      <3> QED  BY <1>17, <3>1 DEF SubmitNative
    <2> QED
      BY <1>17, SdkAssumption, <2>1 DEF SubmitNative, Goto, session, threads, Quiet,
         Free, Waits, IInv, TypeOK
  <1> QED  BY <1>1, <1>2, <1>3, <1>4, <1>5, <1>6, <1>7, <1>8, <1>9, <1>10, <1>11,
              <1>12, <1>13, <1>14, <1>15, <1>16, <1>17

(* What a thread does in run().                                             *)
LEMMA RunStepKeeps ==
  ASSUME IInv, NEW t \in Threads,
         RunAcquire(t) \/ RunPrepare(t) \/ RunRefused(t) \/ RunStart(t) \/ RunStartFails(t)
         \/ Join(t) \/ JoinAgain(t) \/ Abandon(t) \/ Collect(t) \/ FinishClear(t) \/
         FinishRelease(t)
  PROVE  IInv'
  <1>1. ASSUME RunAcquire(t) PROVE IInv'
    <2>1. CASE run_lock = 0 /\ attempts < MaxRun
      <3>1. \A u \in Threads : ~RunHolds(u) /\ ~CloseHoldsLock(u)
        BY <2>1, SdkAssumption DEF IInv, TypeOK, LockHeld, Runs, CloseHolds
      <3>2. \A r \in Runs : phase[r] \in {"none", "dead"}
        BY <2>1 DEF IInv, RunsFinishOnce, Runs
      <3>3. observed = {}
        BY <2>1 DEF IInv, TypeOK, StateIsOwn, Runs
      <3>4. /\ run_lock' = next_run_id /\ pc' = [pc EXCEPT ![t] = "prepare"]
            /\ attempts' = attempts + 1
            /\ run_of' = [run_of EXCEPT ![t] = next_run_id]
        BY <1>1, <2>1 DEF RunAcquire, Goto
      <3>5. UNCHANGED <<handle, handle_lock, active_run_id, next_run_id, next_input_id,
                       state, observed, seen_run, seen_input, timed, phase, returned,
                       abandoned, core>>
        BY <1>1 DEF RunAcquire, threads
      <3>6. next_run_id \in Runs /\ pc[t] = "acquire"
        BY <1>1, <2>1, SdkAssumption DEF RunAcquire, IInv, TypeOK, IdsFresh, Runs
      <3>7. TypeOK'
        BY <2>1, <3>1, <3>2, <3>3, <3>4, <3>5, <3>6, SdkAssumption DEF IInv, core,
           TypeOK, LockHeld, IdsFresh, RunsFinishOnce, CoreAgrees, HandleHeld,
           StateIsOwn, RunHolds, CloseHoldsLock, HandleHolds, Waits, Runs,
           CloseHolds, InRun, PCs, InClose, InAbort, InSubmit, InUpdate, Phases
      <3>8. LockHeld'
        BY <2>1, <3>1, <3>2, <3>3, <3>4, <3>5, <3>6, SdkAssumption DEF IInv, core,
           TypeOK, LockHeld, IdsFresh, RunsFinishOnce, CoreAgrees, HandleHeld,
           StateIsOwn, RunHolds, CloseHoldsLock, HandleHolds, Waits, Runs,
           CloseHolds, InRun, PCs, InClose, InAbort, InSubmit, InUpdate, Phases
      <3>9. IdsFresh'
        BY <2>1, <3>1, <3>2, <3>3, <3>4, <3>5, <3>6, SdkAssumption DEF IInv, core,
           TypeOK, LockHeld, IdsFresh, RunsFinishOnce, CoreAgrees, HandleHeld,
           StateIsOwn, RunHolds, CloseHoldsLock, HandleHolds, Waits, Runs,
           CloseHolds, InRun, PCs, InClose, InAbort, InSubmit, InUpdate, Phases
      <3>10. RunsFinishOnce'
        BY <2>1, <3>1, <3>2, <3>3, <3>4, <3>5, <3>6, SdkAssumption DEF IInv, core,
           TypeOK, LockHeld, IdsFresh, RunsFinishOnce, CoreAgrees, HandleHeld,
           StateIsOwn, RunHolds, CloseHoldsLock, HandleHolds, Waits, Runs,
           CloseHolds, InRun, PCs, InClose, InAbort, InSubmit, InUpdate, Phases
      <3>11. CoreAgrees'
        BY <2>1, <3>1, <3>2, <3>3, <3>4, <3>5, <3>6, SdkAssumption DEF IInv, core,
           TypeOK, LockHeld, IdsFresh, RunsFinishOnce, CoreAgrees, HandleHeld,
           StateIsOwn, RunHolds, CloseHoldsLock, HandleHolds, Waits, Runs,
           CloseHolds, InRun, PCs, InClose, InAbort, InSubmit, InUpdate, Phases
      <3>12. HandleHeld'
        BY <2>1, <3>1, <3>2, <3>3, <3>4, <3>5, <3>6, SdkAssumption DEF IInv, core,
           TypeOK, LockHeld, IdsFresh, RunsFinishOnce, CoreAgrees, HandleHeld,
           StateIsOwn, RunHolds, CloseHoldsLock, HandleHolds, Waits, Runs,
           CloseHolds, InRun, PCs, InClose, InAbort, InSubmit, InUpdate, Phases
      <3>13. StateIsOwn'
        BY <2>1, <3>1, <3>2, <3>3, <3>4, <3>5, <3>6, SdkAssumption DEF IInv, core,
           TypeOK, LockHeld, IdsFresh, RunsFinishOnce, CoreAgrees, HandleHeld,
           StateIsOwn, RunHolds, CloseHoldsLock, HandleHolds, Waits, Runs,
           CloseHolds, InRun, PCs, InClose, InAbort, InSubmit, InUpdate, Phases
      <3> QED  BY <3>7, <3>8, <3>9, <3>10, <3>11, <3>12, <3>13 DEF IInv
    <2>2. CASE ~(run_lock = 0 /\ attempts < MaxRun)
      <3>1. Quiet(t)
        BY <1>1, <2>2 DEF RunAcquire, Goto, IInv, TypeOK, Quiet, Free, Waits,
           threads, core
      <3> QED  BY <3>1, QuietStepKeeps
    <2> QED  BY <2>1, <2>2
  <1>2. ASSUME RunPrepare(t) PROVE IInv'
    <2>1. TypeOK'
      BY <1>2, SdkAssumption DEF RunPrepare, IInv, TypeOK, LockHeld, RunHolds,
         IdsFresh, Runs, CloseHolds, InRun, PCs, InClose, InAbort, InSubmit,
         InUpdate, Phases, Goto, threads, core
    <2>2. LockHeld'
      BY <1>2, SdkAssumption DEF RunPrepare, IInv, LockHeld, TypeOK, RunHolds,
         CloseHoldsLock, InRun, IdsFresh, RunsFinishOnce, Runs, CloseHolds, Goto,
         threads, core
    <2>3. IdsFresh'
      BY <1>2, SdkAssumption DEF RunPrepare, IInv, IdsFresh, TypeOK, LockHeld,
         RunHolds, InRun, Waits, RunsFinishOnce, Runs, Goto, threads, core
    <2>4. RunsFinishOnce'
      BY <1>2, SdkAssumption DEF RunPrepare, IInv, RunsFinishOnce, TypeOK, LockHeld,
         RunHolds, CloseHoldsLock, InRun, IdsFresh, Waits, Runs, CloseHolds,
         CoreAgrees, Goto, threads, core
    <2>5. CoreAgrees'
      BY <1>2, SdkAssumption DEF RunPrepare, IInv, CoreAgrees, TypeOK,
         RunsFinishOnce, Runs, IdsFresh, LockHeld, RunHolds, InRun, Goto, threads,
         core
    <2>6. HandleHeld'
      BY <1>2, SdkAssumption DEF RunPrepare, IInv, HandleHeld, TypeOK, HandleHolds,
         LockHeld, CloseHoldsLock, Goto, threads, core
    <2>7. StateIsOwn'
      BY <1>2, SdkAssumption DEF RunPrepare, IInv, StateIsOwn, TypeOK, LockHeld,
         RunHolds, CloseHoldsLock, InRun, IdsFresh, Waits, RunsFinishOnce, Runs,
         CloseHolds, Goto, threads, core
    <2> QED  BY <2>1, <2>2, <2>3, <2>4, <2>5, <2>6, <2>7 DEF IInv
  <1>3. ASSUME RunRefused(t) PROVE IInv'
    <2>1. TypeOK'
      BY <1>3, SdkAssumption DEF RunRefused, IInv, TypeOK, LockHeld, RunHolds,
         IdsFresh, Runs, CloseHolds, InRun, PCs, InClose, InAbort, InSubmit,
         InUpdate, Phases, Goto, session, threads, core
    <2>2. LockHeld'
      BY <1>3, SdkAssumption DEF RunRefused, IInv, LockHeld, TypeOK, RunHolds,
         CloseHoldsLock, InRun, IdsFresh, RunsFinishOnce, Runs, CloseHolds, Goto,
         session, threads, core
    <2>3. IdsFresh'
      BY <1>3, SdkAssumption DEF RunRefused, IInv, IdsFresh, TypeOK, LockHeld,
         RunHolds, InRun, Waits, RunsFinishOnce, Runs, Goto, session, threads, core
    <2>4. RunsFinishOnce'
      BY <1>3, SdkAssumption DEF RunRefused, IInv, RunsFinishOnce, TypeOK, LockHeld,
         RunHolds, CloseHoldsLock, InRun, IdsFresh, Waits, Runs, CloseHolds,
         CoreAgrees, Goto, session, threads, core
    <2>5. CoreAgrees'
      BY <1>3, SdkAssumption DEF RunRefused, IInv, CoreAgrees, TypeOK,
         RunsFinishOnce, Runs, IdsFresh, LockHeld, RunHolds, InRun, Goto, session,
         threads, core
    <2>6. HandleHeld'
      BY <1>3, SdkAssumption DEF RunRefused, IInv, HandleHeld, TypeOK, HandleHolds,
         LockHeld, CloseHoldsLock, Goto, session, threads, core
    <2>7. StateIsOwn'
      BY <1>3, SdkAssumption DEF RunRefused, IInv, StateIsOwn, TypeOK, LockHeld,
         RunHolds, CloseHoldsLock, InRun, IdsFresh, Waits, RunsFinishOnce, Runs,
         CloseHolds, Goto, session, threads, core
    <2> QED  BY <2>1, <2>2, <2>3, <2>4, <2>5, <2>6, <2>7 DEF IInv
  <1>4. ASSUME RunStart(t) PROVE IInv'
    <2>1. TypeOK'
      BY <1>4, SdkAssumption DEF RunStart, IInv, TypeOK, LockHeld, RunHolds,
         IdsFresh, Runs, CloseHolds, InRun, PCs, InClose, InAbort, InSubmit,
         InUpdate, Phases, Goto, session, core
    <2>2. LockHeld'
      BY <1>4, SdkAssumption DEF RunStart, IInv, LockHeld, TypeOK, RunHolds,
         CloseHoldsLock, InRun, IdsFresh, RunsFinishOnce, Runs, CloseHolds, Goto,
         session, core
    <2>3. IdsFresh'
      <3>1. pc[t] = "start" /\ pc' = [pc EXCEPT ![t] = "starting"]
            /\ phase' = [phase EXCEPT ![run_of[t]] = "ready"]
        BY <1>4 DEF RunStart, Goto
      <3>2. UNCHANGED <<next_run_id, run_of, returned, abandoned, attempts>>
        BY <1>4 DEF RunStart, session
      <3>3. run_of[t] \in Runs /\ \A u \in Threads : RunHolds(u) => u = t
        BY <3>1 DEF IInv, LockHeld, RunHolds, InRun
      <3>4. run_of[t] < next_run_id
        BY <3>1 DEF IInv, IdsFresh, InRun
      <3>5. \A u \in Threads :
              /\ pc[u]' = "prepare" => run_of[u]' = next_run_id' /\ next_run_id' <= attempts'
              /\ pc[u]' \in InRun \ {"acquire", "prepare", "clear", "release"} =>
                   run_of[u]' < next_run_id'
        BY <3>1, <3>2, <3>4 DEF IInv, TypeOK, IdsFresh, InRun
      <3>6. \A u \in Threads :
              /\ pc[u]' = "start" => phase[run_of[u]]' = "none"
              /\ pc[u]' \in Waits => phase[run_of[u]]' # "none"
        BY <3>1, <3>2, <3>3 DEF IInv, TypeOK, RunHolds, InRun, Waits
      <3>7. \A q \in Runs : /\ q >= next_run_id' => phase[q]' = "none"
                            /\ phase[q]' = "none" => ~returned[q]' /\ ~abandoned[q]'
        BY <3>1, <3>2, <3>3, <3>4, SdkAssumption DEF IInv, TypeOK, IdsFresh, Runs
      <3>8. next_run_id' <= attempts' + 1
        BY <3>2 DEF IInv, IdsFresh
      <3> QED
        BY <3>5, <3>6, <3>7, <3>8 DEF IdsFresh, InRun, Waits, Runs
    <2>4. RunsFinishOnce'
      BY <1>4, SdkAssumption DEF RunStart, IInv, RunsFinishOnce, TypeOK, LockHeld,
         RunHolds, CloseHoldsLock, InRun, IdsFresh, Waits, Runs, CloseHolds,
         CoreAgrees, Goto, session, core
    <2>5. CoreAgrees'
      BY <1>4, SdkAssumption DEF RunStart, IInv, CoreAgrees, TypeOK, RunsFinishOnce,
         Runs, IdsFresh, LockHeld, RunHolds, InRun, Goto, session, core
    <2>6. HandleHeld'
      BY <1>4, SdkAssumption DEF RunStart, IInv, HandleHeld, TypeOK, HandleHolds,
         LockHeld, CloseHoldsLock, Goto, session, core
    <2>7. StateIsOwn'
      BY <1>4, SdkAssumption DEF RunStart, IInv, StateIsOwn, TypeOK, LockHeld,
         RunHolds, CloseHoldsLock, InRun, IdsFresh, Waits, RunsFinishOnce, Runs,
         CloseHolds, Goto, session, core
    <2> QED  BY <2>1, <2>2, <2>3, <2>4, <2>5, <2>6, <2>7 DEF IInv
  <1>5. ASSUME RunStartFails(t) PROVE IInv'
    <2>1. TypeOK'
      BY <1>5, SdkAssumption DEF RunStartFails, IInv, TypeOK, LockHeld, RunHolds,
         IdsFresh, Runs, CloseHolds, InRun, PCs, InClose, InAbort, InSubmit,
         InUpdate, Phases, Goto, session, threads, core
    <2>2. LockHeld'
      BY <1>5, SdkAssumption DEF RunStartFails, IInv, LockHeld, TypeOK, RunHolds,
         CloseHoldsLock, InRun, IdsFresh, RunsFinishOnce, Runs, CloseHolds, Goto,
         session, threads, core
    <2>3. IdsFresh'
      BY <1>5, SdkAssumption DEF RunStartFails, IInv, IdsFresh, TypeOK, LockHeld,
         RunHolds, InRun, Waits, RunsFinishOnce, Runs, Goto, session, threads, core
    <2>4. RunsFinishOnce'
      BY <1>5, SdkAssumption DEF RunStartFails, IInv, RunsFinishOnce, TypeOK,
         LockHeld, RunHolds, CloseHoldsLock, InRun, IdsFresh, Waits, Runs,
         CloseHolds, CoreAgrees, Goto, session, threads, core
    <2>5. CoreAgrees'
      BY <1>5, SdkAssumption DEF RunStartFails, IInv, CoreAgrees, TypeOK,
         RunsFinishOnce, Runs, IdsFresh, LockHeld, RunHolds, InRun, Goto, session,
         threads, core
    <2>6. HandleHeld'
      BY <1>5, SdkAssumption DEF RunStartFails, IInv, HandleHeld, TypeOK,
         HandleHolds, LockHeld, CloseHoldsLock, Goto, session, threads, core
    <2>7. StateIsOwn'
      BY <1>5, SdkAssumption DEF RunStartFails, IInv, StateIsOwn, TypeOK, LockHeld,
         RunHolds, CloseHoldsLock, InRun, IdsFresh, Waits, RunsFinishOnce, Runs,
         CloseHolds, Goto, session, threads, core
    <2> QED  BY <2>1, <2>2, <2>3, <2>4, <2>5, <2>6, <2>7 DEF IInv
  <1>6. ASSUME Join(t) PROVE IInv'
    <2>1. TypeOK'
      BY <1>6, SdkAssumption DEF Join, IInv, TypeOK, LockHeld, RunHolds, IdsFresh,
         Runs, CloseHolds, InRun, PCs, InClose, InAbort, InSubmit, InUpdate, Phases,
         Goto, session, threads, core
    <2>2. LockHeld'
      BY <1>6, SdkAssumption DEF Join, IInv, LockHeld, TypeOK, RunHolds,
         CloseHoldsLock, InRun, IdsFresh, RunsFinishOnce, Runs, CloseHolds, Goto,
         session, threads, core
    <2>3. IdsFresh'
      BY <1>6, SdkAssumption DEF Join, IInv, IdsFresh, TypeOK, LockHeld, RunHolds,
         InRun, Waits, RunsFinishOnce, Runs, Goto, session, threads, core
    <2>4. RunsFinishOnce'
      BY <1>6, SdkAssumption DEF Join, IInv, RunsFinishOnce, TypeOK, LockHeld,
         RunHolds, CloseHoldsLock, InRun, IdsFresh, Waits, Runs, CloseHolds,
         CoreAgrees, Goto, session, threads, core
    <2>5. CoreAgrees'
      BY <1>6, SdkAssumption DEF Join, IInv, CoreAgrees, TypeOK, RunsFinishOnce,
         Runs, IdsFresh, LockHeld, RunHolds, InRun, Goto, session, threads, core
    <2>6. HandleHeld'
      BY <1>6, SdkAssumption DEF Join, IInv, HandleHeld, TypeOK, HandleHolds,
         LockHeld, CloseHoldsLock, Goto, session, threads, core
    <2>7. StateIsOwn'
      BY <1>6, SdkAssumption DEF Join, IInv, StateIsOwn, TypeOK, LockHeld, RunHolds,
         CloseHoldsLock, InRun, IdsFresh, Waits, RunsFinishOnce, Runs, CloseHolds,
         Goto, session, threads, core
    <2> QED  BY <2>1, <2>2, <2>3, <2>4, <2>5, <2>6, <2>7 DEF IInv
  <1>7. ASSUME JoinAgain(t) PROVE IInv'
    <2>1. TypeOK'
      BY <1>7, SdkAssumption DEF JoinAgain, IInv, TypeOK, LockHeld, RunHolds,
         IdsFresh, Runs, CloseHolds, InRun, PCs, InClose, InAbort, InSubmit,
         InUpdate, Phases, Goto, session, threads, core
    <2>2. LockHeld'
      BY <1>7, SdkAssumption DEF JoinAgain, IInv, LockHeld, TypeOK, RunHolds,
         CloseHoldsLock, InRun, IdsFresh, RunsFinishOnce, Runs, CloseHolds, Goto,
         session, threads, core
    <2>3. IdsFresh'
      BY <1>7, SdkAssumption DEF JoinAgain, IInv, IdsFresh, TypeOK, LockHeld,
         RunHolds, InRun, Waits, RunsFinishOnce, Runs, Goto, session, threads, core
    <2>4. RunsFinishOnce'
      BY <1>7, SdkAssumption DEF JoinAgain, IInv, RunsFinishOnce, TypeOK, LockHeld,
         RunHolds, CloseHoldsLock, InRun, IdsFresh, Waits, Runs, CloseHolds,
         CoreAgrees, Goto, session, threads, core
    <2>5. CoreAgrees'
      BY <1>7, SdkAssumption DEF JoinAgain, IInv, CoreAgrees, TypeOK,
         RunsFinishOnce, Runs, IdsFresh, LockHeld, RunHolds, InRun, Goto, session,
         threads, core
    <2>6. HandleHeld'
      BY <1>7, SdkAssumption DEF JoinAgain, IInv, HandleHeld, TypeOK, HandleHolds,
         LockHeld, CloseHoldsLock, Goto, session, threads, core
    <2>7. StateIsOwn'
      BY <1>7, SdkAssumption DEF JoinAgain, IInv, StateIsOwn, TypeOK, LockHeld,
         RunHolds, CloseHoldsLock, InRun, IdsFresh, Waits, RunsFinishOnce, Runs,
         CloseHolds, Goto, session, threads, core
    <2> QED  BY <2>1, <2>2, <2>3, <2>4, <2>5, <2>6, <2>7 DEF IInv
  <1>8. ASSUME Abandon(t) PROVE IInv'
    <2>1. TypeOK'
      BY <1>8, SdkAssumption DEF Abandon, IInv, TypeOK, LockHeld, RunHolds,
         IdsFresh, Runs, CloseHolds, InRun, PCs, InClose, InAbort, InSubmit,
         InUpdate, Phases, Goto, session, core
    <2>2. LockHeld'
      BY <1>8, SdkAssumption DEF Abandon, IInv, LockHeld, TypeOK, RunHolds,
         CloseHoldsLock, InRun, IdsFresh, RunsFinishOnce, Runs, CloseHolds, Goto,
         session, core
    <2>3. IdsFresh'
      <3>1. CASE returned[run_of[t]]
        BY <1>8, SdkAssumption, <3>1 DEF Abandon, IInv, TypeOK, LockHeld, IdsFresh,
           RunsFinishOnce, CoreAgrees, HandleHeld, StateIsOwn, RunHolds,
           CloseHoldsLock, HandleHolds, Waits, Runs, CloseHolds, InRun, PCs,
           InClose, InAbort, InSubmit, InUpdate, Phases, Goto, session, core
      <3>2. CASE ~returned[run_of[t]]
        BY <1>8, SdkAssumption, <3>2 DEF Abandon, IInv, TypeOK, LockHeld, IdsFresh,
           RunsFinishOnce, CoreAgrees, HandleHeld, StateIsOwn, RunHolds,
           CloseHoldsLock, HandleHolds, Waits, Runs, CloseHolds, InRun, PCs,
           InClose, InAbort, InSubmit, InUpdate, Phases, Goto, session, core
      <3> QED  BY <3>1, <3>2
    <2>4. RunsFinishOnce'
      BY <1>8, SdkAssumption DEF Abandon, IInv, RunsFinishOnce, TypeOK, LockHeld,
         RunHolds, CloseHoldsLock, InRun, IdsFresh, Waits, Runs, CloseHolds,
         CoreAgrees, Goto, session, core
    <2>5. CoreAgrees'
      BY <1>8, SdkAssumption DEF Abandon, IInv, CoreAgrees, TypeOK, RunsFinishOnce,
         Runs, IdsFresh, LockHeld, RunHolds, InRun, Goto, session, core
    <2>6. HandleHeld'
      BY <1>8, SdkAssumption DEF Abandon, IInv, HandleHeld, TypeOK, HandleHolds,
         LockHeld, CloseHoldsLock, Goto, session, core
    <2>7. StateIsOwn'
      BY <1>8, SdkAssumption DEF Abandon, IInv, StateIsOwn, TypeOK, LockHeld,
         RunHolds, CloseHoldsLock, InRun, IdsFresh, Waits, RunsFinishOnce, Runs,
         CloseHolds, Goto, session, core
    <2> QED  BY <2>1, <2>2, <2>3, <2>4, <2>5, <2>6, <2>7 DEF IInv
  <1>9. ASSUME Collect(t) PROVE IInv'
    <2>1. TypeOK'
      BY <1>9, SdkAssumption DEF Collect, IInv, TypeOK, LockHeld, RunHolds,
         IdsFresh, Runs, CloseHolds, InRun, PCs, InClose, InAbort, InSubmit,
         InUpdate, Phases, Goto, session, threads, core
    <2>2. LockHeld'
      BY <1>9, SdkAssumption DEF Collect, IInv, LockHeld, TypeOK, RunHolds,
         CloseHoldsLock, InRun, IdsFresh, RunsFinishOnce, Runs, CloseHolds, Goto,
         session, threads, core
    <2>3. IdsFresh'
      BY <1>9, SdkAssumption DEF Collect, IInv, IdsFresh, TypeOK, LockHeld,
         RunHolds, InRun, Waits, RunsFinishOnce, Runs, Goto, session, threads, core
    <2>4. RunsFinishOnce'
      BY <1>9, SdkAssumption DEF Collect, IInv, RunsFinishOnce, TypeOK, LockHeld,
         RunHolds, CloseHoldsLock, InRun, IdsFresh, Waits, Runs, CloseHolds,
         CoreAgrees, Goto, session, threads, core
    <2>5. CoreAgrees'
      BY <1>9, SdkAssumption DEF Collect, IInv, CoreAgrees, TypeOK, RunsFinishOnce,
         Runs, IdsFresh, LockHeld, RunHolds, InRun, Goto, session, threads, core
    <2>6. HandleHeld'
      BY <1>9, SdkAssumption DEF Collect, IInv, HandleHeld, TypeOK, HandleHolds,
         LockHeld, CloseHoldsLock, Goto, session, threads, core
    <2>7. StateIsOwn'
      BY <1>9, SdkAssumption DEF Collect, IInv, StateIsOwn, TypeOK, LockHeld,
         RunHolds, CloseHoldsLock, InRun, IdsFresh, Waits, RunsFinishOnce, Runs,
         CloseHolds, Goto, session, threads, core
    <2> QED  BY <2>1, <2>2, <2>3, <2>4, <2>5, <2>6, <2>7 DEF IInv
  <1>10. ASSUME FinishClear(t) PROVE IInv'
    <2>1. TypeOK'
      BY <1>10, SdkAssumption DEF FinishClear, ClearRun, IInv, TypeOK, LockHeld,
         RunHolds, IdsFresh, Runs, CloseHolds, InRun, PCs, InClose, InAbort,
         InSubmit, InUpdate, Phases, Goto, threads, core
    <2>2. LockHeld'
      BY <1>10, SdkAssumption DEF FinishClear, ClearRun, IInv, LockHeld, TypeOK,
         RunHolds, CloseHoldsLock, InRun, IdsFresh, RunsFinishOnce, Runs,
         CloseHolds, Goto, threads, core
    <2>3. IdsFresh'
      BY <1>10, SdkAssumption DEF FinishClear, ClearRun, IInv, IdsFresh, TypeOK,
         LockHeld, RunHolds, InRun, Waits, RunsFinishOnce, Runs, Goto, threads, core
    <2>4. RunsFinishOnce'
      BY <1>10, SdkAssumption DEF FinishClear, ClearRun, IInv, RunsFinishOnce,
         TypeOK, LockHeld, RunHolds, CloseHoldsLock, InRun, IdsFresh, Waits, Runs,
         CloseHolds, CoreAgrees, Goto, threads, core
    <2>5. CoreAgrees'
      BY <1>10, SdkAssumption DEF FinishClear, ClearRun, IInv, CoreAgrees, TypeOK,
         RunsFinishOnce, Runs, IdsFresh, LockHeld, RunHolds, InRun, Goto, threads,
         core
    <2>6. HandleHeld'
      BY <1>10, SdkAssumption DEF FinishClear, ClearRun, IInv, HandleHeld, TypeOK,
         HandleHolds, LockHeld, CloseHoldsLock, Goto, threads, core
    <2>7. StateIsOwn'
      BY <1>10, SdkAssumption DEF FinishClear, ClearRun, IInv, StateIsOwn, TypeOK,
         LockHeld, RunHolds, CloseHoldsLock, InRun, IdsFresh, Waits, RunsFinishOnce,
         Runs, CloseHolds, Goto, threads, core
    <2> QED  BY <2>1, <2>2, <2>3, <2>4, <2>5, <2>6, <2>7 DEF IInv
  <1>11. ASSUME FinishRelease(t) PROVE IInv'
    <2>1. TypeOK'
      BY <1>11, SdkAssumption DEF FinishRelease, ReleaseRun, IInv, TypeOK, LockHeld,
         RunHolds, IdsFresh, Runs, CloseHolds, InRun, PCs, InClose, InAbort,
         InSubmit, InUpdate, Phases, Goto, threads, core
    <2>2. LockHeld'
      BY <1>11, SdkAssumption DEF FinishRelease, ReleaseRun, IInv, LockHeld, TypeOK,
         RunHolds, CloseHoldsLock, InRun, IdsFresh, RunsFinishOnce, Runs,
         CloseHolds, Goto, threads, core
    <2>3. IdsFresh'
      BY <1>11, SdkAssumption DEF FinishRelease, ReleaseRun, IInv, IdsFresh, TypeOK,
         LockHeld, RunHolds, InRun, Waits, RunsFinishOnce, Runs, Goto, threads, core
    <2>4. RunsFinishOnce'
      BY <1>11, SdkAssumption DEF FinishRelease, ReleaseRun, IInv, RunsFinishOnce,
         TypeOK, LockHeld, RunHolds, CloseHoldsLock, InRun, IdsFresh, Waits, Runs,
         CloseHolds, CoreAgrees, Goto, threads, core
    <2>5. CoreAgrees'
      BY <1>11, SdkAssumption DEF FinishRelease, ReleaseRun, IInv, CoreAgrees,
         TypeOK, RunsFinishOnce, Runs, IdsFresh, LockHeld, RunHolds, InRun, Goto,
         threads, core
    <2>6. HandleHeld'
      BY <1>11, SdkAssumption DEF FinishRelease, ReleaseRun, IInv, HandleHeld,
         TypeOK, HandleHolds, LockHeld, CloseHoldsLock, Goto, threads, core
    <2>7. StateIsOwn'
      BY <1>11, SdkAssumption DEF FinishRelease, ReleaseRun, IInv, StateIsOwn,
         TypeOK, LockHeld, RunHolds, CloseHoldsLock, InRun, IdsFresh, Waits,
         RunsFinishOnce, Runs, CloseHolds, Goto, threads, core
    <2> QED  BY <2>1, <2>2, <2>3, <2>4, <2>5, <2>6, <2>7 DEF IInv
  <1> QED  BY <1>1, <1>2, <1>3, <1>4, <1>5, <1>6, <1>7, <1>8, <1>9, <1>10, <1>11

(* What a thread does in close().                                           *)
LEMMA CloseStepKeeps ==
  ASSUME IInv, NEW t \in Threads,
         CloseAcquire(t) \/ CloseCheck(t) \/ CloseTakesHandle(t) \/ Destroy(t) \/
         DestroyReturned(t) \/ CloseRelease(t)
  PROVE  IInv'
  <1>1. ASSUME CloseAcquire(t) PROVE IInv'
    <2>1. TypeOK'
      BY <1>1, SdkAssumption DEF CloseAcquire, IInv, TypeOK, LockHeld, RunHolds,
         IdsFresh, Runs, CloseHolds, InRun, PCs, InClose, InAbort, InSubmit,
         InUpdate, Phases, Goto, threads, core
    <2>2. LockHeld'
      BY <1>1, SdkAssumption DEF CloseAcquire, IInv, LockHeld, TypeOK, RunHolds,
         CloseHoldsLock, InRun, IdsFresh, RunsFinishOnce, Runs, CloseHolds, Goto,
         threads, core
    <2>3. IdsFresh'
      BY <1>1, SdkAssumption DEF CloseAcquire, IInv, IdsFresh, TypeOK, LockHeld,
         RunHolds, InRun, Waits, RunsFinishOnce, Runs, Goto, threads, core
    <2>4. RunsFinishOnce'
      BY <1>1, SdkAssumption DEF CloseAcquire, IInv, RunsFinishOnce, TypeOK,
         LockHeld, RunHolds, CloseHoldsLock, InRun, IdsFresh, Waits, Runs,
         CloseHolds, CoreAgrees, Goto, threads, core
    <2>5. CoreAgrees'
      BY <1>1, SdkAssumption DEF CloseAcquire, IInv, CoreAgrees, TypeOK,
         RunsFinishOnce, Runs, IdsFresh, LockHeld, RunHolds, InRun, Goto, threads,
         core
    <2>6. HandleHeld'
      BY <1>1, SdkAssumption DEF CloseAcquire, IInv, HandleHeld, TypeOK,
         HandleHolds, LockHeld, CloseHoldsLock, Goto, threads, core
    <2>7. StateIsOwn'
      BY <1>1, SdkAssumption DEF CloseAcquire, IInv, StateIsOwn, TypeOK, LockHeld,
         RunHolds, CloseHoldsLock, InRun, IdsFresh, Waits, RunsFinishOnce, Runs,
         CloseHolds, Goto, threads, core
    <2> QED  BY <2>1, <2>2, <2>3, <2>4, <2>5, <2>6, <2>7 DEF IInv
  <1>2. ASSUME CloseCheck(t) PROVE IInv'
    <2>1. TypeOK'
      BY <1>2, SdkAssumption DEF CloseCheck, IInv, TypeOK, LockHeld, RunHolds,
         IdsFresh, Runs, CloseHolds, InRun, PCs, InClose, InAbort, InSubmit,
         InUpdate, Phases, Goto, session, threads, core
    <2>2. LockHeld'
      BY <1>2, SdkAssumption DEF CloseCheck, IInv, LockHeld, TypeOK, RunHolds,
         CloseHoldsLock, InRun, IdsFresh, RunsFinishOnce, Runs, CloseHolds, Goto,
         session, threads, core
    <2>3. IdsFresh'
      BY <1>2, SdkAssumption DEF CloseCheck, IInv, IdsFresh, TypeOK, LockHeld,
         RunHolds, InRun, Waits, RunsFinishOnce, Runs, Goto, session, threads, core
    <2>4. RunsFinishOnce'
      BY <1>2, SdkAssumption DEF CloseCheck, IInv, RunsFinishOnce, TypeOK, LockHeld,
         RunHolds, CloseHoldsLock, InRun, IdsFresh, Waits, Runs, CloseHolds,
         CoreAgrees, Goto, session, threads, core
    <2>5. CoreAgrees'
      BY <1>2, SdkAssumption DEF CloseCheck, IInv, CoreAgrees, TypeOK,
         RunsFinishOnce, Runs, IdsFresh, LockHeld, RunHolds, InRun, Goto, session,
         threads, core
    <2>6. HandleHeld'
      BY <1>2, SdkAssumption DEF CloseCheck, IInv, HandleHeld, TypeOK, HandleHolds,
         LockHeld, CloseHoldsLock, Goto, session, threads, core
    <2>7. StateIsOwn'
      BY <1>2, SdkAssumption DEF CloseCheck, IInv, StateIsOwn, TypeOK, LockHeld,
         RunHolds, CloseHoldsLock, InRun, IdsFresh, Waits, RunsFinishOnce, Runs,
         CloseHolds, Goto, session, threads, core
    <2> QED  BY <2>1, <2>2, <2>3, <2>4, <2>5, <2>6, <2>7 DEF IInv
  <1>3. ASSUME CloseTakesHandle(t) PROVE IInv'
    <2>1. TypeOK'
      BY <1>3, SdkAssumption DEF CloseTakesHandle, IInv, TypeOK, LockHeld, RunHolds,
         IdsFresh, Runs, CloseHolds, InRun, PCs, InClose, InAbort, InSubmit,
         InUpdate, Phases, Goto, threads, core
    <2>2. LockHeld'
      BY <1>3, SdkAssumption DEF CloseTakesHandle, IInv, LockHeld, TypeOK, RunHolds,
         CloseHoldsLock, InRun, IdsFresh, RunsFinishOnce, Runs, CloseHolds, Goto,
         threads, core
    <2>3. IdsFresh'
      BY <1>3, SdkAssumption DEF CloseTakesHandle, IInv, IdsFresh, TypeOK, LockHeld,
         RunHolds, InRun, Waits, RunsFinishOnce, Runs, Goto, threads, core
    <2>4. RunsFinishOnce'
      BY <1>3, SdkAssumption DEF CloseTakesHandle, IInv, RunsFinishOnce, TypeOK,
         LockHeld, RunHolds, CloseHoldsLock, InRun, IdsFresh, Waits, Runs,
         CloseHolds, CoreAgrees, Goto, threads, core
    <2>5. CoreAgrees'
      BY <1>3, SdkAssumption DEF CloseTakesHandle, IInv, CoreAgrees, TypeOK,
         RunsFinishOnce, Runs, IdsFresh, LockHeld, RunHolds, InRun, Goto, threads,
         core
    <2>6. HandleHeld'
      BY <1>3, SdkAssumption DEF CloseTakesHandle, IInv, HandleHeld, TypeOK,
         HandleHolds, LockHeld, CloseHoldsLock, Goto, threads, core
    <2>7. StateIsOwn'
      BY <1>3, SdkAssumption DEF CloseTakesHandle, IInv, StateIsOwn, TypeOK,
         LockHeld, RunHolds, CloseHoldsLock, InRun, IdsFresh, Waits, RunsFinishOnce,
         Runs, CloseHolds, Goto, threads, core
    <2> QED  BY <2>1, <2>2, <2>3, <2>4, <2>5, <2>6, <2>7 DEF IInv
  <1>4. ASSUME Destroy(t) PROVE IInv'
    <2>1. TypeOK'
      BY <1>4, SdkAssumption DEF Destroy, IInv, TypeOK, LockHeld, RunHolds,
         IdsFresh, Runs, CloseHolds, InRun, PCs, InClose, InAbort, InSubmit,
         InUpdate, Phases, Goto, session, threads
    <2>2. LockHeld'
      BY <1>4, SdkAssumption DEF Destroy, IInv, LockHeld, TypeOK, RunHolds,
         CloseHoldsLock, InRun, IdsFresh, RunsFinishOnce, Runs, CloseHolds, Goto,
         session, threads
    <2>3. IdsFresh'
      BY <1>4, SdkAssumption DEF Destroy, IInv, IdsFresh, TypeOK, LockHeld,
         RunHolds, InRun, Waits, RunsFinishOnce, Runs, Goto, session, threads
    <2>4. RunsFinishOnce'
      BY <1>4, SdkAssumption DEF Destroy, IInv, RunsFinishOnce, TypeOK, LockHeld,
         RunHolds, CloseHoldsLock, InRun, IdsFresh, Waits, Runs, CloseHolds,
         CoreAgrees, Goto, session, threads
    <2>5. CoreAgrees'
      BY <1>4, SdkAssumption DEF Destroy, IInv, CoreAgrees, TypeOK, RunsFinishOnce,
         Runs, IdsFresh, LockHeld, RunHolds, InRun, Goto, session, threads
    <2>6. HandleHeld'
      BY <1>4, SdkAssumption DEF Destroy, IInv, HandleHeld, TypeOK, HandleHolds,
         LockHeld, CloseHoldsLock, Goto, session, threads
    <2>7. StateIsOwn'
      BY <1>4, SdkAssumption DEF Destroy, IInv, StateIsOwn, TypeOK, LockHeld,
         RunHolds, CloseHoldsLock, InRun, IdsFresh, Waits, RunsFinishOnce, Runs,
         CloseHolds, Goto, session, threads
    <2> QED  BY <2>1, <2>2, <2>3, <2>4, <2>5, <2>6, <2>7 DEF IInv
  <1>5. ASSUME DestroyReturned(t) PROVE IInv'
    <2>1. TypeOK'
      BY <1>5, SdkAssumption DEF DestroyReturned, IInv, TypeOK, LockHeld, RunHolds,
         IdsFresh, Runs, CloseHolds, InRun, PCs, InClose, InAbort, InSubmit,
         InUpdate, Phases, Goto, threads, core
    <2>2. LockHeld'
      BY <1>5, SdkAssumption DEF DestroyReturned, IInv, LockHeld, TypeOK, RunHolds,
         CloseHoldsLock, InRun, IdsFresh, RunsFinishOnce, Runs, CloseHolds, Goto,
         threads, core
    <2>3. IdsFresh'
      BY <1>5, SdkAssumption DEF DestroyReturned, IInv, IdsFresh, TypeOK, LockHeld,
         RunHolds, InRun, Waits, RunsFinishOnce, Runs, Goto, threads, core
    <2>4. RunsFinishOnce'
      BY <1>5, SdkAssumption DEF DestroyReturned, IInv, RunsFinishOnce, TypeOK,
         LockHeld, RunHolds, CloseHoldsLock, InRun, IdsFresh, Waits, Runs,
         CloseHolds, CoreAgrees, Goto, threads, core
    <2>5. CoreAgrees'
      BY <1>5, SdkAssumption DEF DestroyReturned, IInv, CoreAgrees, TypeOK,
         RunsFinishOnce, Runs, IdsFresh, LockHeld, RunHolds, InRun, Goto, threads,
         core
    <2>6. HandleHeld'
      BY <1>5, SdkAssumption DEF DestroyReturned, IInv, HandleHeld, TypeOK,
         HandleHolds, LockHeld, CloseHoldsLock, Goto, threads, core
    <2>7. StateIsOwn'
      BY <1>5, SdkAssumption DEF DestroyReturned, IInv, StateIsOwn, TypeOK,
         LockHeld, RunHolds, CloseHoldsLock, InRun, IdsFresh, Waits, RunsFinishOnce,
         Runs, CloseHolds, Goto, threads, core
    <2> QED  BY <2>1, <2>2, <2>3, <2>4, <2>5, <2>6, <2>7 DEF IInv
  <1>6. ASSUME CloseRelease(t) PROVE IInv'
    <2>1. TypeOK'
      BY <1>6, SdkAssumption DEF CloseRelease, ReleaseRun, IInv, TypeOK, LockHeld,
         RunHolds, IdsFresh, Runs, CloseHolds, InRun, PCs, InClose, InAbort,
         InSubmit, InUpdate, Phases, Goto, threads, core
    <2>2. LockHeld'
      BY <1>6, SdkAssumption DEF CloseRelease, ReleaseRun, IInv, LockHeld, TypeOK,
         RunHolds, CloseHoldsLock, InRun, IdsFresh, RunsFinishOnce, Runs,
         CloseHolds, Goto, threads, core
    <2>3. IdsFresh'
      BY <1>6, SdkAssumption DEF CloseRelease, ReleaseRun, IInv, IdsFresh, TypeOK,
         LockHeld, RunHolds, InRun, Waits, RunsFinishOnce, Runs, Goto, threads, core
    <2>4. RunsFinishOnce'
      BY <1>6, SdkAssumption DEF CloseRelease, ReleaseRun, IInv, RunsFinishOnce,
         TypeOK, LockHeld, RunHolds, CloseHoldsLock, InRun, IdsFresh, Waits, Runs,
         CloseHolds, CoreAgrees, Goto, threads, core
    <2>5. CoreAgrees'
      BY <1>6, SdkAssumption DEF CloseRelease, ReleaseRun, IInv, CoreAgrees, TypeOK,
         RunsFinishOnce, Runs, IdsFresh, LockHeld, RunHolds, InRun, Goto, threads,
         core
    <2>6. HandleHeld'
      BY <1>6, SdkAssumption DEF CloseRelease, ReleaseRun, IInv, HandleHeld, TypeOK,
         HandleHolds, LockHeld, CloseHoldsLock, Goto, threads, core
    <2>7. StateIsOwn'
      BY <1>6, SdkAssumption DEF CloseRelease, ReleaseRun, IInv, StateIsOwn, TypeOK,
         LockHeld, RunHolds, CloseHoldsLock, InRun, IdsFresh, Waits, RunsFinishOnce,
         Runs, CloseHolds, Goto, threads, core
    <2> QED  BY <2>1, <2>2, <2>3, <2>4, <2>5, <2>6, <2>7 DEF IInv
  <1> QED  BY <1>1, <1>2, <1>3, <1>4, <1>5, <1>6

(* What a thread does in update_credential().                               *)
LEMMA UpdateStepKeeps ==
  ASSUME IInv, NEW t \in Threads,
         UpdateCall(t) \/ UpdateCheck(t) \/ UpdateReturns(t) \/ UpdateRelease(t)
  PROVE  IInv'
  <1>1. ASSUME UpdateCall(t) PROVE IInv'
    <2>1. TypeOK'
      BY <1>1, SdkAssumption DEF UpdateCall, IInv, TypeOK, LockHeld, RunHolds,
         IdsFresh, Runs, CloseHolds, InRun, PCs, InClose, InAbort, InSubmit,
         InUpdate, Phases, Goto, threads, core
    <2>2. LockHeld'
      BY <1>1, SdkAssumption DEF UpdateCall, IInv, LockHeld, TypeOK, RunHolds,
         CloseHoldsLock, InRun, IdsFresh, RunsFinishOnce, Runs, CloseHolds, Goto,
         threads, core
    <2>3. IdsFresh'
      BY <1>1, SdkAssumption DEF UpdateCall, IInv, IdsFresh, TypeOK, LockHeld,
         RunHolds, InRun, Waits, RunsFinishOnce, Runs, Goto, threads, core
    <2>4. RunsFinishOnce'
      BY <1>1, SdkAssumption DEF UpdateCall, IInv, RunsFinishOnce, TypeOK, LockHeld,
         RunHolds, CloseHoldsLock, InRun, IdsFresh, Waits, Runs, CloseHolds,
         CoreAgrees, Goto, threads, core
    <2>5. CoreAgrees'
      BY <1>1, SdkAssumption DEF UpdateCall, IInv, CoreAgrees, TypeOK,
         RunsFinishOnce, Runs, IdsFresh, LockHeld, RunHolds, InRun, Goto, threads,
         core
    <2>6. HandleHeld'
      BY <1>1, SdkAssumption DEF UpdateCall, IInv, HandleHeld, TypeOK, HandleHolds,
         LockHeld, CloseHoldsLock, Goto, threads, core
    <2>7. StateIsOwn'
      BY <1>1, SdkAssumption DEF UpdateCall, IInv, StateIsOwn, TypeOK, LockHeld,
         RunHolds, CloseHoldsLock, InRun, IdsFresh, Waits, RunsFinishOnce, Runs,
         CloseHolds, Goto, threads, core
    <2> QED  BY <2>1, <2>2, <2>3, <2>4, <2>5, <2>6, <2>7 DEF IInv
  <1>2. ASSUME UpdateCheck(t) PROVE IInv'
    <2>1. TypeOK'
      BY <1>2, SdkAssumption DEF UpdateCheck, IInv, TypeOK, LockHeld, RunHolds,
         IdsFresh, Runs, CloseHolds, InRun, PCs, InClose, InAbort, InSubmit,
         InUpdate, Phases, Goto, session, threads, core
    <2>2. LockHeld'
      BY <1>2, SdkAssumption DEF UpdateCheck, IInv, LockHeld, TypeOK, RunHolds,
         CloseHoldsLock, InRun, IdsFresh, RunsFinishOnce, Runs, CloseHolds, Goto,
         session, threads, core
    <2>3. IdsFresh'
      BY <1>2, SdkAssumption DEF UpdateCheck, IInv, IdsFresh, TypeOK, LockHeld,
         RunHolds, InRun, Waits, RunsFinishOnce, Runs, Goto, session, threads, core
    <2>4. RunsFinishOnce'
      BY <1>2, SdkAssumption DEF UpdateCheck, IInv, RunsFinishOnce, TypeOK,
         LockHeld, RunHolds, CloseHoldsLock, InRun, IdsFresh, Waits, Runs,
         CloseHolds, CoreAgrees, Goto, session, threads, core
    <2>5. CoreAgrees'
      BY <1>2, SdkAssumption DEF UpdateCheck, IInv, CoreAgrees, TypeOK,
         RunsFinishOnce, Runs, IdsFresh, LockHeld, RunHolds, InRun, Goto, session,
         threads, core
    <2>6. HandleHeld'
      BY <1>2, SdkAssumption DEF UpdateCheck, IInv, HandleHeld, TypeOK, HandleHolds,
         LockHeld, CloseHoldsLock, Goto, session, threads, core
    <2>7. StateIsOwn'
      BY <1>2, SdkAssumption DEF UpdateCheck, IInv, StateIsOwn, TypeOK, LockHeld,
         RunHolds, CloseHoldsLock, InRun, IdsFresh, Waits, RunsFinishOnce, Runs,
         CloseHolds, Goto, session, threads, core
    <2> QED  BY <2>1, <2>2, <2>3, <2>4, <2>5, <2>6, <2>7 DEF IInv
  <1>3. ASSUME UpdateReturns(t) PROVE IInv'
    <2>1. TypeOK'
      BY <1>3, SdkAssumption DEF UpdateReturns, IInv, TypeOK, LockHeld, RunHolds,
         IdsFresh, Runs, CloseHolds, InRun, PCs, InClose, InAbort, InSubmit,
         InUpdate, Phases, Goto, session, threads, core
    <2>2. LockHeld'
      BY <1>3, SdkAssumption DEF UpdateReturns, IInv, LockHeld, TypeOK, RunHolds,
         CloseHoldsLock, InRun, IdsFresh, RunsFinishOnce, Runs, CloseHolds, Goto,
         session, threads, core
    <2>3. IdsFresh'
      BY <1>3, SdkAssumption DEF UpdateReturns, IInv, IdsFresh, TypeOK, LockHeld,
         RunHolds, InRun, Waits, RunsFinishOnce, Runs, Goto, session, threads, core
    <2>4. RunsFinishOnce'
      BY <1>3, SdkAssumption DEF UpdateReturns, IInv, RunsFinishOnce, TypeOK,
         LockHeld, RunHolds, CloseHoldsLock, InRun, IdsFresh, Waits, Runs,
         CloseHolds, CoreAgrees, Goto, session, threads, core
    <2>5. CoreAgrees'
      BY <1>3, SdkAssumption DEF UpdateReturns, IInv, CoreAgrees, TypeOK,
         RunsFinishOnce, Runs, IdsFresh, LockHeld, RunHolds, InRun, Goto, session,
         threads, core
    <2>6. HandleHeld'
      BY <1>3, SdkAssumption DEF UpdateReturns, IInv, HandleHeld, TypeOK,
         HandleHolds, LockHeld, CloseHoldsLock, Goto, session, threads, core
    <2>7. StateIsOwn'
      BY <1>3, SdkAssumption DEF UpdateReturns, IInv, StateIsOwn, TypeOK, LockHeld,
         RunHolds, CloseHoldsLock, InRun, IdsFresh, Waits, RunsFinishOnce, Runs,
         CloseHolds, Goto, session, threads, core
    <2> QED  BY <2>1, <2>2, <2>3, <2>4, <2>5, <2>6, <2>7 DEF IInv
  <1>4. ASSUME UpdateRelease(t) PROVE IInv'
    <2>1. TypeOK'
      BY <1>4, SdkAssumption DEF UpdateRelease, IInv, TypeOK, LockHeld, RunHolds,
         IdsFresh, Runs, CloseHolds, InRun, PCs, InClose, InAbort, InSubmit,
         InUpdate, Phases, Goto, threads, core
    <2>2. LockHeld'
      BY <1>4, SdkAssumption DEF UpdateRelease, IInv, LockHeld, TypeOK, RunHolds,
         CloseHoldsLock, InRun, IdsFresh, RunsFinishOnce, Runs, CloseHolds, Goto,
         threads, core
    <2>3. IdsFresh'
      BY <1>4, SdkAssumption DEF UpdateRelease, IInv, IdsFresh, TypeOK, LockHeld,
         RunHolds, InRun, Waits, RunsFinishOnce, Runs, Goto, threads, core
    <2>4. RunsFinishOnce'
      BY <1>4, SdkAssumption DEF UpdateRelease, IInv, RunsFinishOnce, TypeOK,
         LockHeld, RunHolds, CloseHoldsLock, InRun, IdsFresh, Waits, Runs,
         CloseHolds, CoreAgrees, Goto, threads, core
    <2>5. CoreAgrees'
      BY <1>4, SdkAssumption DEF UpdateRelease, IInv, CoreAgrees, TypeOK,
         RunsFinishOnce, Runs, IdsFresh, LockHeld, RunHolds, InRun, Goto, threads,
         core
    <2>6. HandleHeld'
      BY <1>4, SdkAssumption DEF UpdateRelease, IInv, HandleHeld, TypeOK,
         HandleHolds, LockHeld, CloseHoldsLock, Goto, threads, core
    <2>7. StateIsOwn'
      BY <1>4, SdkAssumption DEF UpdateRelease, IInv, StateIsOwn, TypeOK, LockHeld,
         RunHolds, CloseHoldsLock, InRun, IdsFresh, Waits, RunsFinishOnce, Runs,
         CloseHolds, Goto, threads, core
    <2> QED  BY <2>1, <2>2, <2>3, <2>4, <2>5, <2>6, <2>7 DEF IInv
  <1> QED  BY <1>1, <1>2, <1>3, <1>4

(* What happens on the thread of a Run.                                     *)
LEMMA ThreadStepKeeps ==
  ASSUME IInv, NEW r \in Runs,
         NativeCall(r) \/ Event(r) \/ ListenerRaises(r) \/ NativeReturns(r) \/ RunReturned(r)
         \/ RunThreadClear(r) \/ RunThreadRelease(r)
  PROVE  IInv'
  <1>1. ASSUME NativeCall(r) PROVE IInv'
    <2>1. PICK place \in {"native", "ended"} :
            /\ phase' = [phase EXCEPT ![r] = place]
            /\ place = "native" => core_run = 0 /\ core_run' = r
            /\ place = "ended" => core_run' = core_run
      BY <1>1 DEF NativeCall
    <2>2. UNCHANGED <<session, calls, returned, abandoned, alive, core_aborted, inputs,
                     attempts>>
      BY <1>1 DEF NativeCall
    <2>3. phase[r] = "ready"
      BY <1>1 DEF NativeCall
    <2>4. run_lock = r /\ ~returned[r]
      BY <2>3 DEF IInv, RunsFinishOnce
    <2>5. core_run # r
      BY <2>3 DEF IInv, CoreAgrees, Runs
    <2>6. TypeOK'
      BY <2>1, <2>2, <2>3, <2>4, <2>5, SdkAssumption DEF IInv, TypeOK, LockHeld,
         RunHolds, IdsFresh, Runs, CloseHolds, InRun, PCs, InClose, InAbort,
         InSubmit, InUpdate, Phases, session, calls
    <2>7. LockHeld'
      BY <2>1, <2>2, <2>3, <2>4, <2>5, SdkAssumption DEF IInv, LockHeld, TypeOK,
         RunHolds, CloseHoldsLock, InRun, IdsFresh, RunsFinishOnce, Runs,
         CloseHolds, session, calls
    <2>8. IdsFresh'
      BY <2>1, <2>2, <2>3, <2>4, <2>5, SdkAssumption DEF IInv, IdsFresh, TypeOK,
         LockHeld, RunHolds, InRun, Waits, RunsFinishOnce, Runs, session, calls
    <2>9. RunsFinishOnce'
      BY <2>1, <2>2, <2>3, <2>4, <2>5, SdkAssumption DEF IInv, RunsFinishOnce,
         TypeOK, LockHeld, RunHolds, CloseHoldsLock, InRun, IdsFresh, Waits, Runs,
         CloseHolds, CoreAgrees, session, calls
    <2>10. CoreAgrees'
      BY <2>1, <2>2, <2>3, <2>4, <2>5, SdkAssumption DEF IInv, CoreAgrees, TypeOK,
         RunsFinishOnce, Runs, IdsFresh, LockHeld, RunHolds, InRun, session, calls
    <2>11. HandleHeld'
      BY <2>1, <2>2, <2>3, <2>4, <2>5, SdkAssumption DEF IInv, HandleHeld, TypeOK,
         HandleHolds, LockHeld, CloseHoldsLock, session, calls
    <2>12. StateIsOwn'
      BY <2>1, <2>2, <2>3, <2>4, <2>5, SdkAssumption DEF IInv, StateIsOwn, TypeOK,
         LockHeld, RunHolds, CloseHoldsLock, InRun, IdsFresh, Waits, RunsFinishOnce,
         Runs, CloseHolds, session, calls
    <2> QED  BY <2>6, <2>7, <2>8, <2>9, <2>10, <2>11, <2>12 DEF IInv
  <1>2. ASSUME Event(r) PROVE IInv'
    <2>1. TypeOK'
      BY <1>2, SdkAssumption DEF Event, IInv, TypeOK, LockHeld, RunHolds, IdsFresh,
         Runs, CloseHolds, InRun, PCs, InClose, InAbort, InSubmit, InUpdate, Phases,
         session, calls, threads, core
    <2>2. LockHeld'
      BY <1>2, SdkAssumption DEF Event, IInv, LockHeld, TypeOK, RunHolds,
         CloseHoldsLock, InRun, IdsFresh, RunsFinishOnce, Runs, CloseHolds, session,
         calls, threads, core
    <2>3. IdsFresh'
      BY <1>2, SdkAssumption DEF Event, IInv, IdsFresh, TypeOK, LockHeld, RunHolds,
         InRun, Waits, RunsFinishOnce, Runs, session, calls, threads, core
    <2>4. RunsFinishOnce'
      BY <1>2, SdkAssumption DEF Event, IInv, RunsFinishOnce, TypeOK, LockHeld,
         RunHolds, CloseHoldsLock, InRun, IdsFresh, Waits, Runs, CloseHolds,
         CoreAgrees, session, calls, threads, core
    <2>5. CoreAgrees'
      BY <1>2, SdkAssumption DEF Event, IInv, CoreAgrees, TypeOK, RunsFinishOnce,
         Runs, IdsFresh, LockHeld, RunHolds, InRun, session, calls, threads, core
    <2>6. HandleHeld'
      BY <1>2, SdkAssumption DEF Event, IInv, HandleHeld, TypeOK, HandleHolds,
         LockHeld, CloseHoldsLock, session, calls, threads, core
    <2>7. StateIsOwn'
      <3>1. phase[r] = "native" /\ run_lock = r /\ observed' \subseteq observed \cup {r}
        BY <1>2 DEF Event, IInv, RunsFinishOnce
      <3>2. UNCHANGED <<pc, run_of, state, phase, run_lock>>
        BY <1>2 DEF Event, calls, threads
      <3>3. \A u \in Threads : pc[u] # "release"
        BY <3>1 DEF IInv, TypeOK, LockHeld, RunHolds, InRun, RunsFinishOnce
      <3>4. \A q \in Runs : phase[q] # "release"
        BY <3>1 DEF IInv, RunsFinishOnce
      <3> QED
        BY <3>1, <3>2, <3>3, <3>4 DEF IInv, StateIsOwn
    <2> QED  BY <2>1, <2>2, <2>3, <2>4, <2>5, <2>6, <2>7 DEF IInv
  <1>3. ASSUME ListenerRaises(r) PROVE IInv'
    <2>1. TypeOK'
      BY <1>3, SdkAssumption DEF ListenerRaises, IInv, TypeOK, LockHeld, RunHolds,
         IdsFresh, Runs, CloseHolds, InRun, PCs, InClose, InAbort, InSubmit,
         InUpdate, Phases, session, calls, threads
    <2>2. LockHeld'
      BY <1>3, SdkAssumption DEF ListenerRaises, IInv, LockHeld, TypeOK, RunHolds,
         CloseHoldsLock, InRun, IdsFresh, RunsFinishOnce, Runs, CloseHolds, session,
         calls, threads
    <2>3. IdsFresh'
      BY <1>3, SdkAssumption DEF ListenerRaises, IInv, IdsFresh, TypeOK, LockHeld,
         RunHolds, InRun, Waits, RunsFinishOnce, Runs, session, calls, threads
    <2>4. RunsFinishOnce'
      BY <1>3, SdkAssumption DEF ListenerRaises, IInv, RunsFinishOnce, TypeOK,
         LockHeld, RunHolds, CloseHoldsLock, InRun, IdsFresh, Waits, Runs,
         CloseHolds, CoreAgrees, session, calls, threads
    <2>5. CoreAgrees'
      BY <1>3, SdkAssumption DEF ListenerRaises, IInv, CoreAgrees, TypeOK,
         RunsFinishOnce, Runs, IdsFresh, LockHeld, RunHolds, InRun, session, calls,
         threads
    <2>6. HandleHeld'
      BY <1>3, SdkAssumption DEF ListenerRaises, IInv, HandleHeld, TypeOK,
         HandleHolds, LockHeld, CloseHoldsLock, session, calls, threads
    <2>7. StateIsOwn'
      BY <1>3, SdkAssumption DEF ListenerRaises, IInv, StateIsOwn, TypeOK, LockHeld,
         RunHolds, CloseHoldsLock, InRun, IdsFresh, Waits, RunsFinishOnce, Runs,
         CloseHolds, session, calls, threads
    <2> QED  BY <2>1, <2>2, <2>3, <2>4, <2>5, <2>6, <2>7 DEF IInv
  <1>4. ASSUME NativeReturns(r) PROVE IInv'
    <2>1. core_aborted' \in BOOLEAN /\ inputs' \in SUBSET Nat
      BY <1>4 DEF NativeReturns
    <2>2. TypeOK'
      BY <1>4, SdkAssumption, <2>1 DEF NativeReturns, IInv, TypeOK, LockHeld,
         RunHolds, IdsFresh, Runs, CloseHolds, InRun, PCs, InClose, InAbort,
         InSubmit, InUpdate, Phases, session, calls
    <2>3. LockHeld'
      BY <1>4, SdkAssumption DEF NativeReturns, IInv, LockHeld, TypeOK, RunHolds,
         CloseHoldsLock, InRun, IdsFresh, RunsFinishOnce, Runs, CloseHolds, session,
         calls
    <2>4. IdsFresh'
      BY <1>4, SdkAssumption DEF NativeReturns, IInv, IdsFresh, TypeOK, LockHeld,
         RunHolds, InRun, Waits, RunsFinishOnce, Runs, session, calls
    <2>5. RunsFinishOnce'
      <3>1. phase[r] = "native" /\ phase' = [phase EXCEPT ![r] = "ended"]
        BY <1>4 DEF NativeReturns
      <3>2. UNCHANGED <<pc, run_of, run_lock, returned, abandoned>>
        BY <1>4 DEF NativeReturns, calls, session
      <3> QED
        BY <3>1, <3>2 DEF IInv, TypeOK, RunsFinishOnce
    <2>6. CoreAgrees'
      BY <1>4, SdkAssumption DEF NativeReturns, IInv, CoreAgrees, TypeOK,
         RunsFinishOnce, Runs, IdsFresh, LockHeld, RunHolds, InRun, session, calls
    <2>7. HandleHeld'
      BY <1>4, SdkAssumption DEF NativeReturns, IInv, HandleHeld, TypeOK,
         HandleHolds, LockHeld, CloseHoldsLock, session, calls
    <2>8. StateIsOwn'
      BY <1>4, SdkAssumption DEF NativeReturns, IInv, StateIsOwn, TypeOK, LockHeld,
         RunHolds, CloseHoldsLock, InRun, IdsFresh, Waits, RunsFinishOnce, Runs,
         CloseHolds, session, calls
    <2> QED  BY <2>2, <2>3, <2>4, <2>5, <2>6, <2>7, <2>8 DEF IInv
  <1>5. ASSUME RunReturned(r) PROVE IInv'
    BY <1>5, SdkAssumption DEF RunReturned, IInv, TypeOK, LockHeld, IdsFresh,
       RunsFinishOnce, CoreAgrees, HandleHeld, StateIsOwn, RunHolds, CloseHoldsLock,
       HandleHolds, Waits, Runs, CloseHolds, InRun, PCs, InClose, InAbort, InSubmit,
       InUpdate, Phases, session, calls, core
  <1>6. ASSUME RunThreadClear(r) PROVE IInv'
    BY <1>6, SdkAssumption DEF RunThreadClear, ClearRun, IInv, TypeOK, LockHeld,
       IdsFresh, RunsFinishOnce, CoreAgrees, HandleHeld, StateIsOwn, RunHolds,
       CloseHoldsLock, HandleHolds, Waits, Runs, CloseHolds, InRun, PCs, InClose,
       InAbort, InSubmit, InUpdate, Phases, session, calls, core
  <1>7. ASSUME RunThreadRelease(r) PROVE IInv'
    <2>1. /\ run_lock = r /\ abandoned[r] /\ r # 0 /\ r # CloseHolds
      BY <1>7, SdkAssumption DEF RunThreadRelease, IInv, RunsFinishOnce, Runs, CloseHolds
    <2>2. TypeOK'
      <3>1. phase' \in [Runs -> Phases]
        BY <1>7 DEF RunThreadRelease, IInv, TypeOK, Phases
      <3>2. run_lock' \in 0..CloseHolds
        BY <1>7, SdkAssumption DEF RunThreadRelease, ReleaseRun, CloseHolds
      <3> QED  BY <1>7, <3>1, <3>2 DEF RunThreadRelease, ReleaseRun, IInv, TypeOK, calls, core
    <2>3. LockHeld'
      BY <1>7, <2>1 DEF RunThreadRelease, ReleaseRun, IInv, LockHeld, RunHolds, CloseHoldsLock,
         calls, core
    <2>4. IdsFresh'
      BY <1>7 DEF RunThreadRelease, ReleaseRun, IInv, TypeOK, IdsFresh, calls, core
    <2>5. RunsFinishOnce'
      BY <1>7, <2>1 DEF RunThreadRelease, ReleaseRun, IInv, TypeOK, RunsFinishOnce, calls, core
    <2>6. CoreAgrees' /\ HandleHeld'
      BY <1>7 DEF RunThreadRelease, ReleaseRun, IInv, TypeOK, CoreAgrees, HandleHeld, HandleHolds,
         calls, core
    <2>7. StateIsOwn'
      BY <1>7, <2>1 DEF RunThreadRelease, ReleaseRun, IInv, TypeOK, StateIsOwn, calls, core
    <2> QED  BY <2>2, <2>3, <2>4, <2>5, <2>6, <2>7 DEF IInv
  <1> QED  BY <1>1, <1>2, <1>3, <1>4, <1>5, <1>6, <1>7

-----------------------------------------------------------------------------
(* A Session starts idle, and nothing is under way.                         *)
LEMMA InitInv == Init => IInv
  <1> SUFFICES ASSUME Init PROVE IInv
    OBVIOUS
  <1>1. TypeOK
    <2>1. /\ handle \in BOOLEAN /\ handle_lock \in BOOLEAN /\ alive \in BOOLEAN
          /\ core_aborted \in BOOLEAN /\ observed \in SUBSET Runs
          /\ inputs \in SUBSET Nat
      BY DEF Init
    <2>2. /\ pc \in [Threads -> PCs] /\ phase \in [Runs -> Phases]
      BY DEF Init, PCs, Phases
    <2>3. /\ timed \in [Threads -> BOOLEAN]
          /\ returned \in [Runs -> BOOLEAN] /\ abandoned \in [Runs -> BOOLEAN]
      BY DEF Init
    <2>4. /\ run_lock \in 0..CloseHolds /\ active_run_id \in 0..MaxRun
          /\ next_run_id \in 1..(MaxRun + 1) /\ next_input_id \in Nat
          /\ state \in 0..MaxRun /\ core_run \in 0..MaxRun /\ attempts \in 0..MaxRun
      BY SdkAssumption DEF Init, CloseHolds
    <2>5. /\ run_of \in [Threads -> 0..MaxRun] /\ seen_run \in [Threads -> 0..MaxRun]
          /\ seen_input \in [Threads -> Nat]
      BY SdkAssumption DEF Init
    <2> QED  BY <2>1, <2>2, <2>3, <2>4, <2>5 DEF TypeOK
  <1>2. LockHeld /\ IdsFresh /\ RunsFinishOnce /\ StateIsOwn
    BY SdkAssumption DEF Init, LockHeld, IdsFresh, RunsFinishOnce, StateIsOwn,
       RunHolds, CloseHoldsLock, Waits, InRun
  <1>3. CoreAgrees /\ HandleHeld
    BY DEF Init, CoreAgrees, HandleHeld, HandleHolds
  <1> QED  BY <1>1, <1>2, <1>3 DEF IInv

(* Every step is quiet, one of run(), close() or update_credential(), or of  *)
(* a Run's own thread.                                                      *)
LEMMA NextInv == IInv /\ [Next]_vars => IInv'
  <1> SUFFICES ASSUME IInv, [Next]_vars PROVE IInv'
    OBVIOUS
  <1>1. ASSUME NEW t \in Threads, Enter(t) \/ InCall(t) \/ Interrupt(t) \/ CloseTimesOut(t)
        PROVE  IInv'
    <2>1. CASE Quiet(t)
      BY <2>1, QuietStepKeeps
    <2>2. CASE ~Quiet(t)
      BY <1>1, <2>2, QuietSteps, RunStepKeeps, CloseStepKeeps, UpdateStepKeeps
         DEF Enter, InCall, Interrupt
    <2> QED  BY <2>1, <2>2
  <1>2. ASSUME NEW r \in Runs, RunThread(r) \/ Event(r) \/ ListenerRaises(r) \/ NativeReturns(r)
        PROVE  IInv'
    BY <1>2, ThreadStepKeeps DEF RunThread
  <1>3. CASE UNCHANGED vars
    BY <1>3 DEF vars, session, calls, threads, core, IInv, TypeOK, LockHeld,
       IdsFresh, RunsFinishOnce, CoreAgrees, HandleHeld, StateIsOwn, RunHolds,
       CloseHoldsLock, HandleHolds, Waits
  <1> QED  BY <1>1, <1>2, <1>3 DEF Next

(* The inductive invariant of run(), close() and the Run threads holds in    *)
(* every reachable state.                                                   *)
THEOREM Invariance == Spec => []IInv
  BY InitInv, NextInv, PTL DEF Spec

-----------------------------------------------------------------------------
(* Every field of the Session, every call and every Run thread keeps its    *)
(* type, however the calls interleave.                                      *)
THEOREM TypeCorrect == Spec => []TypeOK
  BY Invariance, PTL DEF IInv

(* A Session whose lock is free runs nothing: whoever gives the lock up has *)
(* seen the Run's thread die, or is that thread.                            *)
THEOREM IdleRunsNothing == Spec => []IdleMeansEnded
  <1>1. IInv => IdleMeansEnded
    BY SdkAssumption DEF IInv, RunsFinishOnce, CoreAgrees, IdleMeansEnded, Runs
  <1> QED  BY <1>1, Invariance, PTL

(* No call releases the lock of another Run or close.                       *)
THEOREM LockReleasedByOwner == Spec => []ReleasesOwnLock
  <1>1. IInv => ReleasesOwnLock
    BY DEF IInv, LockHeld, RunsFinishOnce, ReleasesOwnLock, RunHolds,
       CloseHoldsLock, InRun
  <1> QED  BY <1>1, Invariance, PTL

(* run() returns the events of its own Run: _state is cleared before the    *)
(* lock that protects it is released.                                       *)
THEOREM ResultsAreOwn == Spec => []ResultIsOwn
  <1>1. IInv => ResultIsOwn
    BY DEF IInv, LockHeld, StateIsOwn, ResultIsOwn, RunHolds, InRun
  <1> QED  BY <1>1, Invariance, PTL

(* close() destroys an idle Session and only once, update_credential() uses *)
(* a live handle, and a Run starts on an idle Session.                      *)
THEOREM CoreUsedLegally == Spec => []CoreCallsLegal
  <1>1. ASSUME IInv PROVE CoreCallsLegal
    <2>1. \A t \in Threads : pc[t] \in {"destroy", "update_native"} => alive
      BY <1>1 DEF IInv, HandleHeld, HandleHolds
    <2>2. \A t \in Threads : pc[t] = "destroy" => core_run = 0
      BY <1>1, SdkAssumption DEF IInv, LockHeld, RunsFinishOnce, CoreAgrees,
         CloseHoldsLock, Runs, CloseHolds
    <2>3. \A r \in Runs : phase[r] = "ready" => core_run = 0
      BY <1>1 DEF IInv, RunsFinishOnce, CoreAgrees, Runs
    <2> QED  BY <2>1, <2>2, <2>3 DEF CoreCallsLegal
  <1> QED  BY <1>1, Invariance, PTL
=============================================================================
