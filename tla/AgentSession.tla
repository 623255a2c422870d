------------------------------ MODULE AgentSession ------------------------------
(***************************************************************************)
(* AgentSession's public API called from any thread                        *)
(* (core/agent_session.zig): Runs, compactions, mutations, checkpoint      *)
(* leases and aborts race for the lifecycle state of SessionState.tla, and *)
(* the Run's worker threads deliver events to the Host's sink.             *)
(*                                                                         *)
(* call[t] is the API call thread t is inside between two critical         *)
(* sections: `op` names it, `id` the Run or compaction it is about and     *)
(* `gen` the provider it holds.  A call that is refused changes nothing    *)
(* and is not a step.                                                      *)
(***************************************************************************)
EXTENDS SessionState, FiniteSets

CONSTANT Threads   \* Host threads that call the API

ASSUME ThreadsFinite == IsFiniteSet(Threads)

VARIABLES call,        \* thread -> the API call it is inside
          delivering,  \* Run whose event holds callback_mutex, 0 when it is free
          refused_run  \* history: last Run the Host failed (its sink refused an
                \* event, its UI or one of its tools broke), 0 if none

vars == <<sessionVars, call, delivering, refused_run>>

Ops   == {"none", "admitted", "run", "failing", "cancel_run", "cancel_compact",
          "compact", "mutate", "lease"}
Call(op, id, gen) == [op |-> op, id |-> id, gen |-> gen]
Outside == Call("none", 0, 0)
In(t, op) == call[t].op = op

(* Inside the agent loop, or between its fatal error and poisonRun.         *)
Running(t) == call[t].op \in {"run", "failing"}

(* Inside Provider.cancel, for the Run or the compaction call[t].id.        *)
Cancelling(t) == call[t].op \in {"cancel_run", "cancel_compact"}

TypeOK ==
  /\ SessionTypeOK
  /\ call \in [Threads -> [op : Ops, id : Nat, gen : Nat]]
  /\ delivering \in Nat
  /\ refused_run \in Nat

Init ==
  /\ SessionInit
  /\ call = [t \in Threads |-> Outside]
  /\ delivering = 0
  /\ refused_run = 0

Enter(t, op, id, gen) == call' = [call EXCEPT ![t] = Call(op, id, gen)]
Leave(t) == call' = [call EXCEPT ![t] = Outside]
MayEnter(t) == In(t, "none") /\ state # "destroying"

-----------------------------------------------------------------------------
(* Runs                                                                     *)

AdmitRun(t, run) ==
  /\ MayEnter(t)
  /\ BeginRun(run)
  /\ Enter(t, "admitted", run, 0)
  /\ UNCHANGED <<delivering, refused_run>>

(* An AdmittedRun is a value: a second thread may hold a copy of it.        *)
CopyAdmitted(t, u) ==
  /\ MayEnter(u) /\ In(t, "admitted")
  /\ Enter(u, "admitted", call[t].id, 0)
  /\ UNCHANGED <<sessionVars, delivering, refused_run>>

(* runUserMessagesWithToolSurfaceImpl: claim, then append the prompt and    *)
(* enter the agent loop with the Session's provider.                        *)
Claim(t) ==
  /\ In(t, "admitted")
  /\ ClaimAdmittedRun(call[t].id)
  /\ Enter(t, "run", call[t].id, provider)
  /\ UNCHANGED <<delivering, refused_run>>

(* The other copies of a claimed or finished Run are refused.               *)
ClaimRefused(t) ==
  /\ In(t, "admitted") /\ ~MayClaim(call[t].id)
  /\ Leave(t)
  /\ UNCHANGED <<sessionVars, delivering, refused_run>>

(* Whoever ends a Run takes callback_mutex, which an event being delivered  *)
(* holds, before `mutex`.                                                   *)
CallbackMutexFree == delivering = 0

(* finishWithoutConversation *)
FinishWithoutConversation(t) ==
  /\ In(t, "admitted") /\ CallbackMutexFree
  /\ FinishAdmittedRun(call[t].id)
  /\ Leave(t)
  /\ UNCHANGED <<delivering, refused_run>>

RunAppends(t) ==
  /\ In(t, "run")
  /\ WriteConversation
  /\ UNCHANGED <<call, delivering, refused_run>>

RunReturns(t) ==
  /\ In(t, "run") /\ CallbackMutexFree
  /\ FinishRunLifecycle
  /\ Leave(t)
  /\ UNCHANGED <<delivering, refused_run>>

RunFailsHostTool(t) ==
  /\ In(t, "run")
  /\ HostToolFatal
  /\ Enter(t, "failing", call[t].id, call[t].gen)
  /\ refused_run' = call[t].id
  /\ UNCHANGED delivering

RunFails(t) ==
  /\ Running(t) /\ CallbackMutexFree
  /\ PoisonRun
  /\ Leave(t)
  /\ UNCHANGED <<delivering, refused_run>>

-----------------------------------------------------------------------------
(* Aborts: the critical section, then Provider.cancel outside the lock.     *)

Abort(t, run) ==
  /\ MayEnter(t)
  /\ AbortBorrow(run)
  /\ Enter(t, "cancel_run", run, provider)
  /\ UNCHANGED <<delivering, refused_run>>

AbortCompact(t, id) ==
  /\ MayEnter(t)
  /\ AbortCompactBorrow(id)
  /\ Enter(t, "cancel_compact", id, provider)
  /\ UNCHANGED <<delivering, refused_run>>

(* Mutant: the cancel waits for the Run it cancels.                         *)
CancelReturns_AfterRun(t) ==
  /\ Cancelling(t) /\ ~RunActive
  /\ FinishProviderCancel
  /\ Leave(t)
  /\ UNCHANGED <<delivering, refused_run>>

CancelReturns(t) ==
  /\ Cancelling(t)
  /\ FinishProviderCancel
  /\ Leave(t)
  /\ UNCHANGED <<delivering, refused_run>>

-----------------------------------------------------------------------------
(* Compaction, mutation, checkpoint lease, destroy.                         *)

Compact(t, id) ==
  /\ MayEnter(t)
  /\ BeginCompact(id)
  /\ Enter(t, "compact", id, provider)
  /\ UNCHANGED <<delivering, refused_run>>

CompactCommits(t) ==
  /\ In(t, "compact")
  /\ CommitCompact
  /\ UNCHANGED <<call, delivering, refused_run>>

CompactReturns(t) ==
  /\ In(t, "compact")
  /\ FinishCompact(call[t].id)
  /\ Leave(t)
  /\ UNCHANGED <<delivering, refused_run>>

Mutate(t) ==
  /\ MayEnter(t)
  /\ BeginMutation
  /\ Enter(t, "mutate", 0, provider)
  /\ UNCHANGED <<delivering, refused_run>>

SetModelSwaps(t) ==
  /\ In(t, "mutate") /\ provider < MaxModel
  /\ SwapProvider
  /\ Enter(t, "mutate", 0, provider')
  /\ UNCHANGED <<delivering, refused_run>>

(* rewindToUserMessage drops the end of the Conversation.                   *)
RewindDrops(t) ==
  /\ In(t, "mutate")
  /\ WriteConversation
  /\ UNCHANGED <<call, delivering, refused_run>>

MutateReturns(t) ==
  /\ In(t, "mutate")
  /\ EndMutation
  /\ Leave(t)
  /\ UNCHANGED <<delivering, refused_run>>

Lease(t) ==
  /\ MayEnter(t)
  /\ SnapshotCommitted
  /\ Enter(t, "lease", 0, 0)
  /\ UNCHANGED <<delivering, refused_run>>

LeaseReturned(t) ==
  /\ In(t, "lease")
  /\ FinishCheckpoint
  /\ Leave(t)
  /\ UNCHANGED <<delivering, refused_run>>

(* The caller of destroy owns the Session uniquely; the one call the code   *)
(* itself still guards against is an abort inside Provider.cancel.          *)
Destroy(t) ==
  /\ \A u \in Threads : In(u, "none") \/ Cancelling(u)
  /\ In(t, "none")
  /\ DestroySession
  /\ UNCHANGED <<call, delivering, refused_run>>

-----------------------------------------------------------------------------
(* Event delivery: backendEmit holds callback_mutex across the sink, which  *)
(* it looked up with the Run it belongs to under `mutex`.                   *)

EmitStarts ==
  /\ delivering = 0
  /\ ~callback_failed /\ active_run_id # 0
  /\ delivering' = active_run_id
  /\ UNCHANGED <<sessionVars, call, refused_run>>

EmitAccepted ==
  /\ delivering # 0
  /\ delivering' = 0
  /\ UNCHANGED <<sessionVars, call, refused_run>>

EmitRefused ==
  /\ delivering # 0
  /\ NoteCallbackFailure
  /\ refused_run' = delivering
  /\ delivering' = 0
  /\ UNCHANGED call

(* requestHostUi: the Host UI transport failed inside the active Run.       *)
HostUiFails(t) ==
  /\ In(t, "run") /\ RunActive
  /\ NoteCallbackFailure
  /\ refused_run' = active_run_id
  /\ UNCHANGED <<call, delivering>>

-----------------------------------------------------------------------------
RunStep(t) ==
  \/ \E run \in RunIds : AdmitRun(t, run)
  \/ \E u \in Threads : CopyAdmitted(t, u)
  \/ Claim(t) \/ ClaimRefused(t) \/ FinishWithoutConversation(t)
  \/ RunAppends(t) \/ RunReturns(t) \/ RunFailsHostTool(t) \/ RunFails(t)
  \/ HostUiFails(t)

AbortStep(t) ==
  \/ \E run \in RunIds : Abort(t, run)
  \/ \E id \in CompactIds : AbortCompact(t, id)
  \/ CancelReturns(t)

OtherStep(t) ==
  \/ \E id \in CompactIds : Compact(t, id)
  \/ CompactCommits(t) \/ CompactReturns(t)
  \/ Mutate(t) \/ SetModelSwaps(t) \/ RewindDrops(t) \/ MutateReturns(t)
  \/ Lease(t) \/ LeaseReturned(t)
  \/ Destroy(t)

EmitStep == EmitStarts \/ EmitAccepted \/ EmitRefused

(* A destroyed Session stays destroyed.                                     *)
Destroyed == state = "destroying" /\ UNCHANGED vars

Next ==
  \/ \E t \in Threads : RunStep(t) \/ AbortStep(t) \/ OtherStep(t)
  \/ EmitStep
  \/ Destroyed

(* Provider.cancel never waits on the activity it cancels, so it returns;   *)
(* a compaction whose provider request is cancelled ends.  Nothing else has *)
(* to happen.                                                               *)
Fairness == \A t \in Threads : WF_vars(CancelReturns(t)) /\ WF_vars(CompactReturns(t))

Spec     == Init /\ [][Next]_vars
FairSpec == Spec /\ Fairness

-----------------------------------------------------------------------------
(* A provider held by a call is still the Session's provider: neither       *)
(* setModel nor destroy frees the one an abort is inside cancel of, or a    *)
(* Run or compaction is sending requests with (the in_flight gate of every  *)
(* admission, agent_session.zig:1484-1489).                                 *)
ProviderBorrowSafe ==
  \A t \in Threads :
    In(t, "run") \/ In(t, "compact") \/ Cancelling(t) =>
      call[t].gen = provider /\ state # "destroying"

(* An abort still inside Provider.cancel can only reach the activity it was *)
(* issued for: the abort of a Run finds that Run stopping or over and still *)
(* the last one admitted, the abort of a compaction finds that compaction   *)
(* active or the last one that ended, and no other Run or compaction is     *)
(* under way (beginRun and compactUsingProvider answer SessionBusy).        *)
CancelReachesOnlyItsTarget ==
  \A t \in Threads :
    /\ In(t, "cancel_run") =>
         /\ last_run_id = call[t].id
         /\ \/ state = "abort_requested" /\ active_run_id = call[t].id
            \/ state \in {"idle", "poisoned"}
    /\ In(t, "cancel_compact") =>
         /\ last_admitted_compact_id = call[t].id
         /\ \/ state = "compacting" /\ active_compact_id = call[t].id
            \/ state = "idle" /\ last_terminal_compact_id = call[t].id

(* The counter that gates every admission counts exactly the threads inside *)
(* Provider.cancel, so it can neither stick above zero (a Session busy for  *)
(* ever) nor reach zero early.                                              *)
CancelCountExact ==
  in_flight_provider_cancels = Cardinality({t \in Threads : Cancelling(t)})

(* Copies of one AdmittedRun: at most one thread is ever inside the agent   *)
(* loop, for the active Run, whoever held the copy (claimAdmittedRun).      *)
OneRunner ==
  /\ \A t \in Threads :
       Running(t) => /\ RunActive /\ active_run_started
                     /\ active_run_id = call[t].id
  /\ \A t, u \in Threads : Running(t) /\ Running(u) => t = u

(* A Run is not born aborted by the stop of an earlier one: the flag is up  *)
(* in an active Run only for an abort of that Run or a callback of that Run *)
(* that failed, and an abort that was accepted has it up (beginRun resets   *)
(* it; abort stores it under mutex).                                        *)
AbortOnlyWhenAsked ==
  /\ state = "abort_requested" => abort_signal
  /\ state = "running" /\ abort_signal => callback_failed

(* No event of a Run reaches the Host's sink after the Run's end was        *)
(* published (callback_mutex before mutex in finishRunLifecycle, poisonRun  *)
(* and finishAdmittedRun).                                                  *)
DeliveryWithinRun == delivering # 0 => delivering = active_run_id

(* A Run the Host failed is the Session's last: whichever way it ends, the  *)
(* Session is poisoned and admits nothing.                                  *)
RefusedRunIsLast ==
  refused_run # 0 =>
    /\ last_run_id = refused_run
    /\ state \in {"running", "abort_requested", "poisoned", "destroying"}

(* An abort that found the compaction running wins: the commit re-tests the *)
(* flag under the mutex, so an aborted compaction never becomes visible.    *)
AbortedCompactNeverCommits == state = "compact_finishing" => ~compact_abort_signal

(* While a checkpoint lease is out, nothing touches the Conversation, the   *)
(* provider or the Run counter it describes.                                *)
LeaseIsImmutable ==
  [][(\E t \in Threads : In(t, "lease") /\ In(t, "lease")') =>
       UNCHANGED <<conversation, provider, last_run_id, last_terminal_compact_id>>]_vars

(* Aborts drain: every borrow comes back, so a caller that waits in         *)
(* awaitProviderCancelsDrained is released.                                 *)
CancelsDrain == in_flight_provider_cancels > 0 ~> ProviderCancelsDrained
=============================================================================
