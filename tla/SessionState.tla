------------------------------ MODULE SessionState ------------------------------
(***************************************************************************)
(* The lifecycle state machine of one AgentSession                         *)
(* (core/agent_session.zig): the fields the session's `mutex` protects and *)
(* one operator per critical section that changes them.  The module has no *)
(* threads; AgentSession.tla drives it with arbitrary callers of the       *)
(* public API and HostedSession.tla with the callers the multi-session     *)
(* service has.                                                            *)
(*                                                                         *)
(* Abstractions.  A provider is its generation number (setModel installs a *)
(* new one and frees the old), so using a freed provider is a difference   *)
(* of generations.  The Conversation is one bit that every append, rewind  *)
(* or compaction commit flips: a reader that must see it unchanged         *)
(* compares the bit across a step.  Ids are bounded by MaxRun, MaxCompact  *)
(* and MaxModel.                                                           *)
(***************************************************************************)
EXTENDS Naturals

CONSTANTS MaxRun,      \* largest Run id a caller uses
          MaxCompact,  \* largest compaction id a caller uses
          MaxModel     \* largest provider generation setModel builds

ASSUME SessionBounds == MaxRun \in Nat /\ MaxCompact \in Nat /\ MaxModel \in Nat

VARIABLES state, active_run_id, active_run_started, last_run_id,
          abort_signal, callback_failed,
          active_compact_id, last_admitted_compact_id,
          last_terminal_compact_id, compact_abort_signal,
          in_flight_provider_cancels, provider, conversation

runVars     == <<active_run_id, active_run_started, last_run_id,
                 abort_signal, callback_failed>>
compactVars == <<active_compact_id, last_admitted_compact_id,
                 last_terminal_compact_id, compact_abort_signal>>
sessionVars == <<state, runVars, compactVars,
                 in_flight_provider_cancels, provider, conversation>>

States == {"idle", "running", "abort_requested", "compacting",
           "compact_finishing", "mutating", "checkpointing",
           "poisoned", "destroying"}

RunIds     == 1 .. MaxRun
CompactIds == 1 .. MaxCompact

SessionTypeOK ==
  /\ state \in States
  /\ active_run_id \in Nat /\ last_run_id \in Nat
  /\ active_run_started \in BOOLEAN
  /\ abort_signal \in BOOLEAN /\ callback_failed \in BOOLEAN
  /\ active_compact_id \in Nat /\ last_admitted_compact_id \in Nat
  /\ last_terminal_compact_id \in Nat /\ compact_abort_signal \in BOOLEAN
  /\ in_flight_provider_cancels \in Nat
  /\ provider \in Nat
  /\ conversation \in BOOLEAN

SessionInit ==
  /\ state = "idle"
  /\ active_run_id = 0 /\ active_run_started = FALSE /\ last_run_id = 0
  /\ abort_signal = FALSE /\ callback_failed = FALSE
  /\ active_compact_id = 0 /\ last_admitted_compact_id = 0
  /\ last_terminal_compact_id = 0 /\ compact_abort_signal = FALSE
  /\ in_flight_provider_cancels = 0
  /\ provider = 1
  /\ conversation = FALSE

-----------------------------------------------------------------------------
(* Mutant: the gate forgets the aborts still inside Provider.cancel.        *)
Admits_IgnoresCancels == state = "idle"

(* The idle gate every admission shares: a terminal Run or compaction may   *)
(* publish idle while the abort that stopped it is still inside             *)
(* Provider.cancel, and until that call returns nothing else is admitted.   *)
Admits == in_flight_provider_cancels = 0 /\ state = "idle"

ClearAbort == abort_signal' = FALSE

(* beginRun *)
BeginRun(run) ==
  /\ Admits
  /\ run > last_run_id
  /\ state' = "running"
  /\ ClearAbort
  /\ active_run_id' = run /\ last_run_id' = run
  /\ active_run_started' = FALSE /\ callback_failed' = FALSE
  /\ UNCHANGED <<compactVars, in_flight_provider_cancels, provider, conversation>>

RunActive == state \in {"running", "abort_requested"}

(* claimAdmittedRun: the first holder of the AdmittedRun value to get here  *)
(* owns the Run; every other copy gets InvalidSessionState.                 *)
MayClaim(run) == run = active_run_id /\ ~active_run_started /\ RunActive

ClaimAdmittedRun(run) ==
  /\ MayClaim(run)
  /\ active_run_started' = TRUE
  /\ UNCHANGED <<state, active_run_id, last_run_id, abort_signal, callback_failed,
                 compactVars, in_flight_provider_cancels, provider, conversation>>

EndRun(next) ==
  /\ state' = next
  /\ active_run_id' = 0 /\ active_run_started' = FALSE
  /\ UNCHANGED <<last_run_id, abort_signal, callback_failed, compactVars,
                 in_flight_provider_cancels, provider, conversation>>

(* finishRunLifecycle, after the agent loop returned normally.              *)
FinishRunLifecycle == EndRun(IF callback_failed THEN "poisoned" ELSE "idle")

(* finishAdmittedRun: the Run ends without touching the Conversation.       *)
FinishAdmittedRun(run) ==
  /\ MayClaim(run)
  /\ EndRun(IF callback_failed THEN "poisoned" ELSE "idle")

(* poisonRun, on any error of the agent loop.                               *)
PoisonRun == EndRun("poisoned")

(* Whichever tool or provider turn appends to the Conversation.             *)
WriteConversation ==
  /\ conversation' = ~conversation
  /\ UNCHANGED <<state, runVars, compactVars, in_flight_provider_cancels, provider>>

-----------------------------------------------------------------------------
(* The provider is borrowed for a cancel call that happens outside the lock.*)
BorrowProvider == in_flight_provider_cancels' = in_flight_provider_cancels + 1

(* abort(run): what the switch on `state` decides.  "borrow" is the one     *)
(* outcome that changes state: the flag is stored under the same lock as    *)
(* the transition.                                                          *)
AbortOutcome(run) ==
  IF active_run_id \notin {0, run} THEN "StaleRun"
  ELSE CASE state = "running"         -> "borrow"
         [] state = "abort_requested" -> "ok"
         [] state = "idle"            -> IF run # 0 /\ last_run_id = run
                                         THEN "AbortTooLate" ELSE "StaleRun"
         [] OTHER                     -> "InvalidSessionState"

AbortBorrow(run) ==
  /\ AbortOutcome(run) = "borrow"
  /\ state' = "abort_requested"
  /\ abort_signal' = TRUE
  /\ BorrowProvider
  /\ UNCHANGED <<active_run_id, active_run_started, last_run_id, callback_failed,
                 compactVars, provider, conversation>>

(* finishProviderCancel *)
FinishProviderCancel ==
  /\ in_flight_provider_cancels > 0
  /\ in_flight_provider_cancels' = in_flight_provider_cancels - 1
  /\ UNCHANGED <<state, runVars, compactVars, provider, conversation>>

(* awaitProviderCancelsDrained returns.                                     *)
ProviderCancelsDrained == in_flight_provider_cancels = 0

(* noteCallbackFailure, and the same code in requestHostUi: a sink refused  *)
(* an event or the Host UI transport failed.                                *)
NoteCallbackFailure ==
  /\ callback_failed' = TRUE
  /\ abort_signal' = (abort_signal \/ ~callback_failed)
  /\ UNCHANGED <<state, active_run_id, active_run_started, last_run_id,
                 compactVars, in_flight_provider_cancels, provider, conversation>>

(* runLoop, when a Host tool failed for good: no abort, poisonRun follows.   *)
HostToolFatal ==
  /\ callback_failed' = TRUE
  /\ UNCHANGED <<state, active_run_id, active_run_started, last_run_id, abort_signal,
                 compactVars, in_flight_provider_cancels, provider, conversation>>

-----------------------------------------------------------------------------
(* compactUsingProvider, admission.                                         *)
BeginCompact(id) ==
  /\ Admits
  /\ id > last_admitted_compact_id
  /\ state' = "compacting"
  /\ active_compact_id' = id /\ last_admitted_compact_id' = id
  /\ compact_abort_signal' = FALSE
  /\ UNCHANGED <<runVars, last_terminal_compact_id, in_flight_provider_cancels,
                 provider, conversation>>

(* commitCompact: refused once the abort flag is set, tested under the      *)
(* mutex that abortCompact sets it under.                                   *)
MayCommit == state = "compacting" /\ ~compact_abort_signal

CommitCompact ==
  /\ MayCommit
  /\ conversation' = ~conversation
  /\ last_terminal_compact_id' = active_compact_id
  /\ active_compact_id' = 0
  /\ state' = "compact_finishing"
  /\ UNCHANGED <<runVars, last_admitted_compact_id, compact_abort_signal,
                 in_flight_provider_cancels, provider>>

(* finishCompact *)
FinishCompact(id) ==
  /\ state \in {"compacting", "compact_finishing"}
  /\ state' = "idle"
  /\ active_compact_id' = 0
  /\ last_terminal_compact_id' =
       IF state = "compacting" THEN id ELSE last_terminal_compact_id
  /\ UNCHANGED <<runVars, last_admitted_compact_id, compact_abort_signal,
                 in_flight_provider_cancels, provider, conversation>>

(* abortCompact, the branch that finds the named compaction running; every  *)
(* call borrows the provider, repeated ones included.                       *)
AbortCompactBorrow(id) ==
  /\ state = "compacting" /\ id = active_compact_id
  /\ compact_abort_signal' = TRUE
  /\ BorrowProvider
  /\ UNCHANGED <<state, runVars, active_compact_id, last_admitted_compact_id,
                 last_terminal_compact_id, provider, conversation>>

-----------------------------------------------------------------------------
(* beginGoalMutation, and the identical gate of every other mutation.       *)
BeginMutation ==
  /\ Admits
  /\ state' = "mutating"
  /\ UNCHANGED <<runVars, compactVars, in_flight_provider_cancels, provider, conversation>>

(* setModel publishes the replacement provider and then frees the previous  *)
(* one, still mutating.                                                     *)
SwapProvider ==
  /\ state = "mutating"
  /\ provider' = provider + 1
  /\ UNCHANGED <<state, runVars, compactVars, in_flight_provider_cancels, conversation>>

(* endGoalMutation, cancelMutation and setModel's last critical section.    *)
EndMutation ==
  /\ state = "mutating"
  /\ state' = "idle"
  /\ UNCHANGED <<runVars, compactVars, in_flight_provider_cancels, provider, conversation>>

(* snapshotCommittedWithJobs and finishCheckpoint.                          *)
SnapshotCommitted ==
  /\ Admits
  /\ state' = "checkpointing"
  /\ UNCHANGED <<runVars, compactVars, in_flight_provider_cancels, provider, conversation>>

FinishCheckpoint ==
  /\ state = "checkpointing"
  /\ state' = "idle"
  /\ UNCHANGED <<runVars, compactVars, in_flight_provider_cancels, provider, conversation>>

(* Mutant: destroy looks at the state only.                                 *)
MayDestroy_IgnoresCancels == state \in {"idle", "poisoned"}

(* destroy: everything the Session owns, its provider first, is freed.      *)
MayDestroy == in_flight_provider_cancels = 0 /\ state \in {"idle", "poisoned"}

DestroySession ==
  /\ MayDestroy
  /\ state' = "destroying"
  /\ UNCHANGED <<runVars, compactVars, in_flight_provider_cancels, provider, conversation>>
=============================================================================
