--------------------------- MODULE AgentSession_proofs --------------------------
(***************************************************************************)
(* Proofs about AgentSession, for every number of threads and every bound  *)
(* on ids.  The properties AgentSession.cfg checks on three threads follow *)
(* from one inductive invariant, IInv.                                     *)
(***************************************************************************)
EXTENDS AgentSession, FiniteSetTheorems, TLAPS

CancelThreads == {t \in Threads : Cancelling(t)}

(* What the call a thread is inside says about the lifecycle state.  A      *)
(* cancel outlives the activity it is about, but nothing else is admitted   *)
(* while it does.                                                           *)
CallsMatchState ==
  \A t \in Threads :
    /\ Running(t) => /\ RunActive /\ active_run_started
                     /\ active_run_id = call[t].id /\ call[t].gen = provider
    /\ In(t, "compact") => /\ state \in {"compacting", "compact_finishing"}
                           /\ call[t].id = last_admitted_compact_id
                           /\ call[t].gen = provider
    /\ In(t, "mutate") => state = "mutating"
    /\ In(t, "lease") => state = "checkpointing"
    /\ Cancelling(t) => call[t].gen = provider
    /\ In(t, "cancel_run") =>
         /\ call[t].id = last_run_id
         /\ state \in {"abort_requested", "idle", "poisoned"}
    /\ In(t, "cancel_compact") =>
         /\ call[t].id = last_admitted_compact_id
         /\ \/ state = "compacting" /\ compact_abort_signal
            \/ state = "idle" /\ last_terminal_compact_id = call[t].id

(* The lifecycle state belongs to one call at a time.                       *)
OneAtATime ==
  \A t, u \in Threads :
    \/ Running(t) /\ Running(u)
    \/ call[t].op = call[u].op /\ call[t].op \in {"compact", "mutate", "lease"}
    => t = u

RunIdsAgree ==
  /\ RunActive => active_run_id = last_run_id /\ active_run_id # 0
  /\ ~RunActive => active_run_id = 0

CompactIdsAgree == state = "compacting" => active_compact_id = last_admitted_compact_id

RefusalRemembered == refused_run # 0 /\ RunActive => callback_failed

IInv ==
  /\ TypeOK
  /\ CallsMatchState
  /\ OneAtATime
  /\ RunIdsAgree
  /\ CompactIdsAgree
  /\ RefusalRemembered
  /\ CancelCountExact
  /\ AbortOnlyWhenAsked
  /\ DeliveryWithinRun
  /\ RefusedRunIsLast
  /\ AbortedCompactNeverCommits

-----------------------------------------------------------------------------
(* The threads inside Provider.cancel are finitely many.                    *)
LEMMA CancelThreadsFinite == IsFiniteSet(CancelThreads)
  <1>1. CancelThreads \subseteq Threads
    BY DEF CancelThreads
  <1> QED  BY <1>1, ThreadsFinite, FS_Subset

(* The gate in_flight_provider_cancels = 0, which every admission tests     *)
(* (Admits, MayDestroy), really means that no abort is inside the provider. *)
LEMMA NoBorrowAtZero ==
  ASSUME CancelCountExact, in_flight_provider_cancels = 0
  PROVE  \A t \in Threads : ~Cancelling(t)
  <1>1. Cardinality(CancelThreads) = 0
    BY DEF CancelCountExact, CancelThreads
  <1>2. CancelThreads = {}
    BY <1>1, CancelThreadsFinite, FS_EmptySet
  <1> QED  BY <1>2 DEF CancelThreads

(* A thread that enters Provider.cancel adds one to the threads there.      *)
LEMMA CancelEntered ==
  ASSUME NEW t \in Threads, ~Cancelling(t), CancelThreads' = CancelThreads \cup {t}
  PROVE  Cardinality(CancelThreads') = Cardinality(CancelThreads) + 1
  <1>1. t \notin CancelThreads
    BY DEF CancelThreads
  <1> QED  BY <1>1, CancelThreadsFinite, FS_AddElement

(* A thread that leaves Provider.cancel takes one away.                     *)
LEMMA CancelLeft ==
  ASSUME NEW t \in Threads, Cancelling(t), CancelThreads' = CancelThreads \ {t}
  PROVE  Cardinality(CancelThreads') = Cardinality(CancelThreads) - 1
  <1>1. t \in CancelThreads
    BY DEF CancelThreads
  <1> QED  BY <1>1, CancelThreadsFinite, FS_RemoveElement

-----------------------------------------------------------------------------
(* IInv holds initially: no call is under way and no Run was ever admitted. *)
THEOREM InitInvariant == Init => IInv
  <1> SUFFICES ASSUME Init PROVE IInv
    OBVIOUS
  <1> USE DEF Init, SessionInit, Outside, Call, In, Running, Cancelling
  <1>1. TypeOK
    BY DEF TypeOK, SessionTypeOK, States, Ops
  <1>2. CancelCountExact
    <2>1. {t \in Threads : Cancelling(t)} = {}
      OBVIOUS
    <2> QED  BY <2>1, FS_EmptySet DEF CancelCountExact
  <1>3. CallsMatchState /\ OneAtATime
    BY DEF CallsMatchState, OneAtATime
  <1>4. RunIdsAgree /\ CompactIdsAgree /\ RefusalRemembered
    BY DEF RunIdsAgree, CompactIdsAgree, RefusalRemembered, RunActive
  <1>5. AbortOnlyWhenAsked /\ DeliveryWithinRun /\ RefusedRunIsLast /\ AbortedCompactNeverCommits
    BY DEF AbortOnlyWhenAsked, DeliveryWithinRun, RefusedRunIsLast,
       AbortedCompactNeverCommits
  <1> QED  BY <1>1, <1>2, <1>3, <1>4, <1>5 DEF IInv

-----------------------------------------------------------------------------
(* A step that neither enters nor leaves Provider.cancel keeps the count.   *)
LEMMA CountKept ==
  ASSUME CancelCountExact, CancelThreads' = CancelThreads,
         in_flight_provider_cancels' = in_flight_provider_cancels
  PROVE  CancelCountExact'
  BY DEF CancelCountExact, CancelThreads

(* The part of IInv that is about the session's own fields.                 *)
FieldsInv ==
  /\ RunIdsAgree /\ CompactIdsAgree /\ RefusalRemembered
  /\ AbortOnlyWhenAsked /\ DeliveryWithinRun /\ RefusedRunIsLast
  /\ AbortedCompactNeverCommits

(* Admission of a Run: no cancel is under way, so no abort is tied to the   *)
(* Run before.                                                              *)
LEMMA AdmitRunKeeps ==
  ASSUME IInv, NEW t \in Threads, NEW run \in RunIds, AdmitRun(t, run)
  PROVE  IInv'
  <1> USE DEF AdmitRun, BeginRun, Admits, ClearAbort, Enter, Call, In, Running,
         Cancelling, MayEnter, compactVars
  <1>1. TypeOK'
    <2>1. run \in Nat
      BY SessionBounds DEF RunIds
    <2>2. call' \in [Threads -> [op : Ops, id : Nat, gen : Nat]]
      BY <2>1 DEF IInv, TypeOK, Ops
    <2>3. SessionTypeOK'
      BY <2>1 DEF IInv, TypeOK, SessionTypeOK, States
    <2> QED  BY <2>2, <2>3 DEF IInv, TypeOK
  <1>2. CancelCountExact'
    <2>1. CancelThreads' = CancelThreads
      BY DEF CancelThreads
    <2> QED  BY <2>1, CountKept DEF IInv
  <1>3. \A u \in Threads : ~Cancelling(u)
    BY NoBorrowAtZero DEF IInv
  <1>4. CallsMatchState' /\ OneAtATime'
    BY <1>3 DEF IInv, CallsMatchState, OneAtATime, RunActive
  <1>5. FieldsInv'
    BY SessionBounds DEF IInv, FieldsInv, RunIdsAgree, CompactIdsAgree, RefusalRemembered,
       AbortOnlyWhenAsked, DeliveryWithinRun, RefusedRunIsLast,
       AbortedCompactNeverCommits, RunActive, RunIds
  <1> QED  BY <1>1, <1>2, <1>4, <1>5 DEF IInv, FieldsInv

(* A copy of an AdmittedRun.                                                *)
LEMMA CopyAdmittedKeeps ==
  ASSUME IInv, NEW t \in Threads, NEW u \in Threads, CopyAdmitted(t, u)
  PROVE  IInv'
  <1> USE DEF CopyAdmitted, Enter, Call, In, Running, Cancelling, MayEnter,
         sessionVars, runVars, compactVars
  <1>1. TypeOK'
    BY DEF IInv, TypeOK, SessionTypeOK
  <1>2. CancelCountExact'
    <2>1. CancelThreads' = CancelThreads
      BY DEF CancelThreads
    <2> QED  BY <2>1, CountKept DEF IInv
  <1>4. CallsMatchState' /\ OneAtATime'
    BY DEF IInv, CallsMatchState, OneAtATime, RunActive
  <1>5. FieldsInv'
    BY DEF IInv, FieldsInv, RunIdsAgree, CompactIdsAgree, RefusalRemembered,
       AbortOnlyWhenAsked, DeliveryWithinRun, RefusedRunIsLast,
       AbortedCompactNeverCommits, RunActive
  <1> QED  BY <1>1, <1>2, <1>4, <1>5 DEF IInv, FieldsInv

(* The claim: active_run_started was down, so nobody else is running.       *)
LEMMA ClaimKeeps ==
  ASSUME IInv, NEW t \in Threads, Claim(t)
  PROVE  IInv'
  <1> USE DEF Claim, ClaimAdmittedRun, MayClaim, Enter, Call, In, Running,
         Cancelling, compactVars
  <1>1. TypeOK'
    BY DEF IInv, TypeOK, SessionTypeOK, Ops
  <1>2. CancelCountExact'
    <2>1. CancelThreads' = CancelThreads
      BY DEF CancelThreads
    <2> QED  BY <2>1, CountKept DEF IInv
  <1>4. CallsMatchState' /\ OneAtATime'
    BY DEF IInv, CallsMatchState, OneAtATime, RunActive
  <1>5. FieldsInv'
    BY DEF IInv, FieldsInv, RunIdsAgree, CompactIdsAgree, RefusalRemembered,
       AbortOnlyWhenAsked, DeliveryWithinRun, RefusedRunIsLast,
       AbortedCompactNeverCommits, RunActive
  <1> QED  BY <1>1, <1>2, <1>4, <1>5 DEF IInv, FieldsInv

(* A refused claim.                                                         *)
LEMMA ClaimRefusedKeeps ==
  ASSUME IInv, NEW t \in Threads, ClaimRefused(t)
  PROVE  IInv'
  <1> USE DEF ClaimRefused, Leave, Outside, Call, In, Running, Cancelling,
         sessionVars, runVars, compactVars
  <1>1. TypeOK'
    BY DEF IInv, TypeOK, SessionTypeOK, Ops
  <1>2. CancelCountExact'
    <2>1. CancelThreads' = CancelThreads
      BY DEF CancelThreads
    <2> QED  BY <2>1, CountKept DEF IInv
  <1>4. CallsMatchState' /\ OneAtATime'
    BY DEF IInv, CallsMatchState, OneAtATime, RunActive
  <1>5. FieldsInv'
    BY DEF IInv, FieldsInv, RunIdsAgree, CompactIdsAgree, RefusalRemembered,
       AbortOnlyWhenAsked, DeliveryWithinRun, RefusedRunIsLast,
       AbortedCompactNeverCommits, RunActive
  <1> QED  BY <1>1, <1>2, <1>4, <1>5 DEF IInv, FieldsInv

(* An admitted Run that ends before it was claimed.                         *)
LEMMA FinishWithoutConversationKeeps ==
  ASSUME IInv, NEW t \in Threads, FinishWithoutConversation(t)
  PROVE  IInv'
  <1> USE DEF FinishWithoutConversation, CallbackMutexFree, FinishAdmittedRun,
         MayClaim, EndRun, Leave, Outside, Call, In, Running, Cancelling,
         compactVars
  <1>1. TypeOK'
    BY DEF IInv, TypeOK, SessionTypeOK, States, Ops
  <1>2. CancelCountExact'
    <2>1. CancelThreads' = CancelThreads
      BY DEF CancelThreads
    <2> QED  BY <2>1, CountKept DEF IInv
  <1>4. CallsMatchState' /\ OneAtATime'
    BY DEF IInv, CallsMatchState, OneAtATime, RunActive
  <1>5. FieldsInv'
    BY DEF IInv, FieldsInv, RunIdsAgree, CompactIdsAgree, RefusalRemembered,
       AbortOnlyWhenAsked, DeliveryWithinRun, RefusedRunIsLast,
       AbortedCompactNeverCommits, RunActive
  <1> QED  BY <1>1, <1>2, <1>4, <1>5 DEF IInv, FieldsInv

(* A Run appends to the Conversation.                                       *)
LEMMA RunAppendsKeeps ==
  ASSUME IInv, NEW t \in Threads, RunAppends(t)
  PROVE  IInv'
  <1> USE DEF RunAppends, WriteConversation, In, Running, Cancelling, runVars,
         compactVars
  <1>1. TypeOK'
    BY DEF IInv, TypeOK, SessionTypeOK
  <1>2. CancelCountExact'
    <2>1. CancelThreads' = CancelThreads
      BY DEF CancelThreads
    <2> QED  BY <2>1, CountKept DEF IInv
  <1>4. CallsMatchState' /\ OneAtATime'
    BY DEF IInv, CallsMatchState, OneAtATime, RunActive
  <1>5. FieldsInv'
    BY DEF IInv, FieldsInv, RunIdsAgree, CompactIdsAgree, RefusalRemembered,
       AbortOnlyWhenAsked, DeliveryWithinRun, RefusedRunIsLast,
       AbortedCompactNeverCommits, RunActive
  <1> QED  BY <1>1, <1>2, <1>4, <1>5 DEF IInv, FieldsInv

(* A Run returns.                                                           *)
LEMMA RunReturnsKeeps ==
  ASSUME IInv, NEW t \in Threads, RunReturns(t)
  PROVE  IInv'
  <1> USE DEF RunReturns, CallbackMutexFree, FinishRunLifecycle, EndRun, Leave,
         Outside, Call, In, Running, Cancelling, compactVars
  <1>1. TypeOK'
    BY DEF IInv, TypeOK, SessionTypeOK, States, Ops
  <1>2. CancelCountExact'
    <2>1. CancelThreads' = CancelThreads
      BY DEF CancelThreads
    <2> QED  BY <2>1, CountKept DEF IInv
  <1>4. CallsMatchState' /\ OneAtATime'
    BY DEF IInv, TypeOK, CallsMatchState, OneAtATime, RunActive
  <1>5. FieldsInv'
    BY DEF IInv, CallsMatchState, FieldsInv, RunIdsAgree, CompactIdsAgree,
       RefusalRemembered, AbortOnlyWhenAsked, DeliveryWithinRun, RefusedRunIsLast,
       AbortedCompactNeverCommits, RunActive
  <1> QED  BY <1>1, <1>2, <1>4, <1>5 DEF IInv, FieldsInv

(* A Host tool fails for good.                                              *)
LEMMA RunFailsHostToolKeeps ==
  ASSUME IInv, NEW t \in Threads, RunFailsHostTool(t)
  PROVE  IInv'
  <1> USE DEF RunFailsHostTool, HostToolFatal, Enter, Call, In, Running,
         Cancelling, compactVars
  <1>1. TypeOK'
    BY DEF IInv, TypeOK, SessionTypeOK, Ops
  <1>2. CancelCountExact'
    <2>1. CancelThreads' = CancelThreads
      BY DEF CancelThreads
    <2> QED  BY <2>1, CountKept DEF IInv
  <1>4. CallsMatchState' /\ OneAtATime'
    BY DEF IInv, CallsMatchState, OneAtATime, RunActive
  <1>5. FieldsInv'
    BY DEF IInv, CallsMatchState, FieldsInv, RunIdsAgree, CompactIdsAgree,
       RefusalRemembered, AbortOnlyWhenAsked, DeliveryWithinRun, RefusedRunIsLast,
       AbortedCompactNeverCommits, RunActive
  <1> QED  BY <1>1, <1>2, <1>4, <1>5 DEF IInv, FieldsInv

(* A Run fails.                                                             *)
LEMMA RunFailsKeeps ==
  ASSUME IInv, NEW t \in Threads, RunFails(t)
  PROVE  IInv'
  <1> USE DEF RunFails, CallbackMutexFree, PoisonRun, EndRun, Leave, Outside,
         Call, In, Running, Cancelling, compactVars
  <1>1. TypeOK'
    BY DEF IInv, TypeOK, SessionTypeOK, States, Ops
  <1>2. CancelCountExact'
    <2>1. CancelThreads' = CancelThreads
      BY DEF CancelThreads
    <2> QED  BY <2>1, CountKept DEF IInv
  <1>4. CallsMatchState' /\ OneAtATime'
    BY DEF IInv, TypeOK, CallsMatchState, OneAtATime, RunActive
  <1>5. FieldsInv'
    BY DEF IInv, FieldsInv, RunIdsAgree, CompactIdsAgree, RefusalRemembered,
       AbortOnlyWhenAsked, DeliveryWithinRun, RefusedRunIsLast,
       AbortedCompactNeverCommits, RunActive
  <1> QED  BY <1>1, <1>2, <1>4, <1>5 DEF IInv, FieldsInv

(* The Host UI transport fails under the active Run.                        *)
LEMMA HostUiFailsKeeps ==
  ASSUME IInv, NEW t \in Threads, HostUiFails(t)
  PROVE  IInv'
  <1> USE DEF HostUiFails, NoteCallbackFailure, In, Running, Cancelling,
         compactVars
  <1>1. TypeOK'
    BY DEF IInv, TypeOK, SessionTypeOK
  <1>2. CancelCountExact'
    <2>1. CancelThreads' = CancelThreads
      BY DEF CancelThreads
    <2> QED  BY <2>1, CountKept DEF IInv
  <1>4. CallsMatchState' /\ OneAtATime'
    BY DEF IInv, CallsMatchState, OneAtATime, RunActive
  <1>5. FieldsInv'
    BY DEF IInv, FieldsInv, RunIdsAgree, CompactIdsAgree, RefusalRemembered,
       AbortOnlyWhenAsked, DeliveryWithinRun, RefusedRunIsLast,
       AbortedCompactNeverCommits, RunActive
  <1> QED  BY <1>1, <1>2, <1>4, <1>5 DEF IInv, FieldsInv

(* An abort that finds its Run running borrows the provider.                *)
LEMMA AbortKeeps ==
  ASSUME IInv, NEW t \in Threads, NEW run \in RunIds, Abort(t, run)
  PROVE  IInv'
  <1> USE DEF Abort, AbortBorrow, AbortOutcome, BorrowProvider, Enter, Call, In,
         Running, Cancelling, MayEnter, compactVars
  <1>1. TypeOK'
    BY SessionBounds DEF IInv, TypeOK, SessionTypeOK, States, Ops, RunIds
  <1>2. CancelCountExact'
    <2>1. CancelThreads' = CancelThreads \cup {t}
      BY DEF IInv, TypeOK, CancelThreads
    <2>2. Cardinality(CancelThreads') = Cardinality(CancelThreads) + 1
      BY <2>1, CancelEntered
    <2> QED  BY <2>2 DEF IInv, CancelCountExact, CancelThreads
  <1>4. CallsMatchState' /\ OneAtATime'
    BY DEF IInv, CallsMatchState, OneAtATime, RunIdsAgree, CompactIdsAgree, RunActive
  <1>5. FieldsInv'
    BY SessionBounds DEF IInv, FieldsInv, RunIdsAgree, CompactIdsAgree, RefusalRemembered,
       AbortOnlyWhenAsked, DeliveryWithinRun, RefusedRunIsLast,
       AbortedCompactNeverCommits, RunActive
  <1> QED  BY <1>1, <1>2, <1>4, <1>5 DEF IInv, FieldsInv

(* An abort of the compaction.                                              *)
LEMMA AbortCompactKeeps ==
  ASSUME IInv, NEW t \in Threads, NEW id \in CompactIds, AbortCompact(t, id)
  PROVE  IInv'
  <1> USE DEF AbortCompact, AbortCompactBorrow, BorrowProvider, Enter, Call, In,
         Running, Cancelling, MayEnter, runVars
  <1>1. TypeOK'
    BY SessionBounds DEF IInv, TypeOK, SessionTypeOK, Ops
  <1>2. CancelCountExact'
    <2>1. CancelThreads' = CancelThreads \cup {t}
      BY DEF IInv, TypeOK, CancelThreads
    <2>2. Cardinality(CancelThreads') = Cardinality(CancelThreads) + 1
      BY <2>1, CancelEntered
    <2> QED  BY <2>2 DEF IInv, CancelCountExact, CancelThreads
  <1>4. CallsMatchState' /\ OneAtATime'
    BY DEF IInv, CallsMatchState, OneAtATime, CompactIdsAgree, RunActive
  <1>5. FieldsInv'
    BY SessionBounds DEF IInv, FieldsInv, RunIdsAgree, CompactIdsAgree, RefusalRemembered,
       AbortOnlyWhenAsked, DeliveryWithinRun, RefusedRunIsLast,
       AbortedCompactNeverCommits, RunActive
  <1> QED  BY <1>1, <1>2, <1>4, <1>5 DEF IInv, FieldsInv

(* Provider.cancel returns.                                                 *)
LEMMA CancelReturnsKeeps ==
  ASSUME IInv, NEW t \in Threads, CancelReturns(t)
  PROVE  IInv'
  <1> USE DEF CancelReturns, FinishProviderCancel, Leave, Outside, Call, In,
         Running, Cancelling, runVars, compactVars
  <1>1. TypeOK'
    BY DEF IInv, TypeOK, SessionTypeOK, Ops
  <1>2. CancelCountExact'
    <2>1. CancelThreads' = CancelThreads \ {t}
      BY DEF IInv, TypeOK, CancelThreads
    <2>2. Cardinality(CancelThreads') = Cardinality(CancelThreads) - 1
      BY <2>1, CancelLeft
    <2> QED  BY <2>2 DEF IInv, CancelCountExact, CancelThreads
  <1>4. CallsMatchState' /\ OneAtATime'
    BY DEF IInv, CallsMatchState, OneAtATime, RunActive
  <1>5. FieldsInv'
    BY DEF IInv, FieldsInv, RunIdsAgree, CompactIdsAgree, RefusalRemembered,
       AbortOnlyWhenAsked, DeliveryWithinRun, RefusedRunIsLast,
       AbortedCompactNeverCommits, RunActive
  <1> QED  BY <1>1, <1>2, <1>4, <1>5 DEF IInv, FieldsInv

(* Admission of a compaction.                                               *)
LEMMA CompactKeeps ==
  ASSUME IInv, NEW t \in Threads, NEW id \in CompactIds, Compact(t, id)
  PROVE  IInv'
  <1> USE DEF Compact, BeginCompact, Admits, Enter, Call, In, Running, Cancelling,
         MayEnter, runVars
  <1>1. TypeOK'
    <2>1. id \in Nat
      BY SessionBounds DEF CompactIds
    <2>2. call' \in [Threads -> [op : Ops, id : Nat, gen : Nat]]
      BY <2>1 DEF IInv, TypeOK, SessionTypeOK, Ops
    <2>3. SessionTypeOK'
      BY <2>1 DEF IInv, TypeOK, SessionTypeOK, States
    <2> QED  BY <2>2, <2>3 DEF IInv, TypeOK
  <1>2. CancelCountExact'
    <2>1. CancelThreads' = CancelThreads
      BY DEF CancelThreads
    <2> QED  BY <2>1, CountKept DEF IInv
  <1>3. \A u \in Threads : ~Cancelling(u)
    BY NoBorrowAtZero DEF IInv
  <1>4. CallsMatchState' /\ OneAtATime'
    BY <1>3 DEF IInv, CallsMatchState, OneAtATime, RunActive
  <1>5. FieldsInv'
    BY SessionBounds DEF IInv, FieldsInv, RunIdsAgree, CompactIdsAgree, RefusalRemembered,
       AbortOnlyWhenAsked, DeliveryWithinRun, RefusedRunIsLast,
       AbortedCompactNeverCommits, RunActive
  <1> QED  BY <1>1, <1>2, <1>4, <1>5 DEF IInv, FieldsInv

(* The compaction commits.                                                  *)
LEMMA CompactCommitsKeeps ==
  ASSUME IInv, NEW t \in Threads, CompactCommits(t)
  PROVE  IInv'
  <1> USE DEF CompactCommits, CommitCompact, MayCommit, In, Running, Cancelling,
         runVars
  <1>1. TypeOK'
    BY DEF IInv, TypeOK, SessionTypeOK, States
  <1>2. CancelCountExact'
    <2>1. CancelThreads' = CancelThreads
      BY DEF CancelThreads
    <2> QED  BY <2>1, CountKept DEF IInv
  <1>4. CallsMatchState' /\ OneAtATime'
    BY DEF IInv, CallsMatchState, OneAtATime, RunActive
  <1>5. FieldsInv'
    BY DEF IInv, FieldsInv, RunIdsAgree, CompactIdsAgree, RefusalRemembered,
       AbortOnlyWhenAsked, DeliveryWithinRun, RefusedRunIsLast,
       AbortedCompactNeverCommits, RunActive
  <1> QED  BY <1>1, <1>2, <1>4, <1>5 DEF IInv, FieldsInv

(* The compaction returns.                                                  *)
LEMMA CompactReturnsKeeps ==
  ASSUME IInv, NEW t \in Threads, CompactReturns(t)
  PROVE  IInv'
  <1> USE DEF CompactReturns, FinishCompact, Leave, Outside, Call, In, Running,
         Cancelling, runVars
  <1>1. TypeOK'
    BY DEF IInv, TypeOK, SessionTypeOK, States, Ops
  <1>2. CancelCountExact'
    <2>1. CancelThreads' = CancelThreads
      BY DEF CancelThreads
    <2> QED  BY <2>1, CountKept DEF IInv
  <1>4. CallsMatchState' /\ OneAtATime'
    BY DEF IInv, TypeOK, CallsMatchState, OneAtATime, RunActive
  <1>5. FieldsInv'
    BY DEF IInv, FieldsInv, RunIdsAgree, CompactIdsAgree, RefusalRemembered,
       AbortOnlyWhenAsked, DeliveryWithinRun, RefusedRunIsLast,
       AbortedCompactNeverCommits, RunActive
  <1> QED  BY <1>1, <1>2, <1>4, <1>5 DEF IInv, FieldsInv

(* Admission of a mutation.                                                 *)
LEMMA MutateKeeps ==
  ASSUME IInv, NEW t \in Threads, Mutate(t)
  PROVE  IInv'
  <1> USE DEF Mutate, BeginMutation, Admits, Enter, Call, In, Running, Cancelling,
         MayEnter, runVars, compactVars
  <1>1. TypeOK'
    BY DEF IInv, TypeOK, SessionTypeOK, States, Ops
  <1>2. CancelCountExact'
    <2>1. CancelThreads' = CancelThreads
      BY DEF CancelThreads
    <2> QED  BY <2>1, CountKept DEF IInv
  <1>3. \A u \in Threads : ~Cancelling(u)
    BY NoBorrowAtZero DEF IInv
  <1>4. CallsMatchState' /\ OneAtATime'
    BY <1>3 DEF IInv, CallsMatchState, OneAtATime, RunActive
  <1>5. FieldsInv'
    BY DEF IInv, FieldsInv, RunIdsAgree, CompactIdsAgree, RefusalRemembered,
       AbortOnlyWhenAsked, DeliveryWithinRun, RefusedRunIsLast,
       AbortedCompactNeverCommits, RunActive
  <1> QED  BY <1>1, <1>2, <1>4, <1>5 DEF IInv, FieldsInv

(* setModel frees the previous provider: nobody holds it while mutating.    *)
LEMMA SetModelSwapsKeeps ==
  ASSUME IInv, NEW t \in Threads, SetModelSwaps(t)
  PROVE  IInv'
  <1> USE DEF SetModelSwaps, SwapProvider, Enter, Call, In, Running, Cancelling,
         runVars, compactVars
  <1>1. TypeOK'
    BY DEF IInv, TypeOK, SessionTypeOK
  <1>2. CancelCountExact'
    <2>1. CancelThreads' = CancelThreads
      BY DEF CancelThreads
    <2> QED  BY <2>1, CountKept DEF IInv
  <1>4. CallsMatchState' /\ OneAtATime'
    BY DEF IInv, CallsMatchState, OneAtATime, RunActive
  <1>5. FieldsInv'
    BY DEF IInv, FieldsInv, RunIdsAgree, CompactIdsAgree, RefusalRemembered,
       AbortOnlyWhenAsked, DeliveryWithinRun, RefusedRunIsLast,
       AbortedCompactNeverCommits, RunActive
  <1> QED  BY <1>1, <1>2, <1>4, <1>5 DEF IInv, FieldsInv

(* A rewind.                                                                *)
LEMMA RewindDropsKeeps ==
  ASSUME IInv, NEW t \in Threads, RewindDrops(t)
  PROVE  IInv'
  <1> USE DEF RewindDrops, WriteConversation, In, Running, Cancelling, runVars,
         compactVars
  <1>1. TypeOK'
    BY DEF IInv, TypeOK, SessionTypeOK
  <1>2. CancelCountExact'
    <2>1. CancelThreads' = CancelThreads
      BY DEF CancelThreads
    <2> QED  BY <2>1, CountKept DEF IInv
  <1>4. CallsMatchState' /\ OneAtATime'
    BY DEF IInv, CallsMatchState, OneAtATime, RunActive
  <1>5. FieldsInv'
    BY DEF IInv, FieldsInv, RunIdsAgree, CompactIdsAgree, RefusalRemembered,
       AbortOnlyWhenAsked, DeliveryWithinRun, RefusedRunIsLast,
       AbortedCompactNeverCommits, RunActive
  <1> QED  BY <1>1, <1>2, <1>4, <1>5 DEF IInv, FieldsInv

(* The mutation returns.                                                    *)
LEMMA MutateReturnsKeeps ==
  ASSUME IInv, NEW t \in Threads, MutateReturns(t)
  PROVE  IInv'
  <1> USE DEF MutateReturns, EndMutation, Leave, Outside, Call, In, Running,
         Cancelling, runVars, compactVars
  <1>1. TypeOK'
    BY DEF IInv, TypeOK, SessionTypeOK, States, Ops
  <1>2. CancelCountExact'
    <2>1. CancelThreads' = CancelThreads
      BY DEF CancelThreads
    <2> QED  BY <2>1, CountKept DEF IInv
  <1>4. CallsMatchState' /\ OneAtATime'
    BY DEF IInv, TypeOK, CallsMatchState, OneAtATime, RunActive
  <1>5. FieldsInv'
    BY DEF IInv, FieldsInv, RunIdsAgree, CompactIdsAgree, RefusalRemembered,
       AbortOnlyWhenAsked, DeliveryWithinRun, RefusedRunIsLast,
       AbortedCompactNeverCommits, RunActive
  <1> QED  BY <1>1, <1>2, <1>4, <1>5 DEF IInv, FieldsInv

(* Admission of a checkpoint lease.                                         *)
LEMMA LeaseKeeps ==
  ASSUME IInv, NEW t \in Threads, Lease(t)
  PROVE  IInv'
  <1> USE DEF Lease, SnapshotCommitted, Admits, Enter, Call, In, Running,
         Cancelling, MayEnter, runVars, compactVars
  <1>1. TypeOK'
    BY DEF IInv, TypeOK, SessionTypeOK, States, Ops
  <1>2. CancelCountExact'
    <2>1. CancelThreads' = CancelThreads
      BY DEF CancelThreads
    <2> QED  BY <2>1, CountKept DEF IInv
  <1>3. \A u \in Threads : ~Cancelling(u)
    BY NoBorrowAtZero DEF IInv
  <1>4. CallsMatchState' /\ OneAtATime'
    BY <1>3 DEF IInv, CallsMatchState, OneAtATime, RunActive
  <1>5. FieldsInv'
    BY DEF IInv, FieldsInv, RunIdsAgree, CompactIdsAgree, RefusalRemembered,
       AbortOnlyWhenAsked, DeliveryWithinRun, RefusedRunIsLast,
       AbortedCompactNeverCommits, RunActive
  <1> QED  BY <1>1, <1>2, <1>4, <1>5 DEF IInv, FieldsInv

(* The lease is returned.                                                   *)
LEMMA LeaseReturnedKeeps ==
  ASSUME IInv, NEW t \in Threads, LeaseReturned(t)
  PROVE  IInv'
  <1> USE DEF LeaseReturned, FinishCheckpoint, Leave, Outside, Call, In, Running,
         Cancelling, runVars, compactVars
  <1>1. TypeOK'
    BY DEF IInv, TypeOK, SessionTypeOK, States, Ops
  <1>2. CancelCountExact'
    <2>1. CancelThreads' = CancelThreads
      BY DEF CancelThreads
    <2> QED  BY <2>1, CountKept DEF IInv
  <1>4. CallsMatchState' /\ OneAtATime'
    BY DEF IInv, TypeOK, CallsMatchState, OneAtATime, RunActive
  <1>5. FieldsInv'
    BY DEF IInv, FieldsInv, RunIdsAgree, CompactIdsAgree, RefusalRemembered,
       AbortOnlyWhenAsked, DeliveryWithinRun, RefusedRunIsLast,
       AbortedCompactNeverCommits, RunActive
  <1> QED  BY <1>1, <1>2, <1>4, <1>5 DEF IInv, FieldsInv

(* destroy: no abort is left inside the provider it frees.                  *)
LEMMA DestroyKeeps ==
  ASSUME IInv, NEW t \in Threads, Destroy(t)
  PROVE  IInv'
  <1> USE DEF Destroy, DestroySession, MayDestroy, In, Running, Cancelling,
         runVars, compactVars
  <1>1. TypeOK'
    BY DEF IInv, TypeOK, SessionTypeOK, States
  <1>2. CancelCountExact'
    <2>1. CancelThreads' = CancelThreads
      BY DEF CancelThreads
    <2> QED  BY <2>1, CountKept DEF IInv
  <1>3. \A u \in Threads : ~Cancelling(u)
    BY NoBorrowAtZero DEF IInv
  <1>4. CallsMatchState' /\ OneAtATime'
    BY <1>3 DEF CallsMatchState, OneAtATime
  <1>5. FieldsInv'
    BY DEF IInv, FieldsInv, RunIdsAgree, CompactIdsAgree, RefusalRemembered,
       AbortOnlyWhenAsked, DeliveryWithinRun, RefusedRunIsLast,
       AbortedCompactNeverCommits, RunActive
  <1> QED  BY <1>1, <1>2, <1>4, <1>5 DEF IInv, FieldsInv

(* An event is being delivered.                                             *)
LEMMA EmitStartsKeeps ==
  ASSUME IInv, EmitStarts
  PROVE  IInv'
  <1> USE DEF EmitStarts, In, Running, Cancelling, sessionVars, runVars,
         compactVars
  <1>1. TypeOK'
    BY DEF IInv, TypeOK, SessionTypeOK
  <1>2. CancelCountExact'
    <2>1. CancelThreads' = CancelThreads
      BY DEF CancelThreads
    <2> QED  BY <2>1, CountKept DEF IInv
  <1>4. CallsMatchState' /\ OneAtATime'
    BY DEF IInv, CallsMatchState, OneAtATime, RunActive
  <1>5. FieldsInv'
    BY DEF IInv, FieldsInv, RunIdsAgree, CompactIdsAgree, RefusalRemembered,
       AbortOnlyWhenAsked, DeliveryWithinRun, RefusedRunIsLast,
       AbortedCompactNeverCommits, RunActive
  <1> QED  BY <1>1, <1>2, <1>4, <1>5 DEF IInv, FieldsInv

(* The sink took it.                                                        *)
LEMMA EmitAcceptedKeeps ==
  ASSUME IInv, EmitAccepted
  PROVE  IInv'
  <1> USE DEF EmitAccepted, In, Running, Cancelling, sessionVars, runVars,
         compactVars
  <1>1. TypeOK'
    BY DEF IInv, TypeOK, SessionTypeOK
  <1>2. CancelCountExact'
    <2>1. CancelThreads' = CancelThreads
      BY DEF CancelThreads
    <2> QED  BY <2>1, CountKept DEF IInv
  <1>4. CallsMatchState' /\ OneAtATime'
    BY DEF IInv, CallsMatchState, OneAtATime, RunActive
  <1>5. FieldsInv'
    BY DEF IInv, FieldsInv, RunIdsAgree, CompactIdsAgree, RefusalRemembered,
       AbortOnlyWhenAsked, DeliveryWithinRun, RefusedRunIsLast,
       AbortedCompactNeverCommits, RunActive
  <1> QED  BY <1>1, <1>2, <1>4, <1>5 DEF IInv, FieldsInv

(* The sink refused it.                                                     *)
LEMMA EmitRefusedKeeps ==
  ASSUME IInv, EmitRefused
  PROVE  IInv'
  <1> USE DEF EmitRefused, NoteCallbackFailure, In, Running, Cancelling,
         compactVars
  <1>1. TypeOK'
    BY DEF IInv, TypeOK, SessionTypeOK
  <1>2. CancelCountExact'
    <2>1. CancelThreads' = CancelThreads
      BY DEF CancelThreads
    <2> QED  BY <2>1, CountKept DEF IInv
  <1>4. CallsMatchState' /\ OneAtATime'
    BY DEF IInv, CallsMatchState, OneAtATime, RunActive
  <1>5. FieldsInv'
    BY DEF IInv, FieldsInv, RunIdsAgree, CompactIdsAgree, RefusalRemembered,
       AbortOnlyWhenAsked, DeliveryWithinRun, RefusedRunIsLast,
       AbortedCompactNeverCommits, RunActive
  <1> QED  BY <1>1, <1>2, <1>4, <1>5 DEF IInv, FieldsInv

-----------------------------------------------------------------------------
(* A step that changes nothing.                                             *)
LEMMA StutterKeeps ==
  ASSUME IInv, UNCHANGED vars
  PROVE  IInv'
  <1>1. CancelThreads' = CancelThreads
    BY DEF vars, CancelThreads, Cancelling
  <1>2. CancelCountExact'
    BY <1>1, CountKept DEF IInv, vars, sessionVars
  <1> QED  BY <1>2 DEF IInv, vars, sessionVars, runVars, compactVars, TypeOK,
              SessionTypeOK, CallsMatchState, OneAtATime, RunIdsAgree, CompactIdsAgree,
              RefusalRemembered, AbortOnlyWhenAsked, DeliveryWithinRun,
              RefusedRunIsLast, AbortedCompactNeverCommits, RunActive, In, Running,
              Cancelling

(* IInv is inductive.                                                       *)
THEOREM NextInvariant == IInv /\ [Next]_vars => IInv'
  <1> SUFFICES ASSUME IInv, [Next]_vars PROVE IInv'
    OBVIOUS
  <1>1. ASSUME NEW t \in Threads, RunStep(t) PROVE IInv'
    BY <1>1, AdmitRunKeeps, CopyAdmittedKeeps, ClaimKeeps, ClaimRefusedKeeps,
       FinishWithoutConversationKeeps, RunAppendsKeeps, RunReturnsKeeps,
       RunFailsHostToolKeeps, RunFailsKeeps, HostUiFailsKeeps DEF RunStep
  <1>2. ASSUME NEW t \in Threads, AbortStep(t) PROVE IInv'
    BY <1>2, AbortKeeps, AbortCompactKeeps, CancelReturnsKeeps DEF AbortStep
  <1>3. ASSUME NEW t \in Threads, OtherStep(t) PROVE IInv'
    BY <1>3, CompactKeeps, CompactCommitsKeeps, CompactReturnsKeeps, MutateKeeps,
       SetModelSwapsKeeps, RewindDropsKeeps, MutateReturnsKeeps, LeaseKeeps,
       LeaseReturnedKeeps, DestroyKeeps DEF OtherStep
  <1>4. ASSUME EmitStep PROVE IInv'
    BY <1>4, EmitStartsKeeps, EmitAcceptedKeeps, EmitRefusedKeeps DEF EmitStep
  <1>5. ASSUME Destroyed \/ UNCHANGED vars PROVE IInv'
    BY <1>5, StutterKeeps DEF Destroyed
  <1> QED  BY <1>1, <1>2, <1>3, <1>4, <1>5 DEF Next

(* IInv holds in every state of every behaviour.                            *)
THEOREM Invariance == Spec => []IInv
  BY InitInvariant, NextInvariant, PTL DEF Spec

-----------------------------------------------------------------------------
(* The fields of the session and of every call keep their types.            *)
THEOREM TypeCorrect == Spec => []TypeOK
  <1>1. IInv => TypeOK
    BY DEF IInv
  <1> QED  BY <1>1, Invariance, PTL

(* No call uses a provider that setModel or destroy freed, whatever the     *)
(* number of aborting threads (the in_flight_provider_cancels gate).        *)
THEOREM ProviderBorrowsAreSafe == Spec => []ProviderBorrowSafe
  <1>1. IInv => ProviderBorrowSafe
    BY DEF IInv, CallsMatchState, ProviderBorrowSafe, RunActive, In, Running, Cancelling
  <1> QED  BY <1>1, Invariance, PTL

(* A late Provider.cancel hits the Run or the compaction it was issued for, *)
(* or nothing: that one is still the last of its kind and no other is under *)
(* way.                                                                     *)
THEOREM CancelsReachOnlyTheirTarget == Spec => []CancelReachesOnlyItsTarget
  <1>1. IInv => CancelReachesOnlyItsTarget
    BY DEF IInv, CallsMatchState, RunIdsAgree, CompactIdsAgree, RunActive,
       CancelReachesOnlyItsTarget
  <1> QED  BY <1>1, Invariance, PTL

(* The gate counter is the number of threads inside Provider.cancel.        *)
THEOREM CancelCountIsExact == Spec => []CancelCountExact
  <1>1. IInv => CancelCountExact
    BY DEF IInv
  <1> QED  BY <1>1, Invariance, PTL

(* One thread runs an admitted Run, however many copies of it there are.    *)
THEOREM OneRunnerOnly == Spec => []OneRunner
  <1>1. IInv => OneRunner
    BY DEF IInv, CallsMatchState, OneAtATime, OneRunner
  <1> QED  BY <1>1, Invariance, PTL

(* A Run is aborted only if it was asked to stop or its Host failed it.     *)
THEOREM AbortsAreAskedFor == Spec => []AbortOnlyWhenAsked
  <1>1. IInv => AbortOnlyWhenAsked
    BY DEF IInv
  <1> QED  BY <1>1, Invariance, PTL

(* No event is delivered outside the Run it belongs to.                     *)
THEOREM DeliveriesAreWithinRun == Spec => []DeliveryWithinRun
  <1>1. IInv => DeliveryWithinRun
    BY DEF IInv
  <1> QED  BY <1>1, Invariance, PTL

(* A Run the Host failed is the last of its Session.                        *)
THEOREM RefusalIsFinal == Spec => []RefusedRunIsLast
  <1>1. IInv => RefusedRunIsLast
    BY DEF IInv
  <1> QED  BY <1>1, Invariance, PTL

(* An aborted compaction never replaces the Conversation.                   *)
THEOREM AbortBeatsCommit == Spec => []AbortedCompactNeverCommits
  <1>1. IInv => AbortedCompactNeverCommits
    BY DEF IInv
  <1> QED  BY <1>1, Invariance, PTL

-----------------------------------------------------------------------------
(* Under a checkpoint lease a step of a Run leaves what it describes alone. *)
LEMMA LeaseRunStep ==
  ASSUME IInv, state = "checkpointing", NEW t \in Threads, RunStep(t)
  PROVE  UNCHANGED <<conversation, provider, last_run_id, last_terminal_compact_id>>
  <1> USE DEF sessionVars, runVars, compactVars
  <1>1. ASSUME NEW run \in RunIds PROVE ~AdmitRun(t, run)
    BY DEF AdmitRun, BeginRun, Admits
  <1>2. ~Claim(t) /\ ~FinishWithoutConversation(t)
    BY DEF Claim, ClaimAdmittedRun, FinishWithoutConversation, FinishAdmittedRun,
       MayClaim, RunActive
  <1>3. ~Running(t)
    BY DEF IInv, CallsMatchState, RunActive
  <1>4. /\ ~RunAppends(t) /\ ~RunReturns(t) /\ ~RunFailsHostTool(t)
        /\ ~RunFails(t) /\ ~HostUiFails(t)
    BY <1>3 DEF RunAppends, RunReturns, RunFailsHostTool, RunFails, HostUiFails,
       Running, In
  <1>5. CASE \E u \in Threads : CopyAdmitted(t, u)
    BY <1>5 DEF CopyAdmitted
  <1>6. CASE ClaimRefused(t)
    BY <1>6 DEF ClaimRefused
  <1> QED  BY <1>1, <1>2, <1>4, <1>5, <1>6 DEF RunStep

(* So does every other call.                                                *)
LEMMA LeaseOtherStep ==
  ASSUME IInv, state = "checkpointing", NEW t \in Threads, AbortStep(t) \/ OtherStep(t)
  PROVE  UNCHANGED <<conversation, provider, last_run_id, last_terminal_compact_id>>
  <1> USE DEF runVars, compactVars
  <1>1. ASSUME NEW run \in RunIds PROVE ~Abort(t, run)
    BY DEF Abort, AbortBorrow, AbortOutcome
  <1>2. ASSUME NEW id \in CompactIds PROVE ~AbortCompact(t, id) /\ ~Compact(t, id)
    BY DEF AbortCompact, AbortCompactBorrow, Compact, BeginCompact, Admits
  <1>3. CASE CancelReturns(t)
    BY <1>3 DEF CancelReturns, FinishProviderCancel
  <1>4. ~In(t, "compact") /\ ~In(t, "mutate")
    BY DEF IInv, CallsMatchState
  <1>5. ~CompactCommits(t) /\ ~CompactReturns(t) /\ ~SetModelSwaps(t) /\ ~RewindDrops(t)
        /\ ~MutateReturns(t) /\ ~Mutate(t) /\ ~Lease(t)
    BY <1>4 DEF CompactCommits, CompactReturns, SetModelSwaps, RewindDrops,
       MutateReturns, Mutate, BeginMutation, Lease, SnapshotCommitted, Admits
  <1>6. CASE LeaseReturned(t)
    BY <1>6 DEF LeaseReturned, FinishCheckpoint
  <1>7. CASE Destroy(t)
    BY <1>7 DEF Destroy, DestroySession
  <1> QED  BY <1>1, <1>2, <1>3, <1>5, <1>6, <1>7 DEF AbortStep, OtherStep

(* What a checkpoint describes does not move while its lease is out.        *)
THEOREM LeasesAreImmutable == Spec => LeaseIsImmutable
  <1> DEFINE Unmoved ==
        UNCHANGED <<conversation, provider, last_run_id, last_terminal_compact_id>>
  <1>1. ASSUME IInv, [Next]_vars, NEW t \in Threads, In(t, "lease") PROVE Unmoved
    <2>1. state = "checkpointing"
      BY <1>1 DEF IInv, CallsMatchState
    <2>2. CASE \E u \in Threads : RunStep(u) \/ AbortStep(u) \/ OtherStep(u)
      BY <1>1, <2>1, <2>2, LeaseRunStep, LeaseOtherStep
    <2>3. CASE EmitStep
      BY <2>3 DEF EmitStep, EmitStarts, EmitAccepted, EmitRefused,
         NoteCallbackFailure, runVars, sessionVars, compactVars
    <2>4. CASE Destroyed \/ UNCHANGED vars
      BY <2>4 DEF Destroyed, vars, sessionVars, runVars, compactVars
    <2> QED  BY <1>1, <2>2, <2>3, <2>4 DEF Next
  <1>2. IInv /\ [Next]_vars =>
          [(\E t \in Threads : In(t, "lease") /\ In(t, "lease")') => Unmoved]_vars
    BY <1>1
  <1> QED  BY <1>2, Invariance, PTL DEF Spec, LeaseIsImmutable
=============================================================================
