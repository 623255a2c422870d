------------------------------ MODULE HostedSession -----------------------------
(***************************************************************************)
(* One session of the multi-session service (HostedSession in              *)
(* core/session_host.zig) with every thread that touches it:               *)
(*                                                                         *)
(*   driver        takes queued work, one item at a time, and makes every  *)
(*                 call into the AgentSession (SessionState.tla);          *)
(*   Requesters    tool threads of the current Run that ask the Host a     *)
(*                 question through requestUi, one at a time;              *)
(*   Interrupters  Host threads in `interrupt`;                            *)
(*   closer        the thread in `close` (the table lets only one in);     *)
(*   clients       submit, command and respond, one critical section each. *)
(*                                                                         *)
(* Every action is one critical section of HostedSession.mutex or of       *)
(* AgentSession.mutex, or a step between two of them that other threads    *)
(* can interleave with.  The agent loop is reduced to what it does to      *)
(* these: it tests the abort flag before each turn, a turn may prompt from *)
(* several tool threads at once, and it returns or fails.                  *)
(***************************************************************************)
EXTENDS SessionState, Sequences, FiniteSets

CONSTANTS Requesters,    \* tool threads of one turn
          Interrupters,  \* Host threads that call interrupt
          MaxQueued,     \* Options.max_queued
          MaxWork,       \* work items the clients submit in all
          MaxTurns,      \* Options.max_turns
          WorkKinds,     \* which kinds of work the clients submit
          PromptKinds,   \* which UI requests the tools make
          Faults         \* which failures the environment produces

ASSUME HostedBounds ==
  /\ MaxQueued \in Nat /\ MaxWork \in Nat /\ MaxTurns \in Nat
  /\ WorkKinds \subseteq {"submission", "rerun", "command", "compact"}
  /\ PromptKinds \subseteq {"permission", "question"}
  /\ Faults \subseteq {"run", "announce", "malformed", "timeout"}
ASSUME InterruptersFinite == IsFiniteSet(Interrupters)

VARIABLES
  (* fields of HostedSession, under its mutex *)
  phase, closing, queue, current_run_id, run_interrupted, ui_released,
  run_returned, kernel_users, pending_request_id, next_request_id, response,
  (* the driver: where it is, the item it took last, its last_run_id, the     *)
  (* turns of the Run, and whether the transcript lacks anything committed    *)
  driver, work, driver_run_id, turns, unsaved,
  (* the other threads *)
  prompt, interrupter, closer,
  (* history: how many items were accepted, and the last one finished        *)
  accepted, done

flagVars   == <<run_interrupted, ui_released, run_returned>>
uiVars     == <<pending_request_id, next_request_id, response>>
hostVars   == <<phase, closing, queue, current_run_id, flagVars, kernel_users, uiVars>>
driverVars == <<driver, work, driver_run_id, turns, unsaved>>
vars == <<sessionVars, hostVars, driverVars, prompt, interrupter, closer,
          accepted, done>>

WorkItem == [id : 1 .. MaxWork, kind : WorkKinds]
IsRun(item) == item.kind \in {"submission", "rerun"}

NoWork     == [id |-> 0, kind |-> "none"]
NoResponse == [id |-> 0, readable |-> TRUE]
NoPrompt   == [pc |-> "off", id |-> 0, kind |-> "none", outcome |-> "none", got |-> 0]

RunSteps     == {"rewind", "rewinding", "admit", "publish", "stop_abort", "stop_cancel",
                 "stop_release", "claim", "loop", "tools", "returned", "persist",
                 "flush", "finish"}
CommandSteps == {"mutate", "mutating", "compact", "compacting", "cmd_persist",
                 "cmd_flush", "cmd_done"}
DriverSteps  == {"take", "drain", "exit"} \cup RunSteps \cup CommandSteps

TypeOK ==
  /\ SessionTypeOK
  /\ phase \in {"idle", "running", "poisoned", "closing"}
  /\ closing \in BOOLEAN
  /\ queue \in Seq(WorkItem) /\ Len(queue) <= MaxQueued
  /\ current_run_id \in Nat
  /\ run_interrupted \in BOOLEAN /\ ui_released \in BOOLEAN /\ run_returned \in BOOLEAN
  /\ kernel_users \in Nat
  /\ pending_request_id \in Nat /\ next_request_id \in Nat \ {0}
  /\ response \in [id : Nat, readable : BOOLEAN]
  /\ driver \in DriverSteps
  /\ work \in WorkItem \cup {NoWork}
  /\ driver_run_id \in Nat /\ turns \in 0 .. MaxTurns /\ unsaved \in BOOLEAN
  /\ prompt \in [Requesters ->
       [pc : {"off", "want", "announce", "waiting"}, id : Nat,
        kind : PromptKinds \cup {"none"},
        outcome : {"none", "answered", "malformed", "cancelled", "expired", "failed"}, got : Nat]]
  /\ interrupter \in [Interrupters ->
       [pc : {"out", "abort", "cancel", "release", "leave"}, run : Nat]]
  /\ closer \in [pc : {"open", "abort", "cancel", "release", "join", "users",
                       "destroy", "closed"}, run : Nat]
  /\ accepted \in 0 .. MaxWork /\ done \in 0 .. MaxWork

Init ==
  /\ SessionInit
  /\ phase = "idle" /\ closing = FALSE /\ queue = << >>
  /\ current_run_id = 0
  /\ run_interrupted = FALSE /\ ui_released = FALSE /\ run_returned = FALSE
  /\ kernel_users = 0
  /\ pending_request_id = 0 /\ next_request_id = 1 /\ response = NoResponse
  /\ driver = "take" /\ work = NoWork
  /\ driver_run_id = 0 /\ turns = 0 /\ unsaved = FALSE
  /\ prompt = [r \in Requesters |-> NoPrompt]
  /\ interrupter = [i \in Interrupters |-> [pc |-> "out", run |-> 0]]
  /\ closer = [pc |-> "open", run |-> 0]
  /\ accepted = 0 /\ done = 0

-----------------------------------------------------------------------------
(* Clients: each call is one critical section.                              *)

(* submit and command: enqueue.                                             *)
Enqueue(kind) ==
  /\ accepted < MaxWork
  /\ ~closing /\ phase # "poisoned" /\ Len(queue) < MaxQueued
  /\ queue' = Append(queue, [id |-> accepted + 1, kind |-> kind])
  /\ accepted' = accepted + 1
  /\ UNCHANGED <<sessionVars, phase, closing, current_run_id, flagVars, kernel_users,
                 uiVars, driverVars, prompt, interrupter, closer, done>>

(* respond, when it does not answer NoSuchRequest.                          *)
Respond(request_id, readable) ==
  /\ pending_request_id # 0 /\ pending_request_id = request_id
  /\ response = NoResponse
  /\ ~run_interrupted /\ ~closing
  /\ response' = [id |-> request_id, readable |-> readable]
  /\ UNCHANGED <<sessionVars, phase, closing, queue, current_run_id, flagVars,
                 kernel_users, pending_request_id, next_request_id, driverVars,
                 prompt, interrupter, closer, accepted, done>>

-----------------------------------------------------------------------------
(* The driver takes work (nextWork) and waits for the provider cancels an   *)
(* earlier interrupt may still be inside (awaitProviderCancelsDrained).     *)

Goto(pc) == driver' = pc

(* Mutant: a closed session still serves its queue.                         *)
HasWork_AfterClose == queue # << >> /\ phase # "poisoned"

HasWork == ~closing /\ queue # << >> /\ phase # "poisoned"

TakeWork ==
  /\ driver = "take" /\ HasWork
  /\ queue' = Tail(queue) /\ work' = Head(queue)
  /\ IF IsRun(Head(queue))
     THEN /\ phase' = "running"
          /\ run_interrupted' = FALSE /\ ui_released' = FALSE /\ run_returned' = FALSE
     ELSE UNCHANGED <<phase, flagVars>>
  /\ Goto("drain")
  /\ UNCHANGED <<sessionVars, closing, current_run_id, kernel_users, uiVars,
                 driver_run_id, turns, unsaved, prompt, interrupter, closer,
                 accepted, done>>

DriverExits ==
  /\ driver = "take" /\ closing
  /\ Goto("exit")
  /\ UNCHANGED <<sessionVars, hostVars, work, driver_run_id, turns, unsaved,
                 prompt, interrupter, closer, accepted, done>>

Drained ==
  /\ driver = "drain" /\ ProviderCancelsDrained
  /\ Goto(CASE work.kind = "submission" -> "admit"   [] work.kind = "rerun"   -> "rewind"
             [] work.kind = "command"    -> "mutate"  [] work.kind = "compact" -> "compact")
  /\ driver_run_id' = IF IsRun(work) THEN driver_run_id + 1 ELSE driver_run_id
  /\ UNCHANGED <<sessionVars, hostVars, work, turns, unsaved,
                 prompt, interrupter, closer, accepted, done>>

-----------------------------------------------------------------------------
(* runSubmission: rewind, admission, and the hand-over of an interrupt or   *)
(* close that came before there was a Run to abort.                         *)

RewindBegins ==
  /\ driver = "rewind" /\ BeginMutation /\ Goto("rewinding")
  /\ UNCHANGED <<hostVars, work, driver_run_id, turns, unsaved,
                 prompt, interrupter, closer, accepted, done>>

(* rewindTo drops the tail, or refuses the position and changes nothing and *)
(* the Run fails before it is admitted.                                     *)
RewindEnds ==
  /\ driver = "rewinding" /\ EndMutation
  /\ \/ Goto("admit")  /\ unsaved' = TRUE
     \/ Goto("persist") /\ UNCHANGED unsaved
  /\ UNCHANGED <<hostVars, work, driver_run_id, turns,
                 prompt, interrupter, closer, accepted, done>>

Admit ==
  /\ driver = "admit" /\ BeginRun(driver_run_id) /\ Goto("publish")
  /\ UNCHANGED <<hostVars, work, driver_run_id, turns, unsaved,
                 prompt, interrupter, closer, accepted, done>>

PublishRun ==
  /\ driver = "publish"
  /\ current_run_id' = driver_run_id
  /\ Goto(IF run_interrupted \/ closing THEN "stop_abort" ELSE "claim")
  /\ UNCHANGED <<sessionVars, phase, closing, queue, flagVars, kernel_users, uiVars,
                 work, driver_run_id, turns, unsaved,
                 prompt, interrupter, closer, accepted, done>>

DriverAborts ==
  /\ driver = "stop_abort"
  /\ IF AbortOutcome(driver_run_id) = "borrow"
     THEN AbortBorrow(driver_run_id) /\ Goto("stop_cancel")
     ELSE UNCHANGED sessionVars /\ Goto("stop_release")
  /\ UNCHANGED <<hostVars, work, driver_run_id, turns, unsaved,
                 prompt, interrupter, closer, accepted, done>>

DriverCancelReturns ==
  /\ driver = "stop_cancel" /\ FinishProviderCancel /\ Goto("stop_release")
  /\ UNCHANGED <<hostVars, work, driver_run_id, turns, unsaved,
                 prompt, interrupter, closer, accepted, done>>

(* Mutant: the prompt is not released.                                      *)
ReleaseUi_Nothing == UNCHANGED ui_released

ReleaseUi == ui_released' = TRUE
releaseFrame == <<phase, closing, queue, current_run_id, run_interrupted,
                  run_returned, kernel_users, uiVars>>

DriverReleases ==
  /\ driver = "stop_release" /\ ReleaseUi /\ Goto("claim")
  /\ UNCHANGED <<sessionVars, releaseFrame, work, driver_run_id, turns, unsaved,
                 prompt, interrupter, closer, accepted, done>>

-----------------------------------------------------------------------------
(* AdmittedRun.runText: the agent loop.                                     *)

Claim ==
  /\ driver = "claim" /\ ClaimAdmittedRun(driver_run_id) /\ Goto("loop")
  /\ turns' = 0 /\ unsaved' = TRUE
  /\ prompt' = [r \in Requesters |-> NoPrompt]
  /\ UNCHANGED <<hostVars, work, driver_run_id, interrupter, closer, accepted, done>>

(* Inside runLoop: the abort test at the top of the loop                    *)
(* (agent_loop.zig:1684), then one turn: a provider request whose tool      *)
(* calls, run in parallel, may need the Host's consent or answers.          *)
Turn ==
  /\ driver = "loop" /\ ~abort_signal /\ turns < MaxTurns
  /\ WriteConversation
  /\ turns' = turns + 1
  /\ \E asking \in [Requesters -> PromptKinds \cup {"none"}] :
       prompt' = [r \in Requesters |->
                    IF asking[r] = "none" THEN NoPrompt
                    ELSE [NoPrompt EXCEPT !.pc = "want", !.kind = asking[r]]]
  /\ Goto("tools")
  /\ UNCHANGED <<hostVars, work, driver_run_id, unsaved, interrupter, closer,
                 accepted, done>>

TurnEnds ==
  /\ driver = "tools" /\ \A r \in Requesters : prompt[r].pc = "off"
  /\ Goto("loop")
  /\ UNCHANGED <<sessionVars, hostVars, work, driver_run_id, turns, unsaved,
                 prompt, interrupter, closer, accepted, done>>

RunReturns ==
  /\ driver = "loop" /\ FinishRunLifecycle /\ Goto("returned")
  /\ UNCHANGED <<hostVars, work, driver_run_id, turns, unsaved,
                 prompt, interrupter, closer, accepted, done>>

RunFails ==
  /\ driver = "loop" /\ "run" \in Faults /\ PoisonRun /\ Goto("returned")
  /\ UNCHANGED <<hostVars, work, driver_run_id, turns, unsaved,
                 prompt, interrupter, closer, accepted, done>>

-----------------------------------------------------------------------------
(* The end of runSubmission and finishRun: persist takes a checkpoint lease *)
(* unless the kernel answers BUSY or poisoned, in which case it gives up.   *)

RunReturned ==
  /\ driver = "returned"
  /\ current_run_id' = 0 /\ run_returned' = TRUE
  /\ Goto("persist")
  /\ UNCHANGED <<sessionVars, phase, closing, queue, run_interrupted, ui_released,
                 kernel_users, uiVars, work, driver_run_id, turns, unsaved,
                 prompt, interrupter, closer, accepted, done>>

Persist(from, flush, after) ==
  /\ driver = from
  /\ IF Admits THEN SnapshotCommitted /\ Goto(flush)
               ELSE UNCHANGED sessionVars /\ Goto(after)
  /\ UNCHANGED <<hostVars, work, driver_run_id, turns, unsaved,
                 prompt, interrupter, closer, accepted, done>>

Flush(from, after) ==
  /\ driver = from /\ FinishCheckpoint /\ Goto(after)
  /\ unsaved' = FALSE
  /\ UNCHANGED <<hostVars, work, driver_run_id, turns,
                 prompt, interrupter, closer, accepted, done>>

(* Mutant: an interrupted Run drops the queued work.                        *)
QueueDropped_OnInterrupt == state = "poisoned" \/ run_interrupted

QueueDropped == state = "poisoned"

FinishRun ==
  /\ driver = "finish"
  /\ phase' = CASE state = "poisoned" -> "poisoned"
                [] state # "poisoned" /\ closing -> phase
                [] OTHER -> "idle"
  /\ queue' = IF QueueDropped THEN << >> ELSE queue
  /\ done' = work.id
  /\ Goto("take")
  /\ UNCHANGED <<sessionVars, closing, current_run_id, flagVars, kernel_users, uiVars,
                 work, driver_run_id, turns, unsaved, prompt, interrupter, closer,
                 accepted>>

-----------------------------------------------------------------------------
(* applyCommand: a configuration change, or a compaction, which commits a   *)
(* new Conversation or fails and leaves the old one.                        *)

MutateBegins ==
  /\ driver = "mutate" /\ BeginMutation /\ Goto("mutating")
  /\ UNCHANGED <<hostVars, work, driver_run_id, turns, unsaved,
                 prompt, interrupter, closer, accepted, done>>

MutateEnds ==
  /\ driver = "mutating" /\ EndMutation
  /\ Goto("cmd_persist") \/ Goto("cmd_done")
  /\ UNCHANGED <<hostVars, work, driver_run_id, turns, unsaved,
                 prompt, interrupter, closer, accepted, done>>

CompactBegins ==
  /\ driver = "compact" /\ BeginCompact(last_admitted_compact_id + 1)
  /\ Goto("compacting")
  /\ UNCHANGED <<hostVars, work, driver_run_id, turns, unsaved,
                 prompt, interrupter, closer, accepted, done>>

CompactCommits ==
  /\ driver = "compacting" /\ CommitCompact
  /\ unsaved' = TRUE
  /\ UNCHANGED <<hostVars, driver, work, driver_run_id, turns,
                 prompt, interrupter, closer, accepted, done>>

CompactEnds ==
  /\ driver = "compacting" /\ FinishCompact(last_admitted_compact_id)
  /\ Goto(IF state = "compact_finishing" THEN "cmd_persist" ELSE "cmd_done")
  /\ UNCHANGED <<hostVars, work, driver_run_id, turns, unsaved,
                 prompt, interrupter, closer, accepted, done>>

CommandDone ==
  /\ driver = "cmd_done"
  /\ done' = work.id /\ Goto("take")
  /\ UNCHANGED <<sessionVars, hostVars, work, driver_run_id, turns, unsaved,
                 prompt, interrupter, closer, accepted>>

Driver ==
  \/ TakeWork \/ DriverExits \/ Drained
  \/ RewindBegins \/ RewindEnds \/ Admit \/ PublishRun
  \/ DriverAborts \/ DriverCancelReturns \/ DriverReleases
  \/ Claim \/ Turn \/ TurnEnds \/ RunReturns \/ RunFails
  \/ RunReturned \/ Persist("persist", "flush", "finish") \/ Flush("flush", "finish")
  \/ FinishRun
  \/ MutateBegins \/ MutateEnds \/ CompactBegins \/ CompactCommits \/ CompactEnds
  \/ Persist("cmd_persist", "cmd_flush", "cmd_done") \/ Flush("cmd_flush", "cmd_done")
  \/ CommandDone

-----------------------------------------------------------------------------
(* requestUi, on a tool thread.  ui_serial is held from the request to its  *)
(* end, so one requester at a time is past "want".                          *)

SerialFree == \A r \in Requesters : prompt[r].pc \in {"off", "want"}

(* The request is over for the tool: `outcome` and, when a client's answer  *)
(* was delivered, the request it had been given for.  requestHostUi turns   *)
(* an error into a callback failure: a question that is not answered is     *)
(* error.InputAborted, a permission prompt just reads as denied.            *)
Ends(r, outcome, got) ==
  prompt' = [prompt EXCEPT ![r] = [@ EXCEPT !.pc = "off", !.outcome = outcome, !.got = got]]

EndsWithout(r, outcome) ==
  /\ Ends(r, outcome, 0)
  /\ IF outcome = "failed" \/ prompt[r].kind = "question"
     THEN NoteCallbackFailure ELSE UNCHANGED sessionVars

AskReleased(r) ==
  /\ prompt[r].pc = "want" /\ SerialFree
  /\ ui_released
  /\ EndsWithout(r, "cancelled")
  /\ UNCHANGED <<hostVars, driverVars, interrupter, closer, accepted, done>>

Ask(r) ==
  /\ prompt[r].pc = "want" /\ SerialFree
  /\ ~ui_released
  /\ pending_request_id' = next_request_id
  /\ next_request_id' = next_request_id + 1
  /\ prompt' = [prompt EXCEPT ![r] = [@ EXCEPT !.pc = "announce", !.id = next_request_id]]
  /\ UNCHANGED <<sessionVars, phase, closing, queue, current_run_id, flagVars,
                 kernel_users, response, driverVars, interrupter, closer, accepted, done>>

Announce(r) ==
  /\ prompt[r].pc = "announce"
  /\ prompt' = [prompt EXCEPT ![r].pc = "waiting"]
  /\ UNCHANGED <<sessionVars, hostVars, driverVars, interrupter, closer, accepted, done>>

(* Out of memory while the announcement is written.                         *)
AnnounceFails(r) ==
  /\ prompt[r].pc = "announce" /\ "announce" \in Faults
  /\ pending_request_id' = 0
  /\ EndsWithout(r, "failed")
  /\ UNCHANGED <<phase, closing, queue, current_run_id, flagVars, kernel_users,
                 next_request_id, response, driverVars, interrupter, closer,
                 accepted, done>>

(* Mutant: a stored answer counts whatever came in between.                 *)
ResponseStands_Always == response # NoResponse

(* takeResponseLocked: a stored answer is consumed, and counts only if      *)
(* neither an interrupt nor a close got in first.                           *)
ResponseStands == response # NoResponse /\ ~run_interrupted /\ ~closing

(* Mutant: the slot is not emptied with the request.                        *)
EmptySlot_Not == UNCHANGED response

EmptySlot == response' = NoResponse

TakeResponse(r) ==
  /\ prompt[r].pc = "waiting"
  /\ response # NoResponse \/ ui_released \/ "timeout" \in Faults
  /\ IF ResponseStands /\ response.readable
     THEN Ends(r, "answered", response.id) /\ UNCHANGED sessionVars
     ELSE EndsWithout(r, IF ResponseStands THEN "malformed"
                         ELSE IF response # NoResponse \/ ui_released THEN "cancelled"
                         ELSE "expired")
  /\ EmptySlot
  /\ pending_request_id' = 0
  /\ UNCHANGED <<phase, closing, queue, current_run_id, flagVars, kernel_users,
                 next_request_id, driverVars, interrupter, closer, accepted, done>>

Requester(r) ==
  AskReleased(r) \/ Ask(r) \/ Announce(r) \/ AnnounceFails(r) \/ TakeResponse(r)

-----------------------------------------------------------------------------
(* interrupt, on a Host thread.                                             *)

At(i, pc, run) == interrupter' = [interrupter EXCEPT ![i] = [pc |-> pc, run |-> run]]

(* Mutant: the interrupt enters the kernel uncounted.                       *)
EnterKernel_Uncounted == UNCHANGED kernel_users

EnterKernel == kernel_users' = kernel_users + 1

Interrupt(i) ==
  /\ interrupter[i].pc = "out"
  /\ ~closing /\ ~(phase = "running" /\ run_returned)
  /\ run_interrupted' = (run_interrupted \/ phase = "running")
  /\ IF current_run_id = 0
     THEN UNCHANGED <<kernel_users, interrupter>>
     ELSE EnterKernel /\ At(i, "abort", current_run_id)
  /\ UNCHANGED <<sessionVars, phase, closing, queue, current_run_id, ui_released,
                 run_returned, uiVars, driverVars, prompt, closer, accepted, done>>

InterruptAborts(i) ==
  /\ interrupter[i].pc = "abort"
  /\ LET run == interrupter[i].run IN
       IF AbortOutcome(run) = "borrow"
       THEN AbortBorrow(run) /\ At(i, "cancel", run)
       ELSE UNCHANGED sessionVars /\ At(i, "release", run)
  /\ UNCHANGED <<hostVars, driverVars, prompt, closer, accepted, done>>

InterruptCancelReturns(i) ==
  /\ interrupter[i].pc = "cancel"
  /\ FinishProviderCancel /\ At(i, "release", interrupter[i].run)
  /\ UNCHANGED <<hostVars, driverVars, prompt, closer, accepted, done>>

InterruptReleases(i) ==
  /\ interrupter[i].pc = "release"
  /\ ReleaseUi /\ At(i, "leave", interrupter[i].run)
  /\ UNCHANGED <<sessionVars, releaseFrame, driverVars, prompt, closer, accepted, done>>

LeaveKernel(i) ==
  /\ interrupter[i].pc = "leave"
  /\ kernel_users' = kernel_users - 1 /\ At(i, "out", 0)
  /\ UNCHANGED <<sessionVars, phase, closing, queue, current_run_id, flagVars, uiVars,
                 driverVars, prompt, closer, accepted, done>>

Interrupter(i) ==
  InterruptAborts(i) \/ InterruptCancelReturns(i) \/ InterruptReleases(i) \/ LeaveKernel(i)

-----------------------------------------------------------------------------
(* close: stopDriver, then shutdown.                                        *)

Closes(pc) == closer' = [closer EXCEPT !.pc = pc]

Close ==
  /\ closer.pc = "open"
  /\ closing' = TRUE /\ phase' = "closing"
  /\ closer' = [pc |-> IF current_run_id # 0 THEN "abort" ELSE "release",
                run |-> current_run_id]
  /\ UNCHANGED <<sessionVars, queue, current_run_id, flagVars, kernel_users, uiVars,
                 driverVars, prompt, interrupter, accepted, done>>

CloseAborts ==
  /\ closer.pc = "abort"
  /\ IF AbortOutcome(closer.run) = "borrow"
     THEN AbortBorrow(closer.run) /\ Closes("cancel")
     ELSE UNCHANGED sessionVars /\ Closes("release")
  /\ UNCHANGED <<hostVars, driverVars, prompt, interrupter, accepted, done>>

CloseCancelReturns ==
  /\ closer.pc = "cancel" /\ FinishProviderCancel /\ Closes("release")
  /\ UNCHANGED <<hostVars, driverVars, prompt, interrupter, accepted, done>>

CloseReleases ==
  /\ closer.pc = "release" /\ ReleaseUi /\ Closes("join")
  /\ UNCHANGED <<sessionVars, releaseFrame, driverVars, prompt, interrupter,
                 accepted, done>>

DriverGone == driver = "exit"

CloseJoins ==
  /\ closer.pc = "join" /\ DriverGone /\ Closes("users")
  /\ UNCHANGED <<sessionVars, hostVars, driverVars, prompt, interrupter, accepted, done>>

(* Mutant: close does not wait for the interrupts in the kernel.            *)
KernelIdle_NotWaited == TRUE

KernelIdle == kernel_users = 0

(* Waits for every interrupt to leave the kernel, then frees what is queued.*)
CloseDrops ==
  /\ closer.pc = "users" /\ KernelIdle
  /\ queue' = << >> /\ response' = NoResponse
  /\ Closes("destroy")
  /\ UNCHANGED <<sessionVars, phase, closing, current_run_id, flagVars, kernel_users,
                 pending_request_id, next_request_id, driverVars, prompt, interrupter,
                 accepted, done>>

CloseDestroys ==
  /\ closer.pc = "destroy" /\ DestroySession /\ Closes("closed")
  /\ UNCHANGED <<hostVars, driverVars, prompt, interrupter, accepted, done>>

Closer == CloseAborts \/ CloseCancelReturns \/ CloseReleases \/ CloseJoins
          \/ CloseDrops \/ CloseDestroys

-----------------------------------------------------------------------------
Clients ==
  \/ \E kind \in WorkKinds : Enqueue(kind)
  \/ \E id \in 1 .. next_request_id, readable \in BOOLEAN :
       (readable \/ "malformed" \in Faults) /\ Respond(id, readable)

Closed == closer.pc = "closed" /\ UNCHANGED vars

Next ==
  \/ Clients
  \/ Driver
  \/ \E r \in Requesters : Requester(r)
  \/ \E i \in Interrupters : Interrupt(i) \/ Interrupter(i)
  \/ Close \/ Closer
  \/ Closed

(* Threads that are running go on: the driver, a tool thread, an interrupt  *)
(* or a close already under way.  Nobody has to submit, answer, interrupt   *)
(* or close.  A wait on a condition variable is re-tested at the broadcast  *)
(* every change of its predicate makes, so weak fairness of the step that   *)
(* the wait guards is what the code gives.                                  *)
Fairness ==
  /\ WF_vars(Driver)
  /\ \A r \in Requesters : WF_vars(Requester(r))
  /\ \A i \in Interrupters : WF_vars(Interrupter(i))
  /\ WF_vars(Closer)

Spec     == Init /\ [][Next]_vars
FairSpec == Spec /\ Fairness

-----------------------------------------------------------------------------
(* The kernel never refuses what the service asks of it, nor is it asked    *)
(* too late: it admits the Run, rewind or command the driver is about to    *)
(* make (session_host.zig:619-621), it can be destroyed when close gets to  *)
(* it, and once it is destroyed no thread is inside it (kernel_users, the   *)
(* join of the driver).                                                     *)
KernelNeverRefuses ==
  /\ driver \in {"rewind", "admit", "mutate", "compact"} => Admits
  /\ closer.pc = "destroy" => MayDestroy
  /\ state = "destroying" =>
       /\ driver = "exit"
       /\ \A i \in Interrupters : interrupter[i].pc \notin {"abort", "cancel"}
       /\ \A r \in Requesters : prompt[r].pc = "off"

(* While a Run executes and a prompt may be released, the Run's abort is in *)
(* force (the comment on the ui_released field).                            *)
ReleasedMeansAborted ==
  driver \in {"loop", "tools"} /\ ui_released => abort_signal

(* The answer a tool gets is the one a client gave for its own request      *)
(* (respond compares the pending id; the slot is emptied with the request). *)
AnswersMatch ==
  \A r \in Requesters :
    prompt[r].outcome = "answered" => prompt[r].got = prompt[r].id

(* Once the user's stop is in force in the kernel no answer reaches a tool  *)
(* of that Run, not even one stored before the stop was asked for: a late   *)
(* "allow" cannot run a tool the user stopped (takeResponseLocked).         *)
NoAnswerAfterStop ==
  [][\A r \in Requesters :
       prompt[r].outcome # "answered" /\ prompt'[r].outcome = "answered" =>
         state # "abort_requested"]_vars

(* An interrupted Run is not a failed one: when nothing else fails, the     *)
(* Session survives an interrupt and goes on to its queued work.            *)
InterruptLeavesSessionUsable == run_interrupted => phase # "poisoned"

(* After every Run and command the transcript holds the committed           *)
(* Conversation, unless the Session is poisoned and has none.               *)
TranscriptComplete ==
  driver \in {"take", "exit"} /\ state # "poisoned" => ~unsaved

(* A Run stop request, once taken, stops the Run: it returns and the driver *)
(* reports it, whatever prompt it was waiting for.                          *)
InterruptStopsRun == run_interrupted /\ phase = "running" ~> phase # "running"

(* close returns: the pending prompt is released, the Run stops, the driver *)
(* is joined and every interrupt leaves.                                    *)
CloseReturns == closing ~> closer.pc = "closed"

(* Work that was accepted is done, unless the Session is closed or          *)
(* poisoned, or a client leaves a prompt unanswered for ever: an interrupt, *)
(* a failing Run, a refused rewind or a full queue never strand an item     *)
(* (nextWork, finishRun).                                                   *)
AcceptedWorkIsDone ==
  []<>(pending_request_id = 0) =>
    \A n \in 1 .. MaxWork :
      accepted >= n ~> (done >= n \/ closing \/ phase = "poisoned")

(* The session implements the abstract work queue.                          *)
WQ == INSTANCE WorkQueue WITH taken <- work.id,
                              refusing <- closing \/ phase = "poisoned"

(* Accepted work is started in order, one item at a time, never twice, and  *)
(* a closed or poisoned session starts nothing (enqueue, nextWork,          *)
(* finishRun).                                                              *)
ImplementsWorkQueue == WQ!QSpec
=============================================================================
