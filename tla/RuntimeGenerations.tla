---------------------------- MODULE RuntimeGenerations --------------------------
(***************************************************************************)
(* Runtimes and the sessions they own (AgentRuntime and RuntimeHost in     *)
(* core/agent_session.zig).  A RuntimeHost replaces its runtime, a plugin  *)
(* generation, while sessions of earlier ones live on: replace publishes a *)
(* successor and retires the predecessor, and the last session of a        *)
(* retired runtime frees it.  Generation Standalone is a runtime made by   *)
(* AgentRuntime.create, with no host over it, as SessionHost uses one.     *)
(*                                                                         *)
(* Freeing a runtime runs the plugins' cleanup, which may call the host    *)
(* again: the calls of other threads while one is about to DestroyOwned    *)
(* are such calls too, unless it holds the host's lock (CleanupOffLock).   *)
(***************************************************************************)
EXTENDS Integers, FiniteSets

CONSTANTS Threads,       \* Host threads
          Sessions,      \* AgentSession objects, reused once destroyed
          Ids,           \* logical session ids
          MaxGeneration  \* the largest generation number, 2^64 - 1 in the code

ASSUME GenerationBound == MaxGeneration \in Nat \ {0}

Standalone  == 0
Generations == 0 .. MaxGeneration
Exhausted   == -1            \* next_generation = null
Nobody      == [holder |-> "nobody"]
NoSession   == [session |-> "none"]
NoId        == [id |-> "none"]

ASSUME SessionsFinite == IsFiniteSet(Sessions)
ASSUME NoneIsNoValue  == Nobody \notin Threads /\ NoSession \notin Sessions /\ NoId \notin Ids

VARIABLES
  host_mutex,       \* RuntimeHost.mutex: the thread that keeps it across steps
  host_state,       \* RuntimeHost.state, "gone" once the host is freed
  active,           \* RuntimeHost.active
  next_generation,  \* RuntimeHost.next_generation
  memory,           \* generation -> whether its AgentRuntime is allocated
  state,            \* generation -> AgentRuntime.state
  live_sessions,    \* generation -> AgentRuntime.live_sessions
  session_ids,      \* generation -> AgentRuntime.session_ids
  session,          \* session -> its runtime, id, and how far it is built
  op                \* thread -> the call it is inside

hostVars    == <<host_mutex, host_state, active, next_generation>>
runtimeVars == <<memory, state, live_sessions, session_ids>>
vars        == <<hostVars, runtimeVars, session, op>>

Session(stage, gen, id) == [stage |-> stage, gen |-> gen, id |-> id]
Absent       == Session("none", Standalone, NoId)
Op(name, gen, s) == [name |-> name, gen |-> gen, session |-> s]
Outside      == Op("none", Standalone, NoSession)

OpNames == {"none", "choose", "build", "unregister", "release", "reap",
            "stage", "publish", "retire_previous", "reap_previous", "replaced",
            "retire_last", "reap_last", "host_free"}

TypeOK ==
  /\ host_mutex \in Threads \cup {Nobody}
  /\ host_state \in {"active", "replacing", "destroying", "gone"}
  /\ active \in Generations \ {Standalone}
  /\ next_generation \in Generations \cup {Exhausted}
  /\ memory \in [Generations -> {"none", "alive", "freed"}]
  /\ state \in [Generations -> {"active", "draining", "destroying"}]
  /\ live_sessions \in [Generations -> Nat]
  /\ session_ids \in [Generations -> SUBSET Ids]
  /\ session \in [Sessions -> [stage : {"none", "retained", "registered", "open", "closing"},
                               gen : Generations, id : Ids \cup {NoId}]]
  /\ op \in [Threads -> [name : OpNames, gen : Generations,
                         session : Sessions \cup {NoSession}]]

(* std.math.add(u64, g, 1) catch null                                       *)
Successor(g) == IF g = MaxGeneration THEN Exhausted ELSE g + 1

Init ==
  /\ host_mutex = Nobody
  /\ host_state = "active"
  /\ active = 1
  /\ next_generation = Successor(1)
  /\ memory = [g \in Generations |-> IF g <= 1 THEN "alive" ELSE "none"]
  /\ state = [g \in Generations |-> "active"]
  /\ live_sessions = [g \in Generations |-> 0]
  /\ session_ids = [g \in Generations |-> {}]
  /\ session = [s \in Sessions |-> Absent]
  /\ op = [t \in Threads |-> Outside]

In(t, name) == op[t].name = name
Goes(t, name) == op' = [op EXCEPT ![t] = Op(name, @.gen, @.session)]
Returns(t) == op' = [op EXCEPT ![t] = Outside]

(* The host's lock is free for a section that takes and drops it at once.   *)
HostLockFree == host_mutex = Nobody

(* host.destroy is its owner's last call on the host, made when no other    *)
(* call is waiting for the lock: the host is freed with its mutex.          *)
HostUsable == host_state \notin {"destroying", "gone"}

(* A call that returns drops the host's lock if it kept it.                 *)
DropsHostLock(t) == host_mutex' = IF host_mutex = t THEN Nobody ELSE host_mutex

-----------------------------------------------------------------------------
(* Sessions: AgentSession.createWithHooks and destroy, with the runtime's   *)
(* own critical sections retainSession, registerSessionId,                  *)
(* unregisterSessionId and releaseSession.                                  *)

(* An AgentSession object that no call has in hand.                         *)
Unused(s) == session[s].stage = "none" /\ \A t \in Threads : op[t].session # s

(* RuntimeHost.createSession, createRestoredSession: the lock is kept until *)
(* the session is built.                                                    *)
CreateLocks(t, s) ==
  /\ In(t, "none") /\ HostLockFree /\ HostUsable /\ Unused(s)
  /\ host_mutex' = t
  /\ op' = [op EXCEPT ![t] = Op("choose", active, s)]
  /\ UNCHANGED <<host_state, active, next_generation, runtimeVars, session>>

(* retainSession, on a runtime that admits.                                 *)
Retains(t, g, s) ==
  /\ live_sessions' = [live_sessions EXCEPT ![g] = @ + 1]
  /\ session' = [session EXCEPT ![s] = Session("retained", g, NoId)]
  /\ op' = [op EXCEPT ![t] = Op("build", g, s)]
  /\ UNCHANGED <<memory, state, session_ids>>

CreateRetains(t) ==
  /\ In(t, "choose")
  /\ IF state[op[t].gen] = "active"
     THEN Retains(t, op[t].gen, op[t].session) /\ UNCHANGED hostVars
     ELSE Returns(t) /\ DropsHostLock(t)
          /\ UNCHANGED <<host_state, active, next_generation, runtimeVars, session>>

(* AgentRuntime.createSession, not through a host.                          *)
StandaloneCreates(t, s) ==
  /\ In(t, "none") /\ Unused(s)
  /\ memory[Standalone] = "alive" /\ state[Standalone] = "active"
  /\ Retains(t, Standalone, s)
  /\ UNCHANGED hostVars

(* registerSessionId refuses an id the registry has.                        *)
MayRegister(g, id) == id \notin session_ids[g]

(* A restored session brings its id, a fresh one draws until one is unused. *)
CreateRegisters(t, id) ==
  /\ In(t, "build") /\ session[op[t].session].stage = "retained"
  /\ MayRegister(op[t].gen, id)
  /\ session_ids' = [session_ids EXCEPT ![op[t].gen] = @ \cup {id}]
  /\ session' = [session EXCEPT ![op[t].session] = Session("registered", @.gen, id)]
  /\ UNCHANGED <<hostVars, memory, state, live_sessions, op>>

CreateReturns(t) ==
  /\ In(t, "build") /\ session[op[t].session].stage = "registered"
  /\ session' = [session EXCEPT ![op[t].session] = Session("open", @.gen, @.id)]
  /\ Returns(t) /\ DropsHostLock(t)
  /\ UNCHANGED <<host_state, active, next_generation, runtimeVars>>

(* Mutant: the id of a creation that fails stays in the registry.           *)
CreateFails_KeepsId(t) ==
  /\ In(t, "build")
  /\ Goes(t, "release")
  /\ UNCHANGED <<hostVars, runtimeVars, session>>

(* An error anywhere runs the errdefers of what was done so far.            *)
CreateFails(t) ==
  /\ In(t, "build")
  /\ Goes(t, IF session[op[t].session].stage = "registered" THEN "unregister" ELSE "release")
  /\ UNCHANGED <<hostVars, runtimeVars, session>>

(* AgentSession.destroy, of its one owner.                                  *)
DestroySession(t, s) ==
  /\ In(t, "none") /\ session[s].stage = "open"
  /\ session' = [session EXCEPT ![s] = Session("closing", @.gen, @.id)]
  /\ op' = [op EXCEPT ![t] = Op("unregister", session[s].gen, s)]
  /\ UNCHANGED <<hostVars, runtimeVars>>

UnregistersSessionId(t) ==
  /\ In(t, "unregister")
  /\ session_ids' = [session_ids EXCEPT ![op[t].gen] = @ \ {session[op[t].session].id}]
  /\ session' = [session EXCEPT ![op[t].session] = Session("retained", @.gen, NoId)]
  /\ Goes(t, "release")
  /\ UNCHANGED <<hostVars, memory, state, live_sessions>>

(* Mutant: only retire reaps.                                               *)
LastOfDraining_Never(g) == FALSE

(* This session is the last of a draining runtime.                          *)
LastOfDraining(g) == live_sessions[g] = 1 /\ state[g] = "draining"

(* releaseSession: the session and its object are gone.                     *)
LeavesRuntime(t) ==
  /\ In(t, "release")
  /\ session' = [session EXCEPT ![op[t].session] = Absent]
  /\ live_sessions' = [live_sessions EXCEPT ![op[t].gen] = @ - 1]
  /\ UNCHANGED <<host_state, active, next_generation, memory, session_ids>>

ReleasesSession(t) ==
  /\ LeavesRuntime(t) /\ ~LastOfDraining(op[t].gen)
  /\ Returns(t) /\ DropsHostLock(t)
  /\ UNCHANGED state

ReleasesLast(t) ==
  /\ LeavesRuntime(t) /\ LastOfDraining(op[t].gen)
  /\ state' = [state EXCEPT ![op[t].gen] = "destroying"]
  /\ op' = [op EXCEPT ![t] = Op("reap", op[t].gen, NoSession)]
  /\ UNCHANGED host_mutex

-----------------------------------------------------------------------------
(* RuntimeHost.replace                                                      *)

MayReplace == host_state = "active"

ReplaceBegins(t) ==
  /\ In(t, "none") /\ HostLockFree /\ MayReplace /\ next_generation # Exhausted
  /\ host_state' = "replacing"
  /\ op' = [op EXCEPT ![t] = Op("stage", next_generation, NoSession)]
  /\ UNCHANGED <<host_mutex, active, next_generation, runtimeVars, session>>

(* createWithGeneration fails: everything is as before.                     *)
StagingFails(t) ==
  /\ In(t, "stage") /\ HostLockFree
  /\ host_state' = "active"
  /\ Returns(t)
  /\ UNCHANGED <<host_mutex, active, next_generation, runtimeVars, session>>

Stages(t) ==
  /\ In(t, "stage")
  /\ memory' = [memory EXCEPT ![op[t].gen] = "alive"]
  /\ state' = [state EXCEPT ![op[t].gen] = "active"]
  /\ live_sessions' = [live_sessions EXCEPT ![op[t].gen] = 0]
  /\ session_ids' = [session_ids EXCEPT ![op[t].gen] = {}]
  /\ Goes(t, "publish")
  /\ UNCHANGED <<hostVars, session>>

Publishes(t) ==
  /\ In(t, "publish") /\ HostLockFree
  /\ active' = op[t].gen
  /\ next_generation' = Successor(op[t].gen)
  /\ op' = [op EXCEPT ![t] = Op("retire_previous", active, NoSession)]
  /\ UNCHANGED <<host_mutex, host_state, runtimeVars, session>>

(* Mutant: a retired runtime goes at once.                                  *)
NoneLeft_Ignored(g) == TRUE

NoneLeft(g) == live_sessions[g] = 0

(* AgentRuntime.retire                                                      *)
Retires(t, from, reap, done) ==
  LET g == op[t].gen IN
  /\ In(t, from)
  /\ state' = [state EXCEPT ![g] = IF NoneLeft(g) THEN "destroying" ELSE "draining"]
  /\ Goes(t, IF NoneLeft(g) THEN reap ELSE done)
  /\ UNCHANGED <<hostVars, memory, live_sessions, session_ids, session>>

(* destroyOwned: plugin cleanup, then the memory.                           *)
DestroyOwned(t, from, done) ==
  /\ In(t, from)
  /\ memory' = [memory EXCEPT ![op[t].gen] = "freed"]
  /\ op' = [op EXCEPT ![t] = IF done = "none" THEN Outside ELSE Op(done, @.gen, @.session)]
  /\ DropsHostLock(t)
  /\ UNCHANGED <<host_state, active, next_generation, state, live_sessions, session_ids, session>>

ReplaceReturns(t) ==
  /\ In(t, "replaced") /\ HostLockFree
  /\ host_state' = "active"
  /\ Returns(t)
  /\ UNCHANGED <<host_mutex, active, next_generation, runtimeVars, session>>

-----------------------------------------------------------------------------
(* RuntimeHost.destroy and AgentRuntime.destroy                             *)

HostDestroy(t) ==
  /\ In(t, "none") /\ HostLockFree /\ host_state = "active"
  /\ host_state' = "destroying"
  /\ op' = [op EXCEPT ![t] = Op("retire_last", active, NoSession)]
  /\ UNCHANGED <<host_mutex, active, next_generation, runtimeVars, session>>

HostFrees(t) ==
  /\ In(t, "host_free")
  /\ host_state' = "gone"
  /\ Returns(t)
  /\ UNCHANGED <<host_mutex, active, next_generation, runtimeVars, session>>

StandaloneDestroy(t) ==
  /\ In(t, "none")
  /\ memory[Standalone] = "alive" /\ state[Standalone] = "active"
  /\ NoneLeft(Standalone)
  /\ state' = [state EXCEPT ![Standalone] = "destroying"]
  /\ op' = [op EXCEPT ![t] = Op("reap", Standalone, NoSession)]
  /\ UNCHANGED <<hostVars, memory, live_sessions, session_ids, session>>

-----------------------------------------------------------------------------
Begin(t) ==
  \/ \E s \in Sessions : CreateLocks(t, s) \/ StandaloneCreates(t, s) \/ DestroySession(t, s)
  \/ ReplaceBegins(t) \/ HostDestroy(t) \/ StandaloneDestroy(t)

Continue(t) ==
  \/ CreateRetains(t)
  \/ \E id \in Ids : CreateRegisters(t, id)
  \/ CreateReturns(t) \/ CreateFails(t)
  \/ UnregistersSessionId(t) \/ ReleasesSession(t) \/ ReleasesLast(t)
  \/ StagingFails(t) \/ Stages(t) \/ Publishes(t)
  \/ Retires(t, "retire_previous", "reap_previous", "replaced")
  \/ Retires(t, "retire_last", "reap_last", "host_free")
  \/ DestroyOwned(t, "reap", "none")
  \/ DestroyOwned(t, "reap_previous", "replaced")
  \/ DestroyOwned(t, "reap_last", "host_free")
  \/ ReplaceReturns(t) \/ HostFrees(t)

Finished ==
  /\ host_state = "gone" /\ memory[Standalone] = "freed"
  /\ \A t \in Threads : In(t, "none")
  /\ \A s \in Sessions : session[s].stage = "none"
  /\ UNCHANGED vars

Next == (\E t \in Threads : Begin(t) \/ Continue(t)) \/ Finished

Spec == Init /\ [][Next]_vars

(* A call goes on and a session's owner destroys it in the end.             *)
FairSpec ==
  /\ Spec
  /\ \A t \in Threads : SF_vars(Continue(t))
  /\ \A s \in Sessions : SF_vars(\E t \in Threads : DestroySession(t, s))

-----------------------------------------------------------------------------
Reaping(t) == op[t].name \in {"reap", "reap_previous", "reap_last"}

(* A session, the host or a call never refers to a runtime that is freed,   *)
(* and none of them but the freeing call to one about to be: a session's    *)
(* catalog and plugins outlive it, whatever is replaced meanwhile.          *)
NoDanglingRuntime ==
  /\ \A s \in Sessions : session[s].stage # "none" =>
       memory[session[s].gen] = "alive" /\ state[session[s].gen] # "destroying"
  /\ HostUsable => memory[active] = "alive" /\ state[active] = "active"
  /\ \A t \in Threads : In(t, "choose") \/ Reaping(t) => memory[op[t].gen] = "alive"
  /\ \A t, u \in Threads : Reaping(t) /\ Reaping(u) /\ op[t].gen = op[u].gen => t = u

(* The runtime a host picks for a session has not begun to drain when the   *)
(* session is recorded in it: admission through a host is never refused by  *)
(* a replacement that got in between.                                       *)
ChosenRuntimeAdmits ==
  \A t \in Threads : In(t, "choose") => state[op[t].gen] = "active"

(* Plugin cleanup may call back into the host, so no runtime is ever freed  *)
(* by a thread that holds the host's lock: it would wait for itself.        *)
CleanupOffLock == \A t \in Threads : Reaping(t) => host_mutex # t

(* The asserts of replace, retire, destroyOwned, unregisterSessionId and    *)
(* releaseSession hold whatever the calls in between did.                   *)
AssertionsHold ==
  \A t \in Threads : LET g == op[t].gen IN
    /\ op[t].name \in {"stage", "publish", "replaced"} => host_state = "replacing"
    /\ op[t].name \in {"retire_previous", "retire_last"} => state[g] = "active"
    /\ Reaping(t) => state[g] = "destroying" /\ live_sessions[g] = 0 /\ session_ids[g] = {}
    /\ In(t, "unregister") => session[op[t].session].id \in session_ids[g]
    /\ In(t, "release") => live_sessions[g] > 0

(* The registry never holds one id for two sessions of a runtime: two open  *)
(* sessions with one id would write one transcript and one artifact root.   *)
(* It is per runtime: a session of an older generation may have the id too. *)
IdsUniqueInRuntime ==
  \A r, s \in Sessions :
    session[r].id = session[s].id /\ session[r].id # NoId /\ session[r].gen = session[s].gen
      => r = s

(* The registry of a runtime is the ids of the sessions recorded in it: a   *)
(* creation that failed, at whatever point and beside whatever other calls, *)
(* leaves no id behind that a restored session could never take again, and  *)
(* no id of a session is gone or stands for two (registerSessionId, the     *)
(* errdefers of createWithHooks, unregisterSessionId).                      *)
RegistryTrue ==
  /\ IdsUniqueInRuntime
  /\ \A g \in Generations :
       session_ids[g] = {session[s].id : s \in {r \in Sessions : session[r].gen = g}} \ {NoId}

(* A generation that is no longer the host's is freed, once its sessions    *)
(* are destroyed.                                                           *)
Superseded(g) ==
  g # Standalone /\ memory[g] = "alive" /\ (g < active \/ ~HostUsable)

SupersededIsFreed ==
  \A g \in Generations : Superseded(g) ~> memory[g] = "freed"
=============================================================================
