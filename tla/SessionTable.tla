------------------------------- MODULE SessionTable -----------------------------
(***************************************************************************)
(* The table of open sessions and the lifetime of a session's shell        *)
(* (SessionHost in core/session_host.zig, with the id registry of          *)
(* AgentRuntime): open, acquire, release, close and deinit from any Host   *)
(* thread.  A shell is a HostedSession object; its kernel is the           *)
(* AgentSession inside it, which HostedSession.tla describes from open to  *)
(* close.                                                                  *)
(***************************************************************************)
EXTENDS Naturals, FiniteSets

CONSTANTS Ids,        \* session ids
          Threads,    \* Host threads
          MaxShells   \* shells created in all

ASSUME TableBounds == MaxShells \in Nat
ASSUME ThreadsAssumption == IsFiniteSet(Threads)

Shells == 1 .. MaxShells
None   == 0

VARIABLES
  table,        \* SessionHost.sessions: id -> shell, None when absent
  host_closed,  \* SessionHost.closed
  session_ids,  \* AgentRuntime.session_ids
  shell,        \* shell -> its lifetime fields
  created,      \* shells created so far
  holds,        \* thread -> the shell it holds a counted reference to
  op            \* thread -> the call it is inside, and the shell or id it is about

tableVars == <<table, host_closed, session_ids, shell, created, holds, op>>

Unused  == [mem |-> "none", id |-> "none", references |-> 0,
            retired |-> FALSE, kernel |-> FALSE]
Op(name, id, s) == [name |-> name, id |-> id, shell |-> s]
Outside == Op("none", "none", None)

OpNames == {"none", "create", "publish", "undo", "shutdown", "retire", "free",
            "deinit", "deinit_shutdown", "deinit_retire", "deinit_free", "deinit_done",
            "late_free"}

TableTypeOK ==
  /\ table \in [Ids -> Shells \cup {None}]
  /\ host_closed \in BOOLEAN
  /\ session_ids \subseteq Ids
  /\ shell \in [Shells -> [mem : {"none", "alive", "freed"}, id : Ids \cup {"none"},
                           references : Nat, retired : BOOLEAN, kernel : BOOLEAN]]
  /\ created \in 0 .. MaxShells
  /\ holds \in [Threads -> Shells \cup {None}]
  /\ op \in [Threads -> [name : OpNames, id : Ids \cup {"none"},
                         shell : Shells \cup {None}]]

TableInit ==
  /\ table = [id \in Ids |-> None]
  /\ host_closed = FALSE
  /\ session_ids = {}
  /\ shell = [s \in Shells |-> Unused]
  /\ created = 0
  /\ holds = [t \in Threads |-> None]
  /\ op = [t \in Threads |-> Outside]

(* SessionHost.deinit is the owner's last call on the host.                 *)
DeinitCalled == \E t \in Threads : op[t].name \in {"deinit", "deinit_shutdown",
                                     "deinit_retire", "deinit_free", "deinit_done", "late_free"}
MayCall(t)   == op[t].name = "none" /\ ~DeinitCalled

-----------------------------------------------------------------------------
(* open with an id: the first look at the table, the construction outside   *)
(* the lock with the id registered in the runtime, and the publication.     *)

OpenChecks(t, id) ==
  /\ MayCall(t) /\ holds[t] = None
  /\ ~host_closed /\ table[id] = None
  /\ created < MaxShells
  /\ op' = [op EXCEPT ![t] = Op("create", id, None)]
  /\ UNCHANGED <<table, host_closed, session_ids, shell, created, holds>>

(* A registered id is refused (SessionAlreadyOpen) and the shell, never     *)
(* seen by anyone, goes at once; so does one whose construction fails.      *)
OpenRefused(t) ==
  /\ op[t].name = "create"
  /\ op' = [op EXCEPT ![t] = Outside]
  /\ UNCHANGED <<table, host_closed, session_ids, shell, created, holds>>

(* Mutant: the runtime does not refuse an id in use.                        *)
Registers_Twice(id) == session_ids' = session_ids \cup {id}

(* registerSessionId                                                        *)
Registers(id) == id \notin session_ids /\ session_ids' = session_ids \cup {id}

OpenCreates(t) ==
  /\ op[t].name = "create" /\ Registers(op[t].id)
  /\ created < MaxShells
  /\ created' = created + 1
  /\ shell' = [shell EXCEPT ![created + 1] =
                 [mem |-> "alive", id |-> op[t].id, references |-> 1,
                  retired |-> FALSE, kernel |-> TRUE]]
  /\ op' = [op EXCEPT ![t] = Op("publish", op[t].id, created + 1)]
  /\ UNCHANGED <<table, host_closed, holds>>

MayPublish(id) == ~host_closed /\ table[id] = None

OpenPublishes(t) ==
  /\ op[t].name = "publish" /\ MayPublish(op[t].id)
  /\ table' = [table EXCEPT ![op[t].id] = op[t].shell]
  /\ holds' = [holds EXCEPT ![t] = op[t].shell]
  /\ op' = [op EXCEPT ![t] = Outside]
  /\ UNCHANGED <<host_closed, session_ids, shell, created>>

(* Refused at publication: closed meanwhile, the id taken, or out of memory.*)
OpenWithdraws(t) ==
  /\ op[t].name = "publish"
  /\ shell' = [shell EXCEPT ![op[t].shell].references = 0]
  /\ op' = [op EXCEPT ![t] = Op("undo", @.id, @.shell)]
  /\ UNCHANGED <<table, host_closed, session_ids, created, holds>>

(* stopDriver, then the errdefers: the kernel is destroyed, the shell freed.*)
OpenUndoes(t) ==
  /\ op[t].name = "undo"
  /\ session_ids' = session_ids \ {op[t].id}
  /\ shell' = [shell EXCEPT ![op[t].shell] = [@ EXCEPT !.kernel = FALSE, !.mem = "freed"]]
  /\ op' = [op EXCEPT ![t] = Outside]
  /\ UNCHANGED <<table, host_closed, created, holds>>

-----------------------------------------------------------------------------
(* acquire, release                                                         *)

Acquire(t, id) ==
  /\ MayCall(t) /\ holds[t] = None
  /\ table[id] # None
  /\ shell' = [shell EXCEPT ![table[id]].references = @ + 1]
  /\ holds' = [holds EXCEPT ![t] = table[id]]
  /\ UNCHANGED <<table, host_closed, session_ids, created, op>>

(* Mutant: nobody frees the shell a holder gave back after close.           *)
FreedByRelease_Never(s) == FALSE

FreedByRelease(s) == shell[s].references = 1 /\ shell[s].retired

(* Valid after deinit, even on the thread that made it.  The last reference *)
(* of a retired shell frees it, once the lock is dropped.                   *)
Release(t) ==
  /\ op[t].name \in {"none", "deinit_done"} /\ holds[t] # None
  /\ shell' = [shell EXCEPT ![holds[t]].references = @ - 1]
  /\ op' = IF FreedByRelease(holds[t])
           THEN [op EXCEPT ![t] =
                   Op(IF @.name = "none" THEN "free" ELSE "late_free", "none", holds[t])]
           ELSE op
  /\ holds' = [holds EXCEPT ![t] = None]
  /\ UNCHANGED <<table, host_closed, session_ids, created>>

-----------------------------------------------------------------------------
(* close and deinit: take the session out of the table, shut it down (the   *)
(* kernel is gone and its id free), retire the shell.                       *)

TableClose(t, id) ==
  /\ MayCall(t)
  /\ table[id] # None
  /\ table' = [table EXCEPT ![id] = None]
  /\ op' = [op EXCEPT ![t] = Op("shutdown", id, table[id])]
  /\ UNCHANGED <<host_closed, session_ids, shell, created, holds>>

Shutdown(t, from, to) ==
  /\ op[t].name = from
  /\ session_ids' = session_ids \ {shell[op[t].shell].id}
  /\ shell' = [shell EXCEPT ![op[t].shell].kernel = FALSE]
  /\ op' = [op EXCEPT ![t] = Op(to, @.id, @.shell)]
  /\ UNCHANGED <<table, host_closed, created, holds>>

(* Mutant: retire gives back a reference it does not have.                  *)
Retired_TakesReference(shl) == [shl EXCEPT !.retired = TRUE, !.references = @ - 1]

Retired(shl) == [shl EXCEPT !.retired = TRUE]

(* Mutant: retire frees the shell whoever holds it.                         *)
FreedByRetire_Always(s) == TRUE

FreedByRetire(s) == shell[s].references = 0

Retire(t, from, free, done) ==
  /\ op[t].name = from
  /\ shell' = [shell EXCEPT ![op[t].shell] = Retired(@)]
  /\ op' = [op EXCEPT ![t] = IF FreedByRetire(@.shell)
                             THEN Op(free, "none", @.shell)
                             ELSE Op(done, "none", None)]
  /\ UNCHANGED <<table, host_closed, session_ids, created, holds>>

DestroyShell(t, from, done) ==
  /\ op[t].name = from
  /\ shell' = [shell EXCEPT ![op[t].shell].mem = "freed"]
  /\ op' = [op EXCEPT ![t] = Op(done, "none", None)]
  /\ UNCHANGED <<table, host_closed, session_ids, created, holds>>

Deinit(t) ==
  /\ MayCall(t)
  /\ host_closed' = TRUE
  /\ op' = [op EXCEPT ![t] = Op("deinit", "none", None)]
  /\ UNCHANGED <<table, session_ids, shell, created, holds>>

DeinitTakes(t, id) ==
  /\ op[t].name = "deinit" /\ table[id] # None
  /\ table' = [table EXCEPT ![id] = None]
  /\ op' = [op EXCEPT ![t] = Op("deinit_shutdown", id, table[id])]
  /\ UNCHANGED <<host_closed, session_ids, shell, created, holds>>

DeinitReturns(t) ==
  /\ op[t].name = "deinit" /\ \A id \in Ids : table[id] = None
  /\ op' = [op EXCEPT ![t] = Op("deinit_done", "none", None)]
  /\ UNCHANGED <<table, host_closed, session_ids, shell, created, holds>>

-----------------------------------------------------------------------------
(* The steps of a call already begun.                                       *)
Continue(t) ==
  \/ OpenRefused(t) \/ OpenCreates(t) \/ OpenPublishes(t) \/ OpenWithdraws(t)
  \/ OpenUndoes(t)
  \/ Shutdown(t, "shutdown", "retire")
  \/ Retire(t, "retire", "free", "none")
  \/ DestroyShell(t, "free", "none")
  \/ \E id \in Ids : DeinitTakes(t, id)
  \/ Shutdown(t, "deinit_shutdown", "deinit_retire")
  \/ Retire(t, "deinit_retire", "deinit_free", "deinit")
  \/ DestroyShell(t, "deinit_free", "deinit")
  \/ DestroyShell(t, "late_free", "deinit_done")
  \/ DeinitReturns(t)

Begin(t) ==
  \/ \E id \in Ids : OpenChecks(t, id) \/ Acquire(t, id) \/ TableClose(t, id)
  \/ Deinit(t)

Finished == (\E t \in Threads : op[t].name = "deinit_done") /\ UNCHANGED tableVars

TableNext == (\E t \in Threads : Begin(t) \/ Continue(t) \/ Release(t)) \/ Finished

TableSpec == TableInit /\ [][TableNext]_tableVars

(* A call that was begun goes on, and a holder gives its reference back.    *)
FairTableSpec == TableSpec /\ \A t \in Threads : WF_tableVars(Continue(t)) /\ WF_tableVars(Release(t))

-----------------------------------------------------------------------------
(* Whoever can reach a shell - the table, a reference, a call in progress - *)
(* finds it alive: no use after free and no second free.                    *)
ReachableShellsAlive ==
  /\ \A id \in Ids : table[id] # None => shell[table[id]].mem = "alive"
  /\ \A t \in Threads :
       /\ holds[t] # None => shell[holds[t]].mem = "alive"
       /\ op[t].shell # None => shell[op[t].shell].mem = "alive"

(* A session in the table has its kernel, under its own id, and the id is   *)
(* registered once; two kernels never share an id (two writers of one       *)
(* transcript).  No id is ever stuck: a kernel that is not in the table is  *)
(* one a thread is still opening or closing.  Once deinit returned the      *)
(* table is empty for good: an open that was under way withdraws.           *)
TableMatchesKernel ==
  /\ \A id \in Ids : table[id] # None =>
       shell[table[id]].kernel /\ shell[table[id]].id = id
  /\ \A s, u \in Shells :
       shell[s].kernel /\ shell[u].kernel /\ shell[s].id = shell[u].id => s = u
  /\ session_ids = {shell[s].id : s \in {u \in Shells : shell[u].kernel}}
  /\ \A s \in Shells : shell[s].kernel =>
       \/ \E id \in Ids : table[id] = s
       \/ \E t \in Threads : op[t].shell = s
  /\ (\E t \in Threads : op[t].name = "deinit_done") => \A id \in Ids : table[id] = None

(* A closed session that nobody holds any more is freed.                    *)
ClosedShellIsFreed ==
  \A s \in Shells : shell[s].retired ~> shell[s].mem = "freed"
=============================================================================
