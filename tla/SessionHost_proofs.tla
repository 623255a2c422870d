-------------------------- MODULE SessionHost_proofs --------------------------
(***************************************************************************)
(* Theorems about the two layers of core/session_host.zig.  The table of   *)
(* sessions, for any ids, any finite set of threads and any number of      *)
(* shells: whoever can reach a shell finds it alive, and the table, the    *)
(* kernels and the registered ids agree.  One session, for any tool        *)
(* threads, any finite set of interrupting threads, any bounds and any     *)
(* faults: the kernel never refuses the service, an answer reaches the     *)
(* request it was given for and never a stopped Run, and the session is a  *)
(* work queue.                                                             *)
(***************************************************************************)
EXTENDS HostedSession, SessionTable, SequenceTheorems, FiniteSetTheorems, TLAPS

-----------------------------------------------------------------------------
(* The table of sessions                                                     *)

\* The points of a call at which the shell it is about has its kernel, and
\* those at which it is the caller's to free.
WithKernel == {"publish", "undo", "shutdown", "deinit_shutdown"}
Retiring   == {"retire", "deinit_retire"}
Freeing    == {"free", "deinit_free", "late_free"}
Deiniting  == {"deinit", "deinit_shutdown", "deinit_retire", "deinit_free",
               "deinit_done", "late_free"}

Holders(s) == {t \in Threads : holds[t] = s}

\* A shell that open has constructed and not yet published counts the
\* reference its opener will hold.
Unpublished(s) == \E t \in Threads : op[t].name = "publish" /\ op[t].shell = s

\* Shells are used in the order of their numbers.
ShellsOK ==
  \A s \in Shells :
    IF s <= created THEN shell[s].mem # "none" /\ shell[s].id \in Ids
                    ELSE shell[s] = Unused

\* What a call in progress knows of the shell it is about, and that no other
\* call is about the same one.
OpOK(t) ==
  /\ op[t].name \in WithKernel \cup Retiring \cup Freeing <=> op[t].shell # None
  /\ op[t].name \in {"create"} \cup WithKernel => op[t].id \in Ids
  /\ op[t].name \in {"create", "publish"} => holds[t] = None
  /\ op[t].shell # None =>
       /\ shell[op[t].shell].mem = "alive"
       /\ shell[op[t].shell].kernel <=> op[t].name \in WithKernel
       /\ shell[op[t].shell].retired <=> op[t].name \in Freeing
  /\ op[t].name \in WithKernel => shell[op[t].shell].id = op[t].id
  /\ op[t].name = "publish" => shell[op[t].shell].references = 1
  /\ op[t].name \in {"undo"} \cup Freeing => shell[op[t].shell].references = 0

Exclusive ==
  \A t, u \in Threads : op[t].shell # None /\ op[t].shell = op[u].shell => t = u

\* A session in the table is open, under its own id, and no call is inside it.
EntryOK(id) ==
  table[id] # None =>
    /\ shell[table[id]].mem = "alive" /\ shell[table[id]].kernel
    /\ ~shell[table[id]].retired /\ shell[table[id]].id = id
    /\ \A t \in Threads : op[t].shell # table[id]

\* The counter counts the holders, and a freed shell has none.
CountOK(s) ==
  /\ shell[s].references = Cardinality(Holders(s)) + (IF Unpublished(s) THEN 1 ELSE 0)
  /\ shell[s].mem # "alive" => shell[s].references = 0

\* In the table, or in the hands of a call.
Owned(s) == (\E id \in Ids : table[id] = s) \/ (\E t \in Threads : op[t].shell = s)

KernelsOK ==
  /\ \A s, u \in Shells :
       shell[s].kernel /\ shell[u].kernel /\ shell[s].id = shell[u].id => s = u
  /\ session_ids = {shell[s].id : s \in {u \in Shells : shell[u].kernel}}
  /\ \A s \in Shells : shell[s].kernel => Owned(s)

\* deinit is called once, and what it left empty stays empty.
DeinitOK ==
  /\ host_closed <=> DeinitCalled
  /\ \A t, u \in Threads : op[t].name \in Deiniting /\ op[u].name \in Deiniting => t = u
  /\ (\E t \in Threads : op[t].name \in {"deinit_done", "late_free"}) =>
       \A id \in Ids : table[id] = None

TableInv ==
  /\ TableTypeOK /\ ShellsOK
  /\ \A t \in Threads : OpOK(t)
  /\ Exclusive
  /\ \A id \in Ids : EntryOK(id)
  /\ \A s \in Shells : CountOK(s)
  /\ KernelsOK
  /\ DeinitOK

-----------------------------------------------------------------------------
(* Facts                                                                     *)

USE TableBounds, ThreadsAssumption DEF Shells, None

ShellRec == [mem : {"none", "alive", "freed"}, id : Ids \cup {"none"},
             references : Nat, retired : BOOLEAN, kernel : BOOLEAN]
OpRec    == [name : OpNames, id : Ids \cup {"none"}, shell : Shells \cup {None}]

TableTypes ==
  /\ table \in [Ids -> Shells \cup {None}] /\ host_closed \in BOOLEAN
  /\ session_ids \subseteq Ids /\ created \in 0 .. MaxShells
  /\ holds \in [Threads -> Shells \cup {None}]
  /\ shell \in [Shells -> ShellRec] /\ op \in [Threads -> OpRec]

LEMMA TableTyping == (TableTypeOK <=> TableTypes) /\ (TableTypeOK <=> TableTypes)'
  BY DEF TableTypeOK, TableTypes, ShellRec, OpRec

\* What the steps write into a shell.
LEMMA ShellWrites ==
  ASSUME NEW r \in ShellRec
  PROVE  /\ [r EXCEPT !.kernel = FALSE] \in ShellRec
         /\ [r EXCEPT !.mem = "freed"] \in ShellRec
         /\ [r EXCEPT !.kernel = FALSE, !.mem = "freed"] \in ShellRec
         /\ [r EXCEPT !.retired = TRUE] \in ShellRec
         /\ \A n \in Nat : [r EXCEPT !.references = n] \in ShellRec
  BY DEF ShellRec

\* What they write about a call.
LEMMA OpWrites ==
  ASSUME NEW name \in OpNames, NEW id \in Ids \cup {"none"}, NEW s \in Shells \cup {None}
  PROVE  Op(name, id, s) \in OpRec
  BY DEF Op, OpRec

LEMMA HoldersFinite ==
  ASSUME NEW s
  PROVE  IsFiniteSet(Holders(s)) /\ Cardinality(Holders(s)) \in Nat
  <1>1. Holders(s) \subseteq Threads
    BY DEF Holders
  <1> QED  BY <1>1, FS_Subset, FS_CardinalityType

\* A reference taken is one holder more, of that shell only.
LEMMA HoldersTake ==
  ASSUME TableTypeOK, NEW t \in Threads, holds[t] = None, NEW s \in Shells,
         holds' = [holds EXCEPT ![t] = s]
  PROVE  /\ Cardinality(Holders(s)') = Cardinality(Holders(s)) + 1
         /\ \A u \in Shells \ {s} : Holders(u)' = Holders(u)
  <1>1. Holders(s)' = Holders(s) \cup {t} /\ t \notin Holders(s)
    BY DEF Holders, TableTypeOK
  <1>2. ASSUME NEW u \in Shells \ {s} PROVE Holders(u)' = Holders(u)
    <2>1. u # None
      OBVIOUS
    <2> QED  BY <2>1 DEF Holders, TableTypeOK
  <1> QED  BY <1>1, <1>2, HoldersFinite, FS_AddElement

\* A reference given back is one holder less, of that shell only.
LEMMA HoldersGive ==
  ASSUME TableTypeOK, NEW t \in Threads, NEW s \in Shells, holds[t] = s,
         holds' = [holds EXCEPT ![t] = None]
  PROVE  /\ Cardinality(Holders(s)) >= 1
         /\ Cardinality(Holders(s)') = Cardinality(Holders(s)) - 1
         /\ \A u \in Shells \ {s} : Holders(u)' = Holders(u)
  <1>1. Holders(s)' = Holders(s) \ {t} /\ t \in Holders(s)
    BY DEF Holders, TableTypeOK
  <1>2. ASSUME NEW u \in Shells \ {s} PROVE Holders(u)' = Holders(u)
    <2>1. u # None
      OBVIOUS
    <2> QED  BY <2>1 DEF Holders, TableTypeOK
  <1>3. Cardinality(Holders(s) \ {t}) = Cardinality(Holders(s)) - 1
    BY <1>1, HoldersFinite, FS_RemoveElement
  <1>4. Cardinality(Holders(s) \ {t}) \in Nat
    BY <1>1, HoldersFinite, FS_Subset, FS_CardinalityType
  <1>5. /\ Cardinality(Holders(s)) >= 1
        /\ Cardinality(Holders(s)') = Cardinality(Holders(s)) - 1
    BY <1>1, <1>3, <1>4, HoldersFinite
  <1> QED  BY <1>2, <1>5

\* Whoever holds a shell holds one that is alive.
LEMMA HeldAlive ==
  ASSUME TableInv, NEW t \in Threads, holds[t] # None
  PROVE  shell[holds[t]].mem = "alive" /\ shell[holds[t]].references >= 1
  <1>1. t \in Holders(holds[t]) /\ holds[t] \in Shells
    BY DEF Holders, TableInv, TableTypeOK
  <1>2. Cardinality(Holders(holds[t])) # 0
    BY <1>1, HoldersFinite, FS_EmptySet
  <1>3. CountOK(holds[t])
    BY <1>1 DEF TableInv
  <1> DEFINE n == Cardinality(Holders(holds[t]))
             k == IF Unpublished(holds[t]) THEN 1 ELSE 0
  <1>4. n \in Nat /\ k \in Nat /\ n # 0
    BY <1>2, HoldersFinite
  <1>5. shell[holds[t]].references = n + k
    BY <1>3 DEF CountOK
  <1> HIDE DEF n, k
  <1>6. shell[holds[t]].references >= 1
    BY <1>4, <1>5
  <1> QED  BY <1>3, <1>6 DEF CountOK

-----------------------------------------------------------------------------
(* One lemma per action                                                      *)

LEMMA InitTable == TableInit => TableInv
  <1> SUFFICES ASSUME TableInit PROVE TableInv
    OBVIOUS
  <1>1. TableTypeOK
    <2>1. Unused \in ShellRec
      BY DEF Unused, ShellRec
    <2>2. Outside \in OpRec
      BY OpWrites DEF Outside, OpNames
    <2>3. shell \in [Shells -> ShellRec] /\ op \in [Threads -> OpRec]
      BY <2>1, <2>2 DEF TableInit
    <2>4. table \in [Ids -> Shells \cup {None}] /\ holds \in [Threads -> Shells \cup {None}]
      BY DEF TableInit
    <2>5. session_ids \subseteq Ids /\ created \in 0 .. MaxShells
      BY DEF TableInit
    <2>6. host_closed \in BOOLEAN
      BY DEF TableInit
    <2> QED  BY <2>3, <2>4, <2>5, <2>6, TableTyping DEF TableTypes
  <1>2. ShellsOK
    BY DEF TableInit, ShellsOK
  <1>3. (\A t \in Threads : OpOK(t)) /\ Exclusive
    BY DEF TableInit, OpOK, Exclusive, Outside, Op, WithKernel, Retiring, Freeing
  <1>4. \A id \in Ids : EntryOK(id)
    BY DEF TableInit, EntryOK
  <1>5. ASSUME NEW s \in Shells PROVE CountOK(s)
    <2>1. Holders(s) = {} /\ ~Unpublished(s)
      BY DEF TableInit, Holders, Unpublished, Outside, Op
    <2> QED  BY <2>1, FS_EmptySet DEF TableInit, CountOK, Unused
  <1>6. KernelsOK
    BY DEF TableInit, KernelsOK, Unused
  <1>7. DeinitOK
    BY DEF TableInit, DeinitOK, DeinitCalled, Deiniting, Outside, Op
  <1> QED  BY <1>1, <1>2, <1>3, <1>4, <1>5, <1>6, <1>7 DEF TableInv

\* A step that leaves every kernel where it is.
LEMMA KernelsSame ==
  ASSUME KernelsOK, session_ids' = session_ids,
         \A u \in Shells : shell'[u].kernel = shell[u].kernel /\ shell'[u].id = shell[u].id,
         \A u \in Shells : Owned(u) => Owned(u)'
  PROVE  KernelsOK'
  <1>1. {shell'[s].id : s \in {u \in Shells : shell'[u].kernel}}
          = {shell[s].id : s \in {u \in Shells : shell[u].kernel}}
    OBVIOUS
  <1> QED  BY <1>1 DEF KernelsOK

\* A step that destroys one kernel and unregisters its id.
LEMMA KernelGone ==
  ASSUME KernelsOK, NEW s \in Shells, shell[s].kernel, ~shell'[s].kernel,
         session_ids' = session_ids \ {shell[s].id},
         \A u \in Shells \ {s} : shell'[u].kernel = shell[u].kernel /\ shell'[u].id = shell[u].id,
         \A u \in Shells \ {s} : Owned(u) => Owned(u)'
  PROVE  KernelsOK'
  <1>1. \A u \in Shells : shell'[u].kernel <=> shell[u].kernel /\ u # s
    OBVIOUS
  <1>2. \A u \in Shells : shell[u].kernel /\ shell[u].id = shell[s].id => u = s
    BY DEF KernelsOK
  <1>3. {shell'[u].id : u \in {v \in Shells : shell'[v].kernel}}
          = {shell[u].id : u \in {v \in Shells : shell[v].kernel}} \ {shell[s].id}
    <2>1. \A u \in Shells : shell'[u].kernel =>
            shell'[u].id = shell[u].id /\ shell[u].id # shell[s].id
      BY <1>1, <1>2
    <2>2. \A u \in Shells : shell[u].kernel /\ shell[u].id # shell[s].id
                              => shell'[u].kernel /\ shell'[u].id = shell[u].id
      BY <1>1
    <2> QED  BY <1>1, <2>1, <2>2
  <1>4. \A u, v \in Shells :
          shell'[u].kernel /\ shell'[v].kernel /\ shell'[u].id = shell'[v].id => u = v
    BY <1>1 DEF KernelsOK
  <1>5. \A u \in Shells : shell'[u].kernel => Owned(u)'
    BY <1>1 DEF KernelsOK
  <1> QED  BY <1>3, <1>4, <1>5 DEF KernelsOK

\* A step that is no call of deinit, and puts nothing into the table.
LEMMA DeinitKept ==
  ASSUME TableTypeOK, DeinitOK, NEW t \in Threads, NEW o \in OpRec, op' = [op EXCEPT ![t] = o],
         host_closed' = host_closed,
         o.name \in Deiniting <=> op[t].name \in Deiniting,
         \A id \in Ids : table'[id] \in {table[id], None},
         o.name \in {"deinit_done", "late_free"} => \A id \in Ids : table[id] = None
  PROVE  DeinitOK'
  <1>1. \A u \in Threads : op'[u].name \in Deiniting <=> op[u].name \in Deiniting
    BY TableTyping DEF TableTypes
  <1>2. DeinitCalled' <=> DeinitCalled
    BY <1>1 DEF DeinitCalled, Deiniting
  <1>3. (\E u \in Threads : op'[u].name \in {"deinit_done", "late_free"}) =>
          \A id \in Ids : table'[id] = None
    BY TableTyping DEF TableTypes, DeinitOK
  <1> QED  BY <1>1, <1>2, <1>3 DEF DeinitOK

LEMMA CountKept ==
  ASSUME NEW s \in Shells, CountOK(s), Holders(s)' = Holders(s),
         Unpublished(s)' <=> Unpublished(s),
         shell'[s].references = shell[s].references,
         shell'[s].mem # "alive" => shell[s].references = 0
  PROVE  CountOK(s)'
  BY DEF CountOK

\* What every step of a call on shell s leaves in order: the other shells, the
\* other calls and the other entries.  What is left to see are the call, the
\* shell and its entry.
LEMMA ShellStep ==
  ASSUME TableInv, NEW t \in Threads, NEW s \in Shells, NEW r \in ShellRec, NEW o \in OpRec,
         shell' = [shell EXCEPT ![s] = r], op' = [op EXCEPT ![t] = o], created' = created,
         table' \in [Ids -> Shells \cup {None}], session_ids' \subseteq Ids,
         host_closed' \in BOOLEAN, holds' \in [Threads -> Shells \cup {None}],
         shell[s].mem # "none", r.mem # "none", r.id = shell[s].id,
         op[t].shell \in {s, None}, o.shell \in {s, None}, o.name # "publish",
         \A u \in Threads \ {t} : op[u].shell = s => o.shell = None /\ OpOK(u)',
         \A id \in Ids : table'[id] \in {table[id], s, None},
         \A id \in Ids : table'[id] = s => EntryOK(id)',
         \A u \in Shells \ {s} : Holders(u)' = Holders(u),
         \A u \in Threads \ {t} : holds'[u] = holds[u],
         OpOK(t)', CountOK(s)', KernelsOK', DeinitOK'
  PROVE  TableInv'
  <1>0. TableTypes
    BY TableTyping DEF TableInv
  <1>1. TableTypeOK'
    BY <1>0, TableTyping DEF TableTypes
  <1>2. ShellsOK'
    <2>1. s <= created /\ shell[s].id \in Ids
      BY <1>0 DEF TableInv, ShellsOK, Unused, TableTypes
    <2> QED  BY <1>0, <2>1 DEF TableInv, ShellsOK, TableTypes
  <1>3. ASSUME NEW u \in Threads PROVE OpOK(u)'
    <2>1. CASE u = t
      BY <2>1
    <2>2. CASE u # t /\ op[u].shell = s
      BY <2>2
    <2>3. CASE u # t /\ op[u].shell # s
      <3>1. op'[u] = op[u] /\ (op[u].shell # None => shell'[op[u].shell] = shell[op[u].shell])
        BY <1>0, <2>3 DEF TableTypes
      <3> QED  BY <2>3, <3>1 DEF TableInv, OpOK, Freeing, WithKernel, Retiring
    <2> QED  BY <2>1, <2>2, <2>3
  <1>4. Exclusive'
    BY <1>0 DEF TableInv, Exclusive, TableTypes
  <1>5. ASSUME NEW id \in Ids PROVE EntryOK(id)'
    <2>1. CASE table'[id] = s
      BY <2>1
    <2>2. CASE table'[id] = None
      BY <2>2 DEF EntryOK
    <2>3. CASE table'[id] = table[id] /\ table[id] \notin {s, None}
      <3>1. shell'[table[id]] = shell[table[id]]
        BY <1>0, <2>3 DEF TableTypes
      <3>2. \A u \in Threads : op'[u].shell # table[id]
        BY <1>0, <2>3 DEF TableTypes, TableInv, EntryOK
      <3> QED  BY <2>3, <3>1, <3>2 DEF TableInv, EntryOK
    <2> QED  BY <2>1, <2>2, <2>3
  <1>6. ASSUME NEW u \in Shells PROVE CountOK(u)'
    <2>1. CASE u = s
      BY <2>1
    <2>2. CASE u # s
      <3>1. shell'[u] = shell[u] /\ Holders(u)' = Holders(u)
        BY <1>0, <2>2 DEF TableTypes
      <3>2. u # None
        OBVIOUS
      <3>3. Unpublished(u)' <=> Unpublished(u)
        BY <1>0, <2>2, <3>2 DEF Unpublished, TableTypes
      <3> QED  BY <3>1, <3>3, CountKept DEF TableInv, CountOK
    <2> QED  BY <2>1, <2>2
  <1> QED  BY <1>1, <1>2, <1>3, <1>4, <1>5, <1>6 DEF TableInv

-----------------------------------------------------------------------------
(* One lemma per action                                                      *)

\* A call that is about no shell before and after.
LEMMA QuietStep ==
  ASSUME TableInv, NEW t \in Threads, NEW o \in OpRec, op' = [op EXCEPT ![t] = o],
         op[t].shell = None, o.shell = None, o.name \notin WithKernel \cup Retiring \cup Freeing,
         o.name = "create" => o.id \in Ids /\ holds[t] = None,
         host_closed' \in BOOLEAN, UNCHANGED <<table, session_ids, shell, created, holds>>,
         DeinitOK'
  PROVE  TableInv'
  <1>0. TableTypes
    BY TableTyping DEF TableInv
  <1>1. TableTypeOK' /\ ShellsOK'
    BY <1>0, TableTyping DEF TableTypes, TableInv, ShellsOK
  <1>2. \A u \in Threads : op'[u].shell = op[u].shell
    BY <1>0 DEF TableTypes
  <1>3. ASSUME NEW u \in Threads PROVE OpOK(u)'
    BY <1>0 DEF TableTypes, TableInv, OpOK, WithKernel, Retiring, Freeing
  <1>4. Exclusive' /\ \A id \in Ids : EntryOK(id)'
    BY <1>0, <1>2 DEF TableInv, Exclusive, EntryOK
  <1>5. ASSUME NEW u \in Shells PROVE CountOK(u)'
    <2>1. Holders(u)' = Holders(u)
      BY DEF Holders
    <2>2. u # None
      OBVIOUS
    <2>3. Unpublished(u)' <=> Unpublished(u)
      BY <1>0, <2>2 DEF Unpublished, TableTypes
    <2> QED  BY <2>1, <2>3, CountKept DEF TableInv, CountOK
  <1>6. KernelsOK'
    <2>1. \A u \in Shells : Owned(u) => Owned(u)'
      BY <1>2 DEF Owned
    <2> QED  BY <2>1, KernelsSame DEF TableInv
  <1> QED  BY <1>1, <1>3, <1>4, <1>5, <1>6 DEF TableInv

LEMMA OpenChecksInv ==
  ASSUME TableInv, NEW t \in Threads, NEW id \in Ids, OpenChecks(t, id)
  PROVE  TableInv'
  <1>1. Op("create", id, None) \in OpRec
    BY OpWrites DEF OpNames
  <1>2. op[t].shell = None /\ op[t].name = "none"
    BY DEF OpenChecks, MayCall, TableInv, OpOK, WithKernel, Retiring, Freeing
  <1>3. DeinitOK'
    BY <1>1, <1>2, DeinitKept DEF OpenChecks, TableInv, Op, Deiniting
  <1> QED  BY <1>1, <1>2, <1>3, QuietStep, TableTyping
           DEF OpenChecks, TableInv, TableTypes, Op, WithKernel, Retiring, Freeing

LEMMA OpenRefusedInv ==
  ASSUME TableInv, NEW t \in Threads, OpenRefused(t)
  PROVE  TableInv'
  <1>1. Outside \in OpRec
    BY OpWrites DEF OpNames, Outside
  <1>2. op[t].shell = None
    BY DEF OpenRefused, TableInv, OpOK, WithKernel, Retiring, Freeing
  <1>3. DeinitOK'
    BY <1>1, <1>2, DeinitKept DEF OpenRefused, TableInv, Op, Deiniting, Outside
  <1> QED  BY <1>1, <1>2, <1>3, QuietStep, TableTyping
           DEF OpenRefused, TableInv, TableTypes, Op, Outside, WithKernel, Retiring, Freeing

LEMMA DeinitInv ==
  ASSUME TableInv, NEW t \in Threads, Deinit(t)
  PROVE  TableInv'
  <1>1. Op("deinit", "none", None) \in OpRec
    BY OpWrites DEF OpNames
  <1>2. op[t].shell = None
    BY DEF Deinit, MayCall, TableInv, OpOK, WithKernel, Retiring, Freeing
  <1>3. DeinitOK'
    <2>1. \A u \in Threads : op'[u].name \in Deiniting <=> u = t
      BY TableTyping DEF Deinit, MayCall, DeinitCalled, TableInv, TableTypes, Op, Deiniting
    <2>2. op'[t].name = "deinit"
      BY TableTyping DEF Deinit, TableInv, TableTypes, Op
    <2> QED  BY <2>1, <2>2 DEF Deinit, DeinitOK, DeinitCalled, Deiniting
  <1> QED  BY <1>1, <1>2, <1>3, QuietStep DEF Deinit, Op, WithKernel, Retiring, Freeing

LEMMA DeinitReturnsInv ==
  ASSUME TableInv, NEW t \in Threads, DeinitReturns(t)
  PROVE  TableInv'
  <1>1. Op("deinit_done", "none", None) \in OpRec
    BY OpWrites DEF OpNames
  <1>2. op[t].shell = None
    BY DEF DeinitReturns, TableInv, OpOK, WithKernel, Retiring, Freeing
  <1>3. DeinitOK'
    BY <1>1, DeinitKept DEF DeinitReturns, TableInv, Op, Deiniting
  <1> QED  BY <1>1, <1>2, <1>3, QuietStep, TableTyping
           DEF DeinitReturns, TableInv, TableTypes, Op, WithKernel, Retiring, Freeing

LEMMA OpenCreatesInv ==
  ASSUME TableInv, NEW t \in Threads, OpenCreates(t)
  PROVE  TableInv'
  <1> DEFINE r == [mem |-> "alive", id |-> op[t].id, references |-> 1,
                   retired |-> FALSE, kernel |-> TRUE]
             o == Op("publish", op[t].id, created + 1)
  <1>0. TableTypes
    BY TableTyping DEF TableInv
  <1>1. PICK s \in Shells : s = created + 1
    BY <1>0 DEF OpenCreates, TableTypes
  <1>2. PICK id \in Ids : id = op[t].id
    BY DEF OpenCreates, TableInv, OpOK
  <1>3. /\ shell' = [shell EXCEPT ![s] = r] /\ r \in ShellRec
        /\ op' = [op EXCEPT ![t] = o] /\ o \in OpRec
        /\ created' = s /\ shell[s] = Unused
        /\ op[t].name = "create" /\ op[t].shell = None
        /\ id \notin session_ids /\ session_ids' = session_ids \cup {id}
    <2>1. r \in ShellRec
      BY <1>2 DEF ShellRec
    <2>2. o \in OpRec
      BY <1>1, <1>2, OpWrites DEF OpNames
    <2>3. shell[s] = Unused
      BY <1>0, <1>1 DEF TableInv, ShellsOK, TableTypes
    <2> QED  BY <1>1, <1>2, <2>1, <2>2, <2>3
             DEF OpenCreates, Registers, TableInv, OpOK, WithKernel, Retiring, Freeing
  <1>4. /\ r.mem = "alive" /\ r.id = id /\ r.references = 1 /\ r.retired = FALSE
        /\ r.kernel = TRUE
        /\ o.name = "publish" /\ o.id = id /\ o.shell = s
    BY <1>1, <1>2 DEF Op
  <1> HIDE DEF r, o
  <1>5. /\ shell'[s] = r /\ \A u \in Shells \ {s} : shell'[u] = shell[u]
        /\ op'[t] = o /\ \A u \in Threads \ {t} : op'[u] = op[u]
    BY <1>0, <1>3 DEF TableTypes
  <1>6. /\ \A u \in Threads : op[u].shell # s
        /\ \A i \in Ids : table[i] # s
    BY <1>3 DEF TableInv, OpOK, EntryOK, Unused
  <1>7. TableTypeOK'
    BY <1>0, <1>1, <1>3, TableTyping DEF TableTypes, OpenCreates
  <1>8. ShellsOK'
    BY <1>0, <1>1, <1>3, <1>4, <1>5 DEF TableInv, ShellsOK, TableTypes
  <1>9. ASSUME NEW u \in Threads PROVE OpOK(u)'
    <2>1. CASE u = t
      BY <1>3, <1>4, <1>5, <2>1 DEF TableInv, OpOK, OpenCreates, WithKernel, Retiring, Freeing
    <2>2. CASE u # t
      <3>1. op'[u] = op[u] /\ (op[u].shell # None => shell'[op[u].shell] = shell[op[u].shell])
        BY <1>0, <1>3, <1>5, <1>6, <2>2 DEF TableTypes
      <3>2. holds' = holds
        BY DEF OpenCreates
      <3> QED  BY ONLY TableInv, u \in Threads, <3>1, <3>2
               DEF TableInv, OpOK, Freeing, WithKernel, Retiring
    <2> QED  BY <2>1, <2>2
  <1>10. Exclusive'
    BY <1>4, <1>5, <1>6 DEF TableInv, Exclusive
  <1>11. ASSUME NEW i \in Ids PROVE EntryOK(i)'
    <2>1. table' = table
      BY DEF OpenCreates
    <2>2. table[i] # None => shell'[table[i]] = shell[table[i]]
      BY <1>0, <1>3, <1>6 DEF TableTypes
    <2>3. table[i] # None => \A u \in Threads : op'[u].shell # table[i]
      BY <1>4, <1>5, <1>6 DEF TableInv, EntryOK
    <2> QED  BY <2>1, <2>2, <2>3 DEF TableInv, EntryOK
  <1>12. ASSUME NEW u \in Shells PROVE CountOK(u)'
    <2>1. Holders(u)' = Holders(u) /\ u # None
      BY DEF Holders, OpenCreates
    <2>2. CASE u # s
      <3>1. Unpublished(u)' <=> Unpublished(u)
        BY <1>3, <1>4, <1>5, <2>1, <2>2 DEF Unpublished
      <3> QED  BY <1>5, <2>1, <2>2, <3>1, CountKept DEF TableInv, CountOK
    <2>3. CASE u = s
      <3>1. Unpublished(s)' /\ ~Unpublished(s)
        BY <1>4, <1>5, <1>6 DEF Unpublished
      <3>2. Cardinality(Holders(s)) = 0
        BY <1>3, <3>1, HoldersFinite DEF TableInv, CountOK, Unused
      <3> QED  BY <1>4, <1>5, <2>1, <2>3, <3>1, <3>2 DEF CountOK
    <2> QED  BY <2>2, <2>3
  <1>13. KernelsOK'
    <2>1. /\ \A u \in Shells : shell'[u].kernel <=> shell[u].kernel \/ u = s
          /\ \A u \in Shells : u # s => shell'[u].id = shell[u].id
          /\ shell'[s].id = id /\ ~shell[s].kernel
      BY <1>3, <1>4, <1>5 DEF Unused
    <2>2. \A u \in Shells : shell[u].kernel => shell[u].id # id
      BY <1>3 DEF TableInv, KernelsOK
    <2>3. \A u, v \in Shells :
            shell'[u].kernel /\ shell'[v].kernel /\ shell'[u].id = shell'[v].id => u = v
      BY <2>1, <2>2 DEF TableInv, KernelsOK
    <2>4. {shell'[u].id : u \in {v \in Shells : shell'[v].kernel}}
            = {shell[u].id : u \in {v \in Shells : shell[v].kernel}} \cup {id}
      BY <2>1
    <2>5. ASSUME NEW u \in Shells, shell'[u].kernel PROVE Owned(u)'
      <3>1. CASE u = s
        BY <1>4, <1>5, <3>1 DEF Owned
      <3>2. CASE u # s
        <4>1. Owned(u) /\ u # None
          BY <2>1, <2>5, <3>2 DEF TableInv, KernelsOK
        <4> QED  BY <1>3, <1>5, <4>1 DEF Owned, OpenCreates
      <3> QED  BY <3>1, <3>2
    <2> QED  BY <1>3, <2>3, <2>4, <2>5 DEF TableInv, KernelsOK
  <1>14. DeinitOK'
    BY <1>3, <1>4, DeinitKept DEF OpenCreates, TableInv, Deiniting
  <1> QED  BY <1>7, <1>8, <1>9, <1>10, <1>11, <1>12, <1>13, <1>14 DEF TableInv

LEMMA OpenPublishesInv ==
  ASSUME TableInv, NEW t \in Threads, OpenPublishes(t)
  PROVE  TableInv'
  <1>0. TableTypes
    BY TableTyping DEF TableInv
  <1>1. PICK s \in Shells : s = op[t].shell
    BY <1>0 DEF OpenPublishes, TableInv, OpOK, WithKernel, TableTypes, OpRec
  <1>2. PICK id \in Ids : id = op[t].id
    BY DEF OpenPublishes, TableInv, OpOK, WithKernel
  <1>3. /\ op[t].name = "publish" /\ ~host_closed /\ table[id] = None
        /\ table' = [table EXCEPT ![id] = s] /\ holds' = [holds EXCEPT ![t] = s]
        /\ op' = [op EXCEPT ![t] = Outside] /\ shell' = shell
        /\ UNCHANGED <<host_closed, session_ids, created>>
    BY <1>1, <1>2 DEF OpenPublishes, MayPublish
  <1>4. Outside \in OpRec /\ Outside.name = "none" /\ Outside.shell = None
    BY OpWrites DEF OpNames, Outside, Op
  <1>5. /\ shell[s].mem = "alive" /\ shell[s].kernel /\ ~shell[s].retired /\ shell[s].id = id
        /\ \A u \in Threads \ {t} : op[u].shell # s
        /\ s # None
    BY <1>1, <1>2, <1>3 DEF TableInv, OpOK, Exclusive, WithKernel, Freeing
  <1>6. /\ Cardinality(Holders(s)') = Cardinality(Holders(s)) + 1
        /\ \A u \in Shells \ {s} : Holders(u)' = Holders(u)
    BY <1>3, HoldersTake DEF TableInv, OpOK
  <1>7. OpOK(t)'
    BY <1>0, <1>3, <1>4 DEF TableTypes, OpOK, WithKernel, Retiring, Freeing
  <1>8. EntryOK(id)' /\ \A i \in Ids : table'[i] = s => i = id
    BY <1>0, <1>1, <1>3, <1>4, <1>5 DEF TableTypes, EntryOK, TableInv
  <1>9. CountOK(s)'
    <2>1. Unpublished(s)
      BY <1>1, <1>3 DEF Unpublished
    <2>2. ~Unpublished(s)'
      BY <1>0, <1>3, <1>4, <1>5 DEF Unpublished, TableTypes
    <2> QED  BY <1>3, <1>5, <1>6, <2>1, <2>2, HoldersFinite DEF TableInv, CountOK
  <1>10. KernelsOK'
    <2>1. ASSUME NEW u \in Shells, Owned(u) PROVE Owned(u)'
      BY <1>0, <1>1, <1>3, <2>1 DEF Owned, TableTypes
    <2> QED  BY <1>3, <2>1, KernelsSame DEF TableInv
  <1>11. DeinitOK'
    <2>1. \A u \in Threads : op[u].name \notin Deiniting
      BY <1>3 DEF TableInv, DeinitOK, DeinitCalled, Deiniting
    <2>2. \A u \in Threads : op'[u].name \notin Deiniting
      BY <1>0, <1>3, <1>4, <2>1 DEF TableTypes, Deiniting
    <2> QED  BY <1>3, <2>2 DEF TableInv, DeinitOK, DeinitCalled, Deiniting
  <1>12. /\ shell' = [shell EXCEPT ![s] = shell[s]] /\ shell[s] \in ShellRec
         /\ table' \in [Ids -> Shells \cup {None}] /\ holds' \in [Threads -> Shells \cup {None}]
         /\ \A i \in Ids : table'[i] \in {table[i], s, None}
         /\ \A u \in Threads \ {t} : holds'[u] = holds[u]
    BY <1>0, <1>3 DEF TableTypes
  <1>13. session_ids' \subseteq Ids /\ host_closed' \in BOOLEAN /\ created' = created
    BY <1>0, <1>3 DEF TableTypes
  <1>14. /\ shell[s].mem # "none" /\ op[t].shell \in {s, None} /\ Outside.name # "publish"
         /\ \A u \in Threads \ {t} : op[u].shell = s => Outside.shell = None /\ OpOK(u)'
         /\ \A i \in Ids : table'[i] = s => EntryOK(i)'
    BY <1>1, <1>4, <1>5, <1>8
  <1>15. /\ Outside \in OpRec /\ Outside.shell \in {s, None} /\ op' = [op EXCEPT ![t] = Outside]
         /\ \A u \in Shells \ {s} : Holders(u)' = Holders(u)
    BY <1>3, <1>4, <1>6
  <1> QED  BY ONLY TableInv, t \in Threads, s \in Shells, <1>7, <1>9, <1>10, <1>11, <1>12, <1>13,
              <1>14, <1>15, ShellStep

\* A shell a call is about is in no other call and not in the table.
LEMMA InCall ==
  ASSUME TableInv, NEW t \in Threads, op[t].shell # None
  PROVE  /\ op[t].shell \in Shells /\ shell[op[t].shell] \in ShellRec
         /\ shell[op[t].shell].mem = "alive"
         /\ \A u \in Threads \ {t} : op[u].shell # op[t].shell
         /\ \A id \in Ids : table[id] # op[t].shell
  <1>1. op[t].shell \in Shells
    BY TableTyping DEF TableInv, TableTypes, OpRec
  <1>2. shell[op[t].shell] \in ShellRec
    BY <1>1, TableTyping DEF TableInv, TableTypes
  <1> QED  BY <1>1, <1>2 DEF TableInv, OpOK, Exclusive, EntryOK

\* A step of a call on the shell it is about: table and references stay.
LEMMA CallStep ==
  ASSUME TableInv, NEW t \in Threads, NEW s \in Shells, op[t].shell = s,
         NEW r \in ShellRec, NEW o \in OpRec,
         shell' = [shell EXCEPT ![s] = r], op' = [op EXCEPT ![t] = o],
         UNCHANGED <<table, host_closed, created, holds>>,
         session_ids' \subseteq Ids, r.mem # "none", r.id = shell[s].id,
         o.shell \in {s, None}, o.name # "publish",
         o.name \in Deiniting <=> op[t].name \in Deiniting,
         o.name = "deinit_done" => op[t].name = "late_free", o.name # "late_free",
         OpOK(t)', CountOK(s)', KernelsOK'
  PROVE  TableInv'
  <1>0. TableTypes
    BY TableTyping DEF TableInv
  <1>1. /\ shell[s].mem = "alive" /\ \A u \in Threads \ {t} : op[u].shell # s
        /\ \A id \in Ids : table[id] # s
    BY InCall
  <1>2. op[t].name = "late_free" => \A id \in Ids : table[id] = None
    BY DEF TableInv, DeinitOK
  <1>3. \A id \in Ids : table'[id] \in {table[id], None}
    OBVIOUS
  <1>4. DeinitOK'
    BY <1>2, <1>3, DeinitKept DEF TableInv
  <1>5. /\ table' \in [Ids -> Shells \cup {None}] /\ host_closed' \in BOOLEAN
        /\ holds' \in [Threads -> Shells \cup {None}]
    BY <1>0 DEF TableTypes
  <1>6. \A u \in Shells \ {s} : Holders(u)' = Holders(u)
    BY DEF Holders
  <1>7. \A id \in Ids : table'[id] = s => EntryOK(id)'
    BY <1>1
  <1>8. /\ shell[s].mem # "none" /\ op[t].shell \in {s, None} /\ created' = created
        /\ \A u \in Threads \ {t} : op[u].shell = s => o.shell = None /\ OpOK(u)'
        /\ \A id \in Ids : table'[id] \in {table[id], s, None}
        /\ \A u \in Threads \ {t} : holds'[u] = holds[u]
    BY <1>1
  <1> QED  BY ONLY TableInv, t \in Threads, s \in Shells, r \in ShellRec, o \in OpRec,
              shell' = [shell EXCEPT ![s] = r], op' = [op EXCEPT ![t] = o],
              session_ids' \subseteq Ids, r.mem # "none", r.id = shell[s].id,
              o.shell \in {s, None}, o.name # "publish", OpOK(t)', CountOK(s)', KernelsOK',
              <1>4, <1>5, <1>6, <1>7, <1>8, ShellStep

\* Kernels stay where they are when a call goes on with its shell, or leaves
\* one that has no kernel.
LEMMA CallKernels ==
  ASSUME TableInv, NEW t \in Threads, NEW s \in Shells, op[t].shell = s,
         NEW r \in ShellRec, NEW o \in OpRec,
         shell' = [shell EXCEPT ![s] = r], op' = [op EXCEPT ![t] = o],
         table' = table, r.id = shell[s].id, o.shell \in {s, None},
         \/ r.kernel = shell[s].kernel /\ session_ids' = session_ids
            /\ (o.shell = None => ~shell[s].kernel)
         \/ shell[s].kernel /\ ~r.kernel /\ session_ids' = session_ids \ {shell[s].id}
  PROVE  KernelsOK'
  <1>0. TableTypes
    BY TableTyping DEF TableInv
  <1>1. /\ shell'[s] = r /\ \A u \in Shells \ {s} : shell'[u] = shell[u]
        /\ op'[t] = o /\ \A v \in Threads \ {t} : op'[v] = op[v]
    BY <1>0 DEF TableTypes
  <1>2. ASSUME NEW u \in Shells \ {s}, Owned(u) PROVE Owned(u)'
    BY <1>1, <1>2 DEF Owned
  <1>3. CASE r.kernel = shell[s].kernel /\ session_ids' = session_ids
             /\ (o.shell = None => ~shell[s].kernel)
    <2>1. CASE o.shell = s
      <3>1. Owned(s)'
        BY <1>1, <2>1 DEF Owned
      <3> QED  BY <1>1, <1>2, <1>3, <3>1, KernelsSame DEF TableInv
    <2>2. CASE o.shell = None
      <3>1. \A u \in Shells : shell'[u].kernel = shell[u].kernel /\ shell'[u].id = shell[u].id
        BY <1>1, <1>3
      <3>2. ASSUME NEW u \in Shells, shell'[u].kernel PROVE Owned(u)'
        BY <1>1, <1>2, <1>3, <2>2, <3>1, <3>2 DEF TableInv, KernelsOK
      <3>3. {shell'[u].id : u \in {v \in Shells : shell'[v].kernel}}
              = {shell[u].id : u \in {v \in Shells : shell[v].kernel}}
        BY <3>1
      <3> QED  BY <1>3, <3>1, <3>2, <3>3 DEF TableInv, KernelsOK
    <2> QED  BY <2>1, <2>2
  <1>4. CASE shell[s].kernel /\ ~r.kernel /\ session_ids' = session_ids \ {shell[s].id}
    BY <1>1, <1>2, <1>4, KernelGone DEF TableInv
  <1> QED  BY <1>3, <1>4

LEMMA OpenWithdrawsInv ==
  ASSUME TableInv, NEW t \in Threads, OpenWithdraws(t)
  PROVE  TableInv'
  <1>1. op[t].shell # None
    BY DEF OpenWithdraws, TableInv, OpOK, WithKernel
  <1>2. PICK s \in Shells : s = op[t].shell
    BY <1>1, InCall
  <1> DEFINE r == [shell[s] EXCEPT !.references = 0]
             o == Op("undo", op[t].id, s)
  <1>3. /\ r \in ShellRec /\ r.mem = shell[s].mem /\ r.id = shell[s].id
        /\ r.references = 0 /\ r.retired = shell[s].retired /\ r.kernel = shell[s].kernel
    BY <1>1, <1>2, InCall DEF ShellRec
  <1>4. o \in OpRec /\ o.name = "undo" /\ o.id = op[t].id /\ o.shell = s
    BY <1>2, OpWrites, TableTyping DEF Op, OpNames, TableInv, TableTypes, OpRec
  <1>5. /\ op[t].name = "publish" /\ shell' = [shell EXCEPT ![s] = r]
        /\ op' = [op EXCEPT ![t] = o]
        /\ UNCHANGED <<table, host_closed, session_ids, created, holds>>
    BY <1>2 DEF OpenWithdraws
  <1> HIDE DEF r, o
  <1>6. shell'[s] = r /\ op'[t] = o /\ \A u \in Threads \ {t} : op'[u] = op[u]
    BY <1>5, TableTyping DEF TableInv, TableTypes
  <1>7. OpOK(t)'
    BY <1>2, <1>3, <1>4, <1>5, <1>6 DEF TableInv, OpOK, WithKernel, Retiring, Freeing
  <1>8. CountOK(s)'
    <2>1. Unpublished(s) /\ ~Unpublished(s)'
      BY <1>1, <1>2, <1>4, <1>5, <1>6, InCall DEF Unpublished
    <2>2. Holders(s)' = Holders(s)
      BY <1>5 DEF Holders
    <2>3. shell[s].references = Cardinality(Holders(s)) + 1
      BY <2>1 DEF TableInv, CountOK
    <2>4. shell[s].references = 1
      BY <1>2, <1>5 DEF TableInv, OpOK
    <2>5. Cardinality(Holders(s)) = 0
      BY <2>3, <2>4, HoldersFinite
    <2> QED  BY <1>3, <1>6, <2>1, <2>2, <2>5 DEF CountOK
  <1>9. KernelsOK'
    <2>1. r.kernel = shell[s].kernel /\ session_ids' = session_ids /\ o.shell # None
      BY <1>2, <1>3, <1>4, <1>5
    <2>2. op[t].shell = s /\ table' = table /\ o.shell \in {s, None} /\ r.id = shell[s].id
      BY <1>2, <1>3, <1>4, <1>5
    <2>3. /\ r \in ShellRec /\ o \in OpRec
          /\ shell' = [shell EXCEPT ![s] = r] /\ op' = [op EXCEPT ![t] = o]
      BY <1>3, <1>4, <1>5
    <2> QED  BY <2>1, <2>2, <2>3, CallKernels
  <1>10. session_ids' \subseteq Ids
    BY <1>5, TableTyping DEF TableInv, TableTypes
  <1>11. /\ r.mem # "none" /\ o.shell \in {s, None}
         /\ o.name \notin {"publish", "deinit_done", "late_free"} \cup Deiniting
         /\ op[t].name \notin Deiniting
    BY <1>1, <1>2, <1>3, <1>4, <1>5, InCall DEF Deiniting
  <1> QED  BY <1>2, <1>3, <1>4, <1>5, <1>7, <1>8, <1>9, <1>10, <1>11, CallStep

LEMMA OpenUndoesInv ==
  ASSUME TableInv, NEW t \in Threads, OpenUndoes(t)
  PROVE  TableInv'
  <1>1. op[t].shell # None
    BY DEF OpenUndoes, TableInv, OpOK, WithKernel
  <1>2. PICK s \in Shells : s = op[t].shell
    BY <1>1, InCall
  <1> DEFINE r == [shell[s] EXCEPT !.kernel = FALSE, !.mem = "freed"]
             o == Outside
  <1>3. /\ r \in ShellRec /\ r.mem = "freed" /\ r.id = shell[s].id
        /\ r.references = shell[s].references /\ r.kernel = FALSE
    BY <1>1, <1>2, InCall DEF ShellRec
  <1>4. o \in OpRec /\ o.name = "none" /\ o.shell = None
    BY OpWrites DEF Op, OpNames, Outside
  <1>5. /\ op[t].name = "undo" /\ shell' = [shell EXCEPT ![s] = r]
        /\ op' = [op EXCEPT ![t] = o] /\ session_ids' = session_ids \ {shell[s].id}
        /\ UNCHANGED <<table, host_closed, created, holds>>
    BY <1>2 DEF OpenUndoes, TableInv, OpOK, WithKernel
  <1> HIDE DEF r, o
  <1>6. shell'[s] = r /\ op'[t] = o /\ \A u \in Threads \ {t} : op'[u] = op[u]
    BY <1>5, TableTyping DEF TableInv, TableTypes
  <1>7. OpOK(t)'
    BY <1>4, <1>6 DEF OpOK, WithKernel, Retiring, Freeing
  <1>8. CountOK(s)'
    <2>1. ~Unpublished(s) /\ ~Unpublished(s)'
      BY <1>1, <1>2, <1>4, <1>5, <1>6, InCall DEF Unpublished
    <2>2. Holders(s)' = Holders(s)
      BY <1>5 DEF Holders
    <2>3. shell[s].references = 0
      BY <1>2, <1>5 DEF TableInv, OpOK
    <2> QED  BY <1>3, <1>6, <2>1, <2>2, <2>3 DEF TableInv, CountOK
  <1>9. KernelsOK'
    <2>1. shell[s].kernel /\ ~r.kernel /\ session_ids' = session_ids \ {shell[s].id}
      BY <1>2, <1>3, <1>5 DEF TableInv, OpOK, WithKernel
    <2>2. op[t].shell = s /\ table' = table /\ o.shell \in {s, None} /\ r.id = shell[s].id
      BY <1>2, <1>3, <1>4, <1>5
    <2> QED  BY <1>3, <1>4, <1>5, <2>1, <2>2, CallKernels
  <1>10. session_ids' \subseteq Ids
    BY <1>5, TableTyping DEF TableInv, TableTypes
  <1>11. /\ r.mem # "none" /\ o.shell \in {s, None}
         /\ o.name \notin {"publish", "deinit_done", "late_free"} \cup Deiniting
         /\ op[t].name \notin Deiniting
    BY <1>3, <1>4, <1>5 DEF Deiniting
  <1> QED  BY <1>2, <1>3, <1>4, <1>5, <1>7, <1>8, <1>9, <1>10, <1>11, CallStep

LEMMA ShutdownInv ==
  ASSUME TableInv, NEW t \in Threads, NEW from, NEW to, Shutdown(t, from, to),
         <<from, to>> \in {<<"shutdown", "retire">>, <<"deinit_shutdown", "deinit_retire">>}
  PROVE  TableInv'
  <1>1. op[t].shell # None
    BY DEF Shutdown, TableInv, OpOK, WithKernel
  <1>2. PICK s \in Shells : s = op[t].shell
    BY <1>1, InCall
  <1> DEFINE r == [shell[s] EXCEPT !.kernel = FALSE]
             o == Op(to, op[t].id, s)
  <1>3. /\ r \in ShellRec /\ r.mem = shell[s].mem /\ r.id = shell[s].id
        /\ r.references = shell[s].references /\ r.kernel = FALSE
        /\ r.retired = shell[s].retired
    BY <1>1, <1>2, InCall DEF ShellRec
  <1>4. o \in OpRec /\ o.name = to /\ o.shell = s
    BY <1>2, OpWrites, TableTyping DEF Op, OpNames, TableInv, TableTypes, OpRec
  <1>5. /\ op[t].name = from /\ shell' = [shell EXCEPT ![s] = r]
        /\ op' = [op EXCEPT ![t] = o] /\ session_ids' = session_ids \ {shell[s].id}
        /\ UNCHANGED <<table, host_closed, created, holds>>
    BY <1>2 DEF Shutdown
  <1> HIDE DEF r, o
  <1>6. shell'[s] = r /\ op'[t] = o /\ \A u \in Threads \ {t} : op'[u] = op[u]
    BY <1>5, TableTyping DEF TableInv, TableTypes
  <1>7. OpOK(t)'
    BY <1>2, <1>3, <1>4, <1>5, <1>6 DEF TableInv, OpOK, WithKernel, Retiring, Freeing
  <1>8. CountOK(s)'
    <2>1. ~Unpublished(s) /\ ~Unpublished(s)'
      BY <1>1, <1>2, <1>4, <1>5, <1>6, InCall DEF Unpublished
    <2>2. Holders(s)' = Holders(s)
      BY <1>5 DEF Holders
    <2> QED  BY <1>3, <1>6, <2>1, <2>2 DEF TableInv, CountOK
  <1>9. KernelsOK'
    <2>1. shell[s].kernel /\ ~r.kernel /\ session_ids' = session_ids \ {shell[s].id}
      BY <1>2, <1>3, <1>5 DEF TableInv, OpOK, WithKernel
    <2>2. op[t].shell = s /\ table' = table /\ o.shell \in {s, None} /\ r.id = shell[s].id
      BY <1>2, <1>3, <1>4, <1>5
    <2> QED  BY <1>3, <1>4, <1>5, <2>1, <2>2, CallKernels
  <1>10. session_ids' \subseteq Ids
    BY <1>5, TableTyping DEF TableInv, TableTypes
  <1>11. /\ r.mem # "none" /\ o.shell \in {s, None}
         /\ o.name \notin {"publish", "deinit_done", "late_free"}
         /\ o.name \in Deiniting <=> op[t].name \in Deiniting
    BY <1>1, <1>2, <1>3, <1>4, <1>5, InCall DEF Deiniting
  <1> QED  BY <1>2, <1>3, <1>4, <1>5, <1>7, <1>8, <1>9, <1>10, <1>11, CallStep

LEMMA RetireInv ==
  ASSUME TableInv, NEW t \in Threads, NEW from, NEW free, NEW gone, Retire(t, from, free, gone),
         <<from, free, gone>> \in {<<"retire", "free", "none">>,
                                   <<"deinit_retire", "deinit_free", "deinit">>}
  PROVE  TableInv'
  <1>1. op[t].shell # None
    BY DEF Retire, TableInv, OpOK, Retiring
  <1>2. PICK s \in Shells : s = op[t].shell
    BY <1>1, InCall
  <1> DEFINE r == [shell[s] EXCEPT !.retired = TRUE]
             o == IF shell[s].references = 0 THEN Op(free, "none", s) ELSE Op(gone, "none", None)
  <1>3. /\ r \in ShellRec /\ r.mem = shell[s].mem /\ r.id = shell[s].id
        /\ r.references = shell[s].references /\ r.kernel = shell[s].kernel
        /\ r.retired = TRUE
    BY <1>1, <1>2, InCall DEF ShellRec
  <1>4. o \in OpRec
    BY <1>2, OpWrites DEF OpNames
  <1>5. /\ op[t].name = from /\ shell' = [shell EXCEPT ![s] = r]
        /\ op' = [op EXCEPT ![t] = o] /\ session_ids' = session_ids
        /\ UNCHANGED <<table, host_closed, created, holds>>
    BY <1>2 DEF Retire, Retired, FreedByRetire
  <1>6. /\ shell[s].references = 0 => o.name = free /\ o.shell = s
        /\ shell[s].references # 0 => o.name = gone /\ o.shell = None
    BY DEF Op
  <1> HIDE DEF r, o
  <1>7. shell'[s] = r /\ op'[t] = o /\ \A u \in Threads \ {t} : op'[u] = op[u]
    BY <1>4, <1>5, TableTyping DEF TableInv, TableTypes
  <1>8. shell[s].mem = "alive" /\ ~shell[s].kernel
    BY <1>1, <1>2, <1>5 DEF TableInv, OpOK, WithKernel
  <1>9. OpOK(t)'
    BY <1>3, <1>6, <1>7, <1>8 DEF OpOK, WithKernel, Retiring, Freeing
  <1>10. CountOK(s)'
    <2>1. ~Unpublished(s) /\ ~Unpublished(s)'
      BY <1>1, <1>2, <1>5, <1>6, <1>7, InCall DEF Unpublished
    <2>2. Holders(s)' = Holders(s)
      BY <1>5 DEF Holders
    <2> QED  BY <1>3, <1>7, <2>1, <2>2 DEF TableInv, CountOK
  <1>11. KernelsOK'
    <2>1. r.kernel = shell[s].kernel /\ (o.shell = None => ~shell[s].kernel)
      BY <1>3, <1>8
    <2>2. op[t].shell = s /\ table' = table /\ o.shell \in {s, None} /\ r.id = shell[s].id
      BY <1>2, <1>3, <1>5, <1>6
    <2> QED  BY <1>3, <1>4, <1>5, <2>1, <2>2, CallKernels
  <1>12. session_ids' \subseteq Ids
    BY <1>5, TableTyping DEF TableInv, TableTypes
  <1>13. /\ r.mem # "none" /\ o.shell \in {s, None}
         /\ o.name \notin {"publish", "deinit_done", "late_free"}
         /\ o.name \in Deiniting <=> op[t].name \in Deiniting
    BY <1>3, <1>5, <1>6, <1>8 DEF Deiniting
  <1> QED  BY <1>2, <1>3, <1>4, <1>5, <1>9, <1>10, <1>11, <1>12, <1>13, CallStep

LEMMA DestroyShellInv ==
  ASSUME TableInv, NEW t \in Threads, NEW from, NEW gone, DestroyShell(t, from, gone),
         <<from, gone>> \in {<<"free", "none">>, <<"deinit_free", "deinit">>,
                             <<"late_free", "deinit_done">>}
  PROVE  TableInv'
  <1>1. op[t].shell # None
    BY DEF DestroyShell, TableInv, OpOK, Freeing
  <1>2. PICK s \in Shells : s = op[t].shell
    BY <1>1, InCall
  <1> DEFINE r == [shell[s] EXCEPT !.mem = "freed"]
             o == Op(gone, "none", None)
  <1>3. /\ r \in ShellRec /\ r.mem = "freed" /\ r.id = shell[s].id
        /\ r.references = shell[s].references /\ r.kernel = shell[s].kernel
    BY <1>1, <1>2, InCall DEF ShellRec
  <1>4. o \in OpRec /\ o.name = gone /\ o.shell = None
    BY OpWrites DEF Op, OpNames
  <1>5. /\ op[t].name = from /\ shell' = [shell EXCEPT ![s] = r]
        /\ op' = [op EXCEPT ![t] = o] /\ session_ids' = session_ids
        /\ UNCHANGED <<table, host_closed, created, holds>>
    BY <1>2 DEF DestroyShell
  <1> HIDE DEF r, o
  <1>6. shell'[s] = r /\ op'[t] = o /\ \A u \in Threads \ {t} : op'[u] = op[u]
    BY <1>5, TableTyping DEF TableInv, TableTypes
  <1>7. ~shell[s].kernel /\ shell[s].references = 0
    BY <1>1, <1>2, <1>5 DEF TableInv, OpOK, WithKernel, Freeing
  <1>8. OpOK(t)'
    BY <1>4, <1>6 DEF OpOK, WithKernel, Retiring, Freeing
  <1>9. CountOK(s)'
    <2>1. ~Unpublished(s) /\ ~Unpublished(s)'
      BY <1>1, <1>2, <1>4, <1>5, <1>6, InCall DEF Unpublished
    <2>2. Holders(s)' = Holders(s)
      BY <1>5 DEF Holders
    <2> QED  BY <1>3, <1>6, <1>7, <2>1, <2>2 DEF TableInv, CountOK
  <1>10. KernelsOK'
    <2>1. r.kernel = shell[s].kernel /\ ~shell[s].kernel
      BY <1>3, <1>7
    <2>2. op[t].shell = s /\ table' = table /\ o.shell \in {s, None} /\ r.id = shell[s].id
      BY <1>2, <1>3, <1>4, <1>5
    <2> QED  BY <1>3, <1>4, <1>5, <2>1, <2>2, CallKernels
  <1>11. session_ids' \subseteq Ids
    BY <1>5, TableTyping DEF TableInv, TableTypes
  <1>12. /\ r.mem # "none" /\ o.shell \in {s, None}
         /\ o.name \notin {"publish", "late_free"}
         /\ o.name = "deinit_done" => op[t].name = "late_free"
         /\ o.name \in Deiniting <=> op[t].name \in Deiniting
    BY <1>3, <1>4, <1>5 DEF Deiniting
  <1> QED  BY <1>2, <1>3, <1>4, <1>5, <1>8, <1>9, <1>10, <1>11, <1>12, CallStep

LEMMA AcquireInv ==
  ASSUME TableInv, NEW t \in Threads, NEW id \in Ids, Acquire(t, id)
  PROVE  TableInv'
  <1>0. TableTypes
    BY TableTyping DEF TableInv
  <1>1. PICK s \in Shells : s = table[id]
    BY <1>0 DEF Acquire, TableTypes
  <1>2. /\ shell[s].mem = "alive" /\ ~shell[s].retired /\ shell[s].kernel /\ shell[s].id = id
        /\ \A u \in Threads : op[u].shell # s
        /\ shell[s] \in ShellRec
    BY <1>0, <1>1 DEF Acquire, TableInv, EntryOK, TableTypes
  <1> DEFINE r == [shell[s] EXCEPT !.references = @ + 1]
             o == op[t]
  <1>3. /\ r \in ShellRec /\ r.mem = shell[s].mem /\ r.id = shell[s].id
        /\ r.references = shell[s].references + 1 /\ r.kernel = shell[s].kernel
        /\ r.retired = shell[s].retired
    <2>1. shell[s].references + 1 \in Nat
      BY <1>2 DEF ShellRec
    <2>2. r \in ShellRec
      BY <1>2, <2>1, ShellWrites
    <2> QED  BY <1>2, <2>2 DEF ShellRec
  <1>4. o \in OpRec /\ o.name = "none" /\ o.shell = None
    BY <1>0 DEF Acquire, MayCall, TableInv, OpOK, WithKernel, Retiring, Freeing, TableTypes
  <1>5. /\ shell' = [shell EXCEPT ![s] = r] /\ op' = [op EXCEPT ![t] = o]
        /\ holds[t] = None /\ holds' = [holds EXCEPT ![t] = s]
        /\ UNCHANGED <<table, host_closed, session_ids, created>>
    BY <1>0, <1>1 DEF Acquire, TableTypes
  <1> HIDE DEF r, o
  <1>6. shell'[s] = r /\ op'[t] = o /\ \A u \in Threads \ {t} : op'[u] = op[u]
    BY <1>0, <1>5 DEF TableTypes
  <1>7. OpOK(t)'
    BY <1>4, <1>6 DEF OpOK, WithKernel, Retiring, Freeing
  <1>8. /\ Cardinality(Holders(s)') = Cardinality(Holders(s)) + 1
        /\ \A u \in Shells \ {s} : Holders(u)' = Holders(u)
    BY <1>5, HoldersTake DEF TableInv
  <1>9. CountOK(s)'
    <2>1. ~Unpublished(s) /\ ~Unpublished(s)'
      BY <1>2, <1>4, <1>6 DEF Unpublished
    <2> QED  BY <1>2, <1>3, <1>6, <1>8, <2>1, HoldersFinite DEF TableInv, CountOK
  <1>10. KernelsOK'
    <2>1. ASSUME NEW u \in Shells, Owned(u) PROVE Owned(u)'
      <3>1. u # None
        OBVIOUS
      <3>2. \A v \in Threads : op[v].shell = u => op'[v].shell = u
        BY <1>4, <1>5, <1>6, <3>1 DEF o
      <3> QED  BY <1>5, <2>1, <3>2 DEF Owned
    <2>2. \A u \in Shells : shell'[u].kernel = shell[u].kernel /\ shell'[u].id = shell[u].id
      BY <1>0, <1>3, <1>5 DEF TableTypes
    <2> QED  BY <1>5, <2>1, <2>2, KernelsSame DEF TableInv
  <1>11. DeinitOK'
    <2>1. o.name \in Deiniting <=> op[t].name \in Deiniting
      BY <1>4, <1>5, <1>6 DEF Acquire, MayCall, Deiniting
    <2>2. \A i \in Ids : table'[i] \in {table[i], None}
      BY <1>5
    <2> QED  BY <1>4, <1>5, <2>1, <2>2, DeinitKept DEF TableInv
  <1>12. /\ table' \in [Ids -> Shells \cup {None}] /\ holds' \in [Threads -> Shells \cup {None}]
         /\ session_ids' \subseteq Ids /\ host_closed' \in BOOLEAN
         /\ \A i \in Ids : table'[i] \in {table[i], s, None}
         /\ \A u \in Threads \ {t} : holds'[u] = holds[u]
    BY <1>0, <1>5 DEF TableTypes
  <1>13. \A i \in Ids : table'[i] = s => EntryOK(i)'
    <2> SUFFICES ASSUME NEW i \in Ids, table'[i] = s PROVE EntryOK(i)'
      OBVIOUS
    <2>1. \A u \in Threads : op'[u].shell # s
      BY <1>2, <1>4, <1>5, <1>6 DEF o
    <2>2. table[i] = s /\ table' = table
      BY <1>5
    <2>3. shell[s].id = i
      BY <1>1, <2>2 DEF Acquire, TableInv, EntryOK
    <2> QED  BY <1>2, <1>3, <1>6, <2>1, <2>2, <2>3 DEF EntryOK
  <1>14. /\ shell[s].mem # "none" /\ r.mem # "none" /\ op[t].shell \in {s, None}
         /\ o.shell \in {s, None} /\ o.name # "publish" /\ created' = created
         /\ \A u \in Threads \ {t} : op[u].shell = s => o.shell = None /\ OpOK(u)'
    BY <1>2, <1>3, <1>4, <1>5 DEF Acquire, MayCall, TableInv, OpOK, WithKernel, Retiring, Freeing
  <1>15. /\ r \in ShellRec /\ o \in OpRec /\ r.id = shell[s].id
         /\ shell' = [shell EXCEPT ![s] = r] /\ op' = [op EXCEPT ![t] = o]
    BY <1>3, <1>4, <1>5
  <1>16. \A u \in Shells \ {s} : Holders(u)' = Holders(u)
    BY <1>8
  <1> QED  BY ONLY TableInv, t \in Threads, s \in Shells, <1>7, <1>9, <1>10, <1>11, <1>12, <1>13,
              <1>14, <1>15, <1>16, ShellStep

LEMMA ReleaseInv ==
  ASSUME TableInv, NEW t \in Threads, Release(t)
  PROVE  TableInv'
  <1>0. TableTypes
    BY TableTyping DEF TableInv
  <1>1. PICK s \in Shells : s = holds[t]
    BY <1>0 DEF Release, TableTypes
  <1>2. shell[s].mem = "alive" /\ shell[s].references >= 1 /\ shell[s] \in ShellRec /\ s # None
    BY <1>0, <1>1, HeldAlive DEF Release, TableTypes
  <1> DEFINE r == [shell[s] EXCEPT !.references = @ - 1]
             gone == shell[s].references = 1 /\ shell[s].retired
             o == IF gone
                  THEN Op(IF op[t].name = "none" THEN "free" ELSE "late_free", "none", s)
                  ELSE op[t]
  <1>3. /\ r \in ShellRec /\ r.mem = shell[s].mem /\ r.id = shell[s].id
        /\ r.references = shell[s].references - 1 /\ r.kernel = shell[s].kernel
        /\ r.retired = shell[s].retired
    BY <1>2 DEF ShellRec
  <1>4. op[t].name \in {"none", "deinit_done"} /\ op[t].shell = None
    BY DEF Release, TableInv, OpOK, WithKernel, Retiring, Freeing
  <1>5. /\ o \in OpRec
        /\ gone => /\ o.shell = s
                   /\ o.name = IF op[t].name = "none" THEN "free" ELSE "late_free"
        /\ ~gone => o = op[t]
    BY <1>0, <1>1, <1>4, OpWrites DEF Op, OpNames, TableTypes
  <1>6. /\ shell' = [shell EXCEPT ![s] = r] /\ op' = [op EXCEPT ![t] = o]
        /\ holds' = [holds EXCEPT ![t] = None]
        /\ UNCHANGED <<table, host_closed, session_ids, created>>
    BY <1>0, <1>1 DEF Release, FreedByRelease, TableTypes
  <1> HIDE DEF r, o, gone
  <1>7. shell'[s] = r /\ op'[t] = o /\ \A u \in Threads \ {t} : op'[u] = op[u]
    BY <1>0, <1>5, <1>6 DEF TableTypes
  <1>8. /\ Cardinality(Holders(s)) >= 1
        /\ Cardinality(Holders(s)') = Cardinality(Holders(s)) - 1
        /\ \A u \in Shells \ {s} : Holders(u)' = Holders(u)
    BY <1>1, <1>6, HoldersGive DEF TableInv
  <1>9. gone => ~shell[s].kernel
    <2> SUFFICES ASSUME gone, shell[s].kernel PROVE FALSE
      OBVIOUS
    <2>1. Owned(s)
      BY DEF TableInv, KernelsOK
    <2> QED  BY <1>2, <2>1 DEF Owned, gone, TableInv, OpOK, EntryOK, WithKernel, Freeing
  <1>10. \A u \in Threads : op[u].shell = s => op[u].name \notin {"publish", "undo"} \cup Freeing
    <2> SUFFICES ASSUME NEW u \in Threads, op[u].shell = s,
                        op[u].name \in {"publish", "undo"} \cup Freeing
                 PROVE  FALSE
      OBVIOUS
    <2>1. op[u].name = "publish" /\ shell[s].references = 1
      BY <1>2 DEF TableInv, OpOK
    <2>2. Unpublished(s)
      BY <2>1 DEF Unpublished
    <2>3. Cardinality(Holders(s)) = 0
      BY <2>1, <2>2, HoldersFinite DEF TableInv, CountOK
    <2> QED  BY <1>8, <2>3
  <1>11. gone => \A u \in Threads : op[u].shell # s
    BY <1>2, <1>9, <1>10 DEF gone, TableInv, OpOK
  <1>12. OpOK(t)'
    BY <1>0, <1>2, <1>3, <1>4, <1>5, <1>7, <1>9 DEF gone, OpOK, WithKernel, Retiring, Freeing
  <1>13. ASSUME NEW u \in Threads \ {t}, op[u].shell = s
         PROVE  o.shell = None /\ OpOK(u)'
    <2>1. ~gone /\ o.shell = None
      BY <1>4, <1>5, <1>11, <1>13
    <2>2. op'[u] = op[u] /\ holds'[u] = holds[u]
      BY <1>0, <1>6, <1>7 DEF TableTypes
    <2> QED  BY <1>3, <1>7, <1>10, <1>13, <2>1, <2>2 DEF TableInv, OpOK, Freeing
  <1>14. CountOK(s)'
    <2>1. ~Unpublished(s) /\ ~Unpublished(s)'
      BY <1>4, <1>5, <1>7, <1>10 DEF Unpublished
    <2> QED  BY <1>2, <1>3, <1>7, <1>8, <2>1, HoldersFinite DEF TableInv, CountOK
  <1>15. KernelsOK'
    <2>1. \A u \in Shells : Owned(u) => Owned(u)'
      BY <1>4, <1>5, <1>6, <1>7 DEF Owned
    <2>2. \A u \in Shells : shell'[u].kernel = shell[u].kernel /\ shell'[u].id = shell[u].id
      BY <1>0, <1>3, <1>6 DEF TableTypes
    <2> QED  BY <1>6, <2>1, <2>2, KernelsSame DEF TableInv
  <1>16. DeinitOK'
    <2>1. o.name \in Deiniting <=> op[t].name \in Deiniting
      BY <1>4, <1>5 DEF Deiniting
    <2>2. \A i \in Ids : table'[i] \in {table[i], None}
      BY <1>6
    <2>3. o.name \in {"deinit_done", "late_free"} => \A i \in Ids : table[i] = None
      BY <1>4, <1>5 DEF TableInv, DeinitOK
    <2> QED  BY <1>5, <1>6, <2>1, <2>2, <2>3, DeinitKept DEF TableInv
  <1>17. /\ table' \in [Ids -> Shells \cup {None}] /\ holds' \in [Threads -> Shells \cup {None}]
         /\ session_ids' \subseteq Ids /\ host_closed' \in BOOLEAN
         /\ \A i \in Ids : table'[i] \in {table[i], s, None}
         /\ \A u \in Threads \ {t} : holds'[u] = holds[u]
    BY <1>0, <1>6 DEF TableTypes
  <1>18. \A i \in Ids : table'[i] = s => EntryOK(i)'
    <2> SUFFICES ASSUME NEW i \in Ids, table[i] = s PROVE EntryOK(i)'
      BY <1>6
    <2>1. ~shell[s].retired /\ \A u \in Threads : op[u].shell # s
      BY <1>2 DEF TableInv, EntryOK
    <2>2. \A u \in Threads : op'[u].shell # s
      BY <1>4, <1>5, <1>7, <2>1 DEF gone
    <2> QED  BY <1>2, <1>3, <1>6, <1>7, <2>1, <2>2 DEF TableInv, EntryOK
  <1>19. /\ shell[s].mem # "none" /\ r.mem # "none" /\ op[t].shell \in {s, None}
         /\ o.shell \in {s, None} /\ o.name # "publish" /\ created' = created
    BY <1>2, <1>3, <1>4, <1>5, <1>6
  <1>20. /\ r \in ShellRec /\ o \in OpRec /\ r.id = shell[s].id
         /\ shell' = [shell EXCEPT ![s] = r] /\ op' = [op EXCEPT ![t] = o]
         /\ \A u \in Shells \ {s} : Holders(u)' = Holders(u)
    BY <1>3, <1>5, <1>6, <1>8
  <1> QED  BY ONLY TableInv, t \in Threads, s \in Shells, <1>12, <1>13, <1>14, <1>15, <1>16, <1>17,
              <1>18, <1>19, <1>20, ShellStep

\* TableClose and deinit take a session out of the table into their own hands.
LEMMA TakenOut ==
  ASSUME TableInv, NEW t \in Threads, NEW id \in Ids, table[id] # None, op[t].shell = None,
         NEW name \in {"shutdown", "deinit_shutdown"},
         op[t].name = (IF name = "shutdown" THEN "none" ELSE "deinit"),
         table' = [table EXCEPT ![id] = None],
         op' = [op EXCEPT ![t] = Op(name, id, table[id])],
         UNCHANGED <<host_closed, session_ids, shell, created, holds>>
  PROVE  TableInv'
  <1>0. TableTypes
    BY TableTyping DEF TableInv
  <1>1. PICK s \in Shells : s = table[id]
    BY <1>0 DEF TableTypes
  <1>2. /\ shell[s].mem = "alive" /\ ~shell[s].retired /\ shell[s].kernel /\ shell[s].id = id
        /\ \A u \in Threads : op[u].shell # s
        /\ shell[s] \in ShellRec /\ s # None
    BY <1>0, <1>1 DEF TableInv, EntryOK, TableTypes
  <1> DEFINE o == Op(name, id, s)
  <1>3. o \in OpRec /\ o.name = name /\ o.id = id /\ o.shell = s
    BY <1>1, OpWrites DEF Op, OpNames
  <1>4. op' = [op EXCEPT ![t] = o] /\ shell' = [shell EXCEPT ![s] = shell[s]]
    BY <1>0, <1>1 DEF TableTypes
  <1> HIDE DEF o
  <1>5. op'[t] = o /\ \A u \in Threads \ {t} : op'[u] = op[u]
    BY <1>0, <1>4 DEF TableTypes
  <1>6. OpOK(t)'
    BY <1>2, <1>3, <1>5 DEF OpOK, WithKernel, Retiring, Freeing
  <1>7. \A i \in Ids : table'[i] # s /\ table'[i] \in {table[i], None}
    <2>1. \A i \in Ids : table[i] = s => i = id
      BY <1>2 DEF TableInv, EntryOK
    <2> QED  BY <1>0, <1>2, <2>1 DEF TableTypes
  <1>8. CountOK(s)'
    <2>1. ~Unpublished(s) /\ ~Unpublished(s)'
      BY <1>2, <1>3, <1>5 DEF Unpublished
    <2>2. Holders(s)' = Holders(s)
      BY DEF Holders
    <2> QED  BY <2>1, <2>2, CountKept DEF TableInv, CountOK
  <1>9. KernelsOK'
    <2>1. ASSUME NEW u \in Shells, Owned(u) PROVE Owned(u)'
      <3>1. CASE u = s
        BY <1>3, <1>5, <3>1 DEF Owned
      <3>2. CASE u # s
        <4>1. \A i \in Ids : table[i] = u => table'[i] = u
          BY <1>0, <1>1, <3>2 DEF TableTypes
        <4>2. u # None
          OBVIOUS
        <4> QED  BY <1>5, <2>1, <4>1, <4>2 DEF Owned
      <3> QED  BY <3>1, <3>2
    <2> QED  BY <2>1, KernelsSame DEF TableInv
  <1>10. DeinitOK'
    <2>1. o.name \in Deiniting <=> op[t].name \in Deiniting
      BY <1>3 DEF Deiniting
    <2>2. TableTypeOK /\ DeinitOK
      BY DEF TableInv
    <2>3. o.name \notin {"deinit_done", "late_free"} /\ host_closed' = host_closed
      BY <1>3
    <2> QED  BY ONLY t \in Threads, <1>3, <1>4, <1>7, <2>1, <2>2, <2>3, DeinitKept
  <1>11. /\ table' \in [Ids -> Shells \cup {None}] /\ holds' \in [Threads -> Shells \cup {None}]
         /\ session_ids' \subseteq Ids /\ host_closed' \in BOOLEAN
    BY <1>0 DEF TableTypes
  <1>12. \A u \in Shells \ {s} : Holders(u)' = Holders(u)
    BY DEF Holders
  <1>13. /\ shell[s].mem # "none" /\ op[t].shell \in {s, None}
         /\ o.shell \in {s, None} /\ o.name # "publish" /\ created' = created
         /\ \A u \in Threads \ {t} : op[u].shell = s => o.shell = None /\ OpOK(u)'
         /\ \A i \in Ids : table'[i] = s => EntryOK(i)'
         /\ \A i \in Ids : table'[i] \in {table[i], s, None}
         /\ \A u \in Threads \ {t} : holds'[u] = holds[u]
    BY <1>2, <1>3, <1>7
  <1> QED  BY ONLY TableInv, t \in Threads, s \in Shells, <1>2, <1>3, <1>4, <1>6, <1>8, <1>9, <1>10,
              <1>11, <1>12, <1>13, ShellStep

LEMMA CloseInv ==
  ASSUME TableInv, NEW t \in Threads, NEW id \in Ids, TableClose(t, id)
  PROVE  TableInv'
  <1>1. op[t].name = "none" /\ op[t].shell = None
    BY DEF TableClose, MayCall, TableInv, OpOK, WithKernel, Retiring, Freeing
  <1> QED  BY <1>1, TakenOut DEF TableClose

LEMMA DeinitTakesInv ==
  ASSUME TableInv, NEW t \in Threads, NEW id \in Ids, DeinitTakes(t, id)
  PROVE  TableInv'
  <1>1. op[t].name = "deinit" /\ op[t].shell = None
    BY DEF DeinitTakes, TableInv, OpOK, WithKernel, Retiring, Freeing
  <1> QED  BY <1>1, TakenOut DEF DeinitTakes

-----------------------------------------------------------------------------
(* The theorems                                                              *)

LEMMA StutterTable ==
  ASSUME TableInv, UNCHANGED tableVars
  PROVE  TableInv'
  <1> USE DEF tableVars, TableInv
  <1>1. TableTypeOK' /\ ShellsOK' /\ Exclusive'
    BY TableTyping DEF TableTypes, ShellsOK, Exclusive
  <1>2. \A t \in Threads : OpOK(t)'
    BY DEF OpOK
  <1>3. \A id \in Ids : EntryOK(id)'
    BY DEF EntryOK
  <1>4. \A s \in Shells : CountOK(s)'
    BY DEF CountOK, Holders, Unpublished
  <1>5. KernelsOK' /\ DeinitOK'
    BY DEF KernelsOK, Owned, DeinitOK, DeinitCalled
  <1> QED  BY <1>1, <1>2, <1>3, <1>4, <1>5

LEMMA NextTable ==
  ASSUME TableInv, [TableNext]_tableVars
  PROVE  TableInv'
  <1>1. ASSUME NEW t \in Threads, Begin(t) PROVE TableInv'
    BY <1>1, OpenChecksInv, AcquireInv, CloseInv, DeinitInv DEF Begin
  <1>2. ASSUME NEW t \in Threads, Continue(t) PROVE TableInv'
    <2>1. CASE OpenRefused(t) \/ OpenCreates(t) \/ OpenPublishes(t) \/ OpenWithdraws(t)
               \/ OpenUndoes(t)
      BY <2>1, OpenRefusedInv, OpenCreatesInv, OpenPublishesInv, OpenWithdrawsInv, OpenUndoesInv
    <2>2. CASE Shutdown(t, "shutdown", "retire")
               \/ Shutdown(t, "deinit_shutdown", "deinit_retire")
      BY <2>2, ShutdownInv
    <2>3. CASE Retire(t, "retire", "free", "none")
               \/ Retire(t, "deinit_retire", "deinit_free", "deinit")
      BY <2>3, RetireInv
    <2>4. CASE DestroyShell(t, "free", "none") \/ DestroyShell(t, "deinit_free", "deinit")
               \/ DestroyShell(t, "late_free", "deinit_done")
      BY <2>4, DestroyShellInv
    <2>5. CASE (\E id \in Ids : DeinitTakes(t, id)) \/ DeinitReturns(t)
      BY <2>5, DeinitTakesInv, DeinitReturnsInv
    <2> QED  BY <1>2, <2>1, <2>2, <2>3, <2>4, <2>5 DEF Continue
  <1>3. ASSUME NEW t \in Threads, Release(t) PROVE TableInv'
    BY <1>3, ReleaseInv
  <1>4. CASE Finished \/ UNCHANGED tableVars
    BY <1>4, StutterTable DEF Finished
  <1> QED  BY <1>1, <1>2, <1>3, <1>4 DEF TableNext

THEOREM TableInductive == TableSpec => []TableInv
  <1> QED  BY InitTable, NextTable, PTL DEF TableSpec

\* Every variable stays in its type; no counter of references goes below zero.
THEOREM TableTyped == TableSpec => []TableTypeOK
  <1>1. TableInv => TableTypeOK
    BY DEF TableInv
  <1> QED  BY <1>1, TableInductive, PTL

\* No use after free and no second free: the table, a holder and a call in
\* progress only ever reach a shell that is alive.
THEOREM NoUseAfterFree == TableSpec => []ReachableShellsAlive
  <1>1. TableInv => ReachableShellsAlive
    BY HeldAlive DEF TableInv, ReachableShellsAlive, EntryOK, OpOK
  <1> QED  BY <1>1, TableInductive, PTL

\* A session in the table has its kernel under its own id, an id belongs to
\* one kernel, no id is stuck, and deinit leaves the table empty for good.
THEOREM TableAndKernels == TableSpec => []TableMatchesKernel
  <1>1. TableInv => TableMatchesKernel
    BY DEF TableInv, TableMatchesKernel, EntryOK, KernelsOK, Owned, DeinitOK
  <1> QED  BY <1>1, TableInductive, PTL

-----------------------------------------------------------------------------
(* One session                                                               *)

HIDE DEF Shells, None

\* The points of the driver by what it knows of the kernel: idle; the Run's
\* result is in; a Run is active; nobody is inside Provider.cancel.
IdlePoints   == {"drain", "rewind", "admit", "mutate", "compact", "cmd_persist", "cmd_done"}
EndPoints    == {"take", "returned", "persist", "finish"}
ActivePoints == {"publish", "stop_abort", "stop_cancel", "stop_release", "claim", "loop", "tools"}
QuietPoints  == {"rewind", "rewinding", "admit", "mutate", "compact"}

\* Where the driver is, the kernel is in the state it needs.
KernelOK ==
  /\ driver \in IdlePoints => state = "idle"
  /\ driver \in EndPoints => state \in {"idle", "poisoned"}
  /\ driver = "exit" => state \in {"idle", "poisoned", "destroying"}
  /\ driver \in ActivePoints =>
       RunActive /\ active_run_id = driver_run_id
  /\ driver \in RunSteps => driver_run_id > 0
  /\ driver \in {"rewinding", "mutating"} => state = "mutating"
  /\ driver \in {"flush", "cmd_flush"} => state = "checkpointing"
  /\ driver = "compacting" => state \in {"compacting", "compact_finishing"}
  /\ driver \in QuietPoints => in_flight_provider_cancels = 0

\* The current Run is the driver's, and its phase says so.
RunOK ==
  /\ current_run_id = IF driver \in (ActivePoints \ {"publish"}) \cup {"returned"}
                      THEN driver_run_id ELSE 0
  /\ driver \in RunSteps => phase \in {"running", "closing"}
  /\ driver = "drain" /\ IsRun(work) => phase \in {"running", "closing"}
  /\ phase = "poisoned" => driver \in {"take", "exit"}
  /\ driver \in {"take", "exit"} /\ state = "poisoned" => phase = "poisoned" \/ closing
  /\ phase = "closing" => closing
  /\ driver = "exit" => closing

\* Whoever stops the Run that is active was asked to: an interrupt inside the
\* kernel for this Run has set run_interrupted, and so has the stop in force.
StopOK ==
  /\ \A i \in Interrupters : interrupter[i].pc # "out" =>
       /\ interrupter[i].run \in 1 .. driver_run_id
       /\ driver \in RunSteps /\ interrupter[i].run = driver_run_id => run_interrupted
  /\ driver \in {"stop_abort", "stop_cancel", "stop_release"} => run_interrupted \/ closing
  /\ state = "abort_requested" => run_interrupted \/ closing

\* The queue holds the accepted items that follow the one taken last, in the
\* order of their numbers, all of them as long as the session takes work.
Refusing == closing \/ phase = "poisoned"

QueueOK ==
  /\ \A k \in 1 .. Len(queue) : queue[k].id = work.id + k
  /\ ~Refusing => accepted = work.id + Len(queue)
  /\ work.id = IF driver \in {"take", "exit"} THEN done ELSE done + 1
  /\ driver \notin {"take", "exit"} => work \in WorkItem

\* One request at a time, and it is the pending one.
Asking(r) == prompt[r].pc \in {"announce", "waiting"}

PromptOK ==
  /\ driver # "tools" => \A r \in Requesters : prompt[r].pc = "off"
  /\ \A r, q \in Requesters : Asking(r) /\ Asking(q) => r = q
  /\ \A r \in Requesters : Asking(r) => prompt[r].id = pending_request_id /\ prompt[r].id # 0
  /\ pending_request_id # 0 => \E r \in Requesters : Asking(r)
  /\ \A r \in Requesters : prompt[r].pc # "off" => prompt[r].outcome = "none"
  /\ \A r \in Requesters : prompt[r].outcome = "answered" /\ "announce" \notin Faults
                              => prompt[r].got = prompt[r].id

\* The slot holds an answer to the pending request, if announcing cannot fail.
SlotOK == "announce" \notin Faults /\ response # NoResponse =>
            pending_request_id # 0 /\ response.id = pending_request_id

\* close waits for the driver, then for the interrupts.
CloseOK ==
  /\ closing <=> closer.pc # "open"
  /\ closer.pc \in {"users", "destroy", "closed"} => driver = "exit"
  /\ closer.pc \in {"destroy", "closed"} => kernel_users = 0
  /\ state = "destroying" <=> closer.pc = "closed"

\* The two counters count the threads that are inside.
Inside     == {i \in Interrupters : interrupter[i].pc # "out"}
Cancelling == {i \in Interrupters : interrupter[i].pc = "cancel"}

UsersOK ==
  /\ kernel_users = Cardinality(Inside)
  /\ in_flight_provider_cancels =
       Cardinality(Cancelling) + (IF driver = "stop_cancel" THEN 1 ELSE 0)
                               + (IF closer.pc = "cancel" THEN 1 ELSE 0)

HostedInv == /\ TypeOK /\ KernelOK /\ RunOK /\ StopOK /\ QueueOK /\ PromptOK /\ SlotOK
        /\ CloseOK /\ UsersOK

-----------------------------------------------------------------------------
(* The kernel and the driver                                                 *)

USE HostedBounds, InterruptersFinite
USE DEF sessionVars, runVars, compactVars, hostVars, flagVars, uiVars, driverVars, releaseFrame,
        Goto, Closes, At

\* Driver steps that leave the kernel alone.
LEMMA KernelStep ==
  ASSUME HostedInv, [Next]_vars
  PROVE  KernelOK'
  <1> USE DEF KernelOK, IdlePoints, EndPoints, ActivePoints, QuietPoints, RunSteps, RunActive
  <1>0. KernelOK /\ QueueOK /\ CloseOK /\ driver_run_id \in Nat
    BY DEF HostedInv, TypeOK
  <1>1. CASE Driver
    <2>1. CASE TakeWork \/ DriverExits
      BY <1>0, <2>1 DEF TakeWork, DriverExits, HasWork, HostedInv, RunOK
    <2>2. CASE Drained
      <3>1. work.kind \in {"submission", "rerun", "command", "compact"}
        BY <2>2 DEF Drained, HostedInv, QueueOK, WorkItem
      <3> QED  BY <1>0, <2>2, <3>1 DEF Drained, ProviderCancelsDrained, IsRun
    <2>3. CASE RewindBegins \/ RewindEnds
      BY <1>0, <2>3 DEF RewindBegins, RewindEnds, BeginMutation, EndMutation, Admits
    <2>4. CASE Admit \/ PublishRun
      BY <1>0, <2>4 DEF Admit, PublishRun, BeginRun, Admits
    <2>5. CASE DriverAborts \/ DriverCancelReturns \/ DriverReleases
      BY <1>0, <2>5 DEF DriverAborts, DriverCancelReturns, DriverReleases, AbortBorrow,
                        FinishProviderCancel
    <2>6. CASE Claim \/ Turn \/ TurnEnds
      BY <1>0, <2>6 DEF Claim, Turn, TurnEnds, ClaimAdmittedRun, WriteConversation
    <2>7. CASE RunReturns \/ RunFails \/ RunReturned
      BY <1>0, <2>7 DEF RunReturns, RunFails, RunReturned, FinishRunLifecycle, PoisonRun, EndRun
    <2>8. CASE Persist("persist", "flush", "finish") \/ Flush("flush", "finish") \/ FinishRun
      BY <1>0, <2>8 DEF Persist, Flush, FinishRun, SnapshotCommitted, FinishCheckpoint
    <2>9. CASE MutateBegins \/ MutateEnds
      BY <1>0, <2>9 DEF MutateBegins, MutateEnds, BeginMutation, EndMutation, Admits
    <2>10. CASE CompactBegins \/ CompactCommits \/ CompactEnds
      BY <1>0, <2>10 DEF CompactBegins, CompactCommits, CompactEnds, BeginCompact, CommitCompact,
                         FinishCompact
    <2>11. CASE Persist("cmd_persist", "cmd_flush", "cmd_done") \/ Flush("cmd_flush", "cmd_done")
                \/ CommandDone
      BY <1>0, <2>11 DEF Persist, Flush, CommandDone, SnapshotCommitted, FinishCheckpoint
    <2> QED  BY <1>1, <2>1, <2>2, <2>3, <2>4, <2>5, <2>6, <2>7, <2>8, <2>9, <2>10, <2>11
             DEF Driver
  <1>2. ASSUME NEW r \in Requesters, Requester(r) PROVE KernelOK'
    <2>1. UNCHANGED <<state, active_run_id, in_flight_provider_cancels, driver, driver_run_id>>
      BY <1>2 DEF Requester, AskReleased, Ask, Announce, AnnounceFails, TakeResponse,
                  EndsWithout, NoteCallbackFailure
    <2> QED  BY <1>0, <2>1
  <1>3. ASSUME NEW i \in Interrupters, Interrupt(i) \/ Interrupter(i) PROVE KernelOK'
    BY <1>0, <1>3 DEF Interrupt, Interrupter, InterruptAborts, InterruptCancelReturns,
                  InterruptReleases, LeaveKernel, AbortOutcome, AbortBorrow, FinishProviderCancel
  <1>4. CASE Close \/ Closer
    BY <1>0, <1>4 DEF Close, Closer, CloseAborts, CloseCancelReturns, CloseReleases, CloseJoins,
                  CloseDrops, CloseDestroys, AbortOutcome, AbortBorrow, FinishProviderCancel,
                  DestroySession, CloseOK
  <1>5. CASE Clients \/ Closed \/ UNCHANGED vars
    BY <1>0, <1>5 DEF Clients, Enqueue, Respond, Closed, vars
  <1> QED  BY <1>1, <1>2, <1>3, <1>4, <1>5 DEF Next


\* The Run the session reports, and its phase.
LEMMA RunStep ==
  ASSUME HostedInv, [Next]_vars
  PROVE  RunOK'
  <1> USE DEF RunOK, ActivePoints, RunSteps
  <1>0. RunOK /\ KernelOK /\ CloseOK
    BY DEF HostedInv
  <1>1. CASE Driver
    <2>1. CASE TakeWork \/ DriverExits
      BY <1>0, <2>1 DEF TakeWork, DriverExits, HasWork
    <2>2. CASE Drained
      <3>1. work.kind \in {"submission", "rerun", "command", "compact"}
        BY <2>2 DEF Drained, HostedInv, QueueOK, WorkItem
      <3> QED  BY <1>0, <2>2, <3>1 DEF Drained, IsRun
    <2>3. CASE RewindBegins \/ RewindEnds
      BY <1>0, <2>3 DEF RewindBegins, RewindEnds
    <2>4. CASE Admit \/ PublishRun
      BY <1>0, <2>4 DEF Admit, PublishRun
    <2>5. CASE DriverAborts \/ DriverCancelReturns \/ DriverReleases
      BY <1>0, <2>5 DEF DriverAborts, DriverCancelReturns, DriverReleases
    <2>6. CASE Claim \/ Turn \/ TurnEnds
      BY <1>0, <2>6 DEF Claim, Turn, TurnEnds
    <2>7. CASE RunReturns \/ RunFails \/ RunReturned
      BY <1>0, <2>7 DEF RunReturns, RunFails, RunReturned
    <2>8. CASE Persist("persist", "flush", "finish") \/ Flush("flush", "finish")
      BY <1>0, <2>8 DEF Persist, Flush
    <2>9. CASE FinishRun
      BY <1>0, <2>9 DEF FinishRun
    <2>10. CASE MutateBegins \/ MutateEnds \/ CompactBegins \/ CompactCommits \/ CompactEnds
      BY <1>0, <2>10 DEF MutateBegins, MutateEnds, CompactBegins, CompactCommits, CompactEnds
    <2>11. CASE Persist("cmd_persist", "cmd_flush", "cmd_done") \/ Flush("cmd_flush", "cmd_done")
      BY <1>0, <2>11 DEF Persist, Flush
    <2>12. CASE CommandDone
      BY <1>0, <2>12 DEF CommandDone, KernelOK, IdlePoints
    <2> QED  BY <1>1, <2>1, <2>2, <2>3, <2>4, <2>5, <2>6, <2>7, <2>8, <2>9, <2>10, <2>11, <2>12
             DEF Driver
  <1>2. ASSUME NEW r \in Requesters, Requester(r) PROVE RunOK'
    <2>1. UNCHANGED <<state, driver, driver_run_id, work, current_run_id, phase, closing>>
      BY <1>2 DEF Requester, AskReleased, Ask, Announce, AnnounceFails, TakeResponse,
                  EndsWithout, NoteCallbackFailure
    <2> QED  BY <1>0, <2>1 DEF IsRun
  <1>3. ASSUME NEW i \in Interrupters, Interrupt(i) \/ Interrupter(i) PROVE RunOK'
    <2>1. UNCHANGED <<driver, driver_run_id, work, current_run_id, phase, closing>>
      BY <1>3 DEF Interrupt, Interrupter, InterruptAborts, InterruptCancelReturns,
                  InterruptReleases, LeaveKernel
    <2>2. state' = "poisoned" => state = "poisoned"
      BY <1>3 DEF Interrupt, Interrupter, InterruptAborts, InterruptCancelReturns,
                  InterruptReleases, LeaveKernel, AbortBorrow, FinishProviderCancel
    <2> QED  BY <1>0, <2>1, <2>2 DEF IsRun
  <1>4. CASE Close
    BY <1>0, <1>4 DEF Close, IsRun, KernelOK
  <1>5. CASE Closer
    <2>1. UNCHANGED <<driver, driver_run_id, work, current_run_id, phase, closing>>
      BY <1>5 DEF Closer, CloseAborts, CloseCancelReturns, CloseReleases, CloseJoins,
                  CloseDrops, CloseDestroys
    <2>2. state' = "poisoned" => state = "poisoned"
      BY <1>5 DEF Closer, CloseAborts, CloseCancelReturns, CloseReleases, CloseJoins,
                  CloseDrops, CloseDestroys, AbortBorrow, FinishProviderCancel, DestroySession
    <2> QED  BY <1>0, <2>1, <2>2 DEF IsRun
  <1>6. CASE Clients \/ Closed \/ UNCHANGED vars
    BY <1>0, <1>6 DEF Clients, Enqueue, Respond, Closed, vars, IsRun
  <1> QED  BY <1>1, <1>2, <1>3, <1>4, <1>5, <1>6 DEF Next

\* What is known of every interrupt goes on being so when the Run the driver
\* is on and its interruption do.
InterruptOK(i) == interrupter[i].pc # "out" =>
  /\ interrupter[i].run \in 1 .. driver_run_id
  /\ driver \in RunSteps /\ interrupter[i].run = driver_run_id => run_interrupted

LEMMA InterruptsKept ==
  ASSUME StopOK, interrupter' = interrupter, driver_run_id' = driver_run_id,
         driver' \in RunSteps => driver \in RunSteps, run_interrupted' = run_interrupted
  PROVE  \A i \in Interrupters : InterruptOK(i)'
  BY DEF StopOK, InterruptOK

LEMMA StopStep ==
  ASSUME HostedInv, [Next]_vars
  PROVE  StopOK'
  <1> USE DEF RunSteps
  <1>0. /\ StopOK /\ RunOK /\ KernelOK /\ CloseOK /\ driver_run_id \in Nat
        /\ closing \in BOOLEAN /\ run_interrupted \in BOOLEAN
    BY DEF HostedInv, TypeOK
  <1>1. CASE Driver
    <2>1. CASE TakeWork
      BY <1>0, <2>1 DEF TakeWork, StopOK, KernelOK, EndPoints
    <2>2. CASE Drained
      <3>1. driver' \in {"admit", "rewind"} => driver_run_id' = driver_run_id + 1
        <4>1. work.kind \in {"submission", "rerun", "command", "compact"}
          BY <2>2 DEF Drained, HostedInv, QueueOK, WorkItem
        <4> QED  BY <2>2, <4>1 DEF Drained, IsRun
      <3>2. driver_run_id' \in {driver_run_id, driver_run_id + 1}
        BY <2>2 DEF Drained
      <3>3. driver' \in {"admit", "rewind", "mutate", "compact"}
        <4>1. work.kind \in {"submission", "rerun", "command", "compact"}
          BY <2>2 DEF Drained, HostedInv, QueueOK, WorkItem
        <4> QED  BY <2>2, <4>1 DEF Drained
      <3>4. UNCHANGED <<interrupter, run_interrupted, state, closing>>
        BY <2>2 DEF Drained
      <3> QED  BY <1>0, <3>1, <3>2, <3>3, <3>4 DEF StopOK
    <2>3. CASE RewindBegins \/ RewindEnds \/ Admit
      BY <1>0, <2>3 DEF RewindBegins, RewindEnds, Admit, BeginMutation, EndMutation, BeginRun,
                        StopOK
    <2>4. CASE PublishRun
      BY <1>0, <2>4 DEF PublishRun, StopOK
    <2>5. CASE DriverAborts
      BY <1>0, <2>5 DEF DriverAborts, AbortBorrow, StopOK
    <2>6. CASE DriverCancelReturns \/ DriverReleases
      BY <1>0, <2>6 DEF DriverCancelReturns, DriverReleases, FinishProviderCancel, StopOK
    <2>7. CASE Claim \/ Turn \/ TurnEnds
      BY <1>0, <2>7 DEF Claim, Turn, TurnEnds, ClaimAdmittedRun, WriteConversation, StopOK
    <2>8. CASE RunReturns \/ RunFails \/ RunReturned
      BY <1>0, <2>8 DEF RunReturns, RunFails, RunReturned, FinishRunLifecycle, PoisonRun, EndRun,
                        StopOK
    <2>9. CASE Persist("persist", "flush", "finish") \/ Flush("flush", "finish")
      BY <1>0, <2>9 DEF Persist, Flush, SnapshotCommitted, FinishCheckpoint, StopOK
    <2>10. CASE FinishRun \/ CommandDone \/ DriverExits
      BY <1>0, <2>10 DEF FinishRun, CommandDone, DriverExits, StopOK
    <2>11. CASE MutateBegins \/ MutateEnds \/ CompactBegins \/ CompactCommits \/ CompactEnds
      BY <1>0, <2>11 DEF MutateBegins, MutateEnds, CompactBegins, CompactCommits, CompactEnds,
                         BeginMutation, EndMutation, BeginCompact, CommitCompact, FinishCompact,
                         StopOK
    <2>12. CASE Persist("cmd_persist", "cmd_flush", "cmd_done") \/ Flush("cmd_flush", "cmd_done")
      BY <1>0, <2>12 DEF Persist, Flush, SnapshotCommitted, FinishCheckpoint, StopOK
    <2> QED  BY <1>1, <2>1, <2>2, <2>3, <2>4, <2>5, <2>6, <2>7, <2>8, <2>9, <2>10, <2>11, <2>12
             DEF Driver
  <1>2. ASSUME NEW r \in Requesters, Requester(r) PROVE StopOK'
    <2>1. UNCHANGED <<state, driver, driver_run_id, run_interrupted, closing, interrupter>>
      BY <1>2 DEF Requester, AskReleased, Ask, Announce, AnnounceFails, TakeResponse,
                  EndsWithout, NoteCallbackFailure
    <2> QED  BY <1>0, <2>1 DEF StopOK
  <1>3. ASSUME NEW i \in Interrupters, Interrupt(i) PROVE StopOK'
    <2>1. /\ UNCHANGED <<state, driver, driver_run_id, closing>>
          /\ run_interrupted => run_interrupted'
      BY <1>0, <1>3 DEF Interrupt
    <2>2. CASE current_run_id = 0
      BY <1>0, <1>3, <2>1, <2>2 DEF Interrupt, StopOK
    <2>3. CASE current_run_id # 0
      <3>1. current_run_id = driver_run_id /\ driver \in RunSteps
        BY <1>0, <2>3 DEF RunOK, ActivePoints
      <3>2. run_interrupted'
        BY <1>0, <1>3, <3>1 DEF Interrupt, RunOK
      <3>3. interrupter' = [interrupter EXCEPT ![i] = [pc |-> "abort", run |-> driver_run_id]]
        BY <1>3, <2>3, <3>1 DEF Interrupt
      <3>4. driver_run_id \in 1 .. driver_run_id
        BY <1>0, <2>3, <3>1
      <3> QED  BY <1>0, <2>1, <3>2, <3>3, <3>4 DEF StopOK, HostedInv, TypeOK
    <2> QED  BY <2>2, <2>3
  <1>4. ASSUME NEW i \in Interrupters, Interrupter(i) PROVE StopOK'
    <2>1. /\ UNCHANGED <<driver, driver_run_id, run_interrupted, closing>>
          /\ interrupter[i].pc # "out"
          /\ \E pc \in {"cancel", "release", "leave", "out"} :
               interrupter' = [interrupter EXCEPT ![i] =
                 [pc |-> pc, run |-> IF pc = "out" THEN 0 ELSE interrupter[i].run]]
      BY <1>4 DEF Interrupter, InterruptAborts, InterruptCancelReturns, InterruptReleases,
                  LeaveKernel
    <2>2. \A j \in Interrupters : InterruptOK(j)'
      <3>1. interrupter \in [Interrupters -> [pc : {"out", "abort", "cancel", "release", "leave"},
                                             run : Nat]]
        BY DEF HostedInv, TypeOK
      <3>2. SUFFICES ASSUME NEW j \in Interrupters PROVE InterruptOK(j)'
        OBVIOUS
      <3>3. CASE j # i
        <4>1. interrupter'[j] = interrupter[j]
          BY <2>1, <3>1, <3>3
        <4> QED  BY <1>0, <2>1, <4>1 DEF StopOK, InterruptOK
      <3>4. CASE j = i
        <4>1. interrupter'[i].pc = "out" \/ interrupter'[i].run = interrupter[i].run
          BY <2>1, <3>1
        <4> QED  BY <1>0, <2>1, <3>4, <4>1 DEF StopOK, InterruptOK
      <3> QED  BY <3>3, <3>4
    <2>3. state' = "abort_requested" => run_interrupted \/ closing
      <3>1. CASE state' = state
        BY <1>0, <3>1 DEF StopOK
      <3>2. CASE state' # state
        <4>1. /\ state = "running" /\ active_run_id \in {0, interrupter[i].run}
          BY <1>4, <3>2 DEF Interrupter, InterruptAborts, InterruptCancelReturns, AbortOutcome,
                            InterruptReleases, LeaveKernel, AbortBorrow, FinishProviderCancel
        <4>2. driver \in ActivePoints
          BY <1>0, <4>1 DEF HostedInv, TypeOK, DriverSteps, RunSteps, CommandSteps, KernelOK,
                            IdlePoints, EndPoints, ActivePoints
        <4>3. interrupter[i].run = driver_run_id /\ driver \in RunSteps
          BY <1>0, <4>1, <4>2 DEF KernelOK, ActivePoints
        <4> QED  BY <1>0, <2>1, <4>3 DEF StopOK
      <3> QED  BY <3>1, <3>2
    <2> QED  BY <1>0, <2>1, <2>2, <2>3 DEF StopOK, InterruptOK
  <1>5. CASE Close \/ Closer
    <2>1. /\ UNCHANGED <<driver, driver_run_id, run_interrupted, interrupter>>
          /\ closing' = TRUE \/ closing' = closing
      BY <1>5 DEF Close, Closer, CloseAborts, CloseCancelReturns, CloseReleases, CloseJoins,
                  CloseDrops, CloseDestroys
    <2>2. state' = "abort_requested" => state = "abort_requested" \/ closing
      BY <1>0, <1>5 DEF Close, Closer, CloseAborts, CloseCancelReturns, CloseReleases, CloseJoins,
                  CloseDrops, CloseDestroys, AbortBorrow, FinishProviderCancel, DestroySession,
                  CloseOK
    <2> QED  BY <1>0, <2>1, <2>2 DEF StopOK
  <1>6. CASE Clients \/ Closed \/ UNCHANGED vars
    BY <1>0, <1>6 DEF Clients, Enqueue, Respond, Closed, vars, StopOK
  <1> QED  BY <1>1, <1>2, <1>3, <1>4, <1>5, <1>6 DEF Next


\* The queue, while nothing is queued, taken or finished.
LEMMA QueueKept ==
  ASSUME QueueOK, UNCHANGED <<queue, work, accepted, done>>, Refusing => Refusing',
         driver' \in {"take", "exit"} <=> driver \in {"take", "exit"}
  PROVE  QueueOK'
  BY DEF QueueOK

LEMMA QueueStep ==
  ASSUME HostedInv, [Next]_vars
  PROVE  QueueOK'
  <1>0. /\ QueueOK /\ RunOK /\ CloseOK /\ work.id \in Nat /\ accepted \in Nat /\ done \in Nat
        /\ queue \in Seq(WorkItem) /\ Len(queue) \in Nat
    <2>1. queue \in Seq(WorkItem)
      BY DEF HostedInv, TypeOK
    <2>2. Len(queue) \in Nat
      BY <2>1, LenProperties
    <2> QED  BY <2>1, <2>2 DEF HostedInv, TypeOK, WorkItem, NoWork
  <1>1. CASE TakeWork
    <2>1. queue # << >> /\ ~Refusing /\ driver = "take" /\ driver' = "drain"
      BY <1>1 DEF TakeWork, HasWork, Refusing
    <2>2. work' = Head(queue) /\ queue' = Tail(queue) /\ UNCHANGED <<accepted, done>>
      BY <1>1 DEF TakeWork
    <2>3. /\ Head(queue) \in WorkItem /\ Head(queue) = queue[1] /\ 1 \in 1 .. Len(queue)
          /\ Len(Tail(queue)) = Len(queue) - 1
          /\ \A k \in 1 .. Len(Tail(queue)) : Tail(queue)[k] = queue[k + 1]
      BY <1>0, <2>1, HeadTailProperties, EmptySeq
    <2>4. work'.id = work.id + 1
      BY <1>0, <2>2, <2>3 DEF QueueOK
    <2>5. \A k \in 1 .. Len(queue') : queue'[k].id = work'.id + k
      <3>1. ASSUME NEW k \in 1 .. Len(queue') PROVE k + 1 \in 1 .. Len(queue)
        BY <1>0, <2>2, <2>3
      <3> QED  BY <1>0, <2>2, <2>3, <2>4, <3>1 DEF QueueOK
    <2>6. accepted' = work'.id + Len(queue')
      BY <1>0, <2>1, <2>2, <2>3, <2>4 DEF QueueOK
    <2>7. work'.id = done' + 1 /\ work' \in WorkItem
      BY <1>0, <2>1, <2>2, <2>3, <2>4 DEF QueueOK
    <2>8. WorkItem' = WorkItem
      BY DEF WorkItem
    <2> QED  BY <2>1, <2>5, <2>6, <2>7, <2>8 DEF QueueOK
  <1>2. CASE Driver /\ ~TakeWork /\ ~FinishRun /\ ~CommandDone
    <2>1. UNCHANGED <<queue, work, accepted, done, closing, phase>>
      BY <1>2 DEF Driver, DriverExits, Drained, RewindBegins, RewindEnds, Admit, PublishRun,
            DriverAborts, DriverCancelReturns, DriverReleases, Claim, Turn, TurnEnds, RunReturns,
            RunFails, RunReturned, Persist, Flush, MutateBegins, MutateEnds, CompactBegins,
            CompactCommits, CompactEnds
    <2>2. driver' \in {"take", "exit"} <=> driver \in {"take", "exit"}
      <3>1. CASE Drained
        <4>1. work.kind \in {"submission", "rerun", "command", "compact"}
          BY <3>1 DEF Drained, HostedInv, QueueOK, WorkItem
        <4> QED  BY <3>1, <4>1 DEF Drained
      <3>2. CASE ~Drained
        BY <1>2, <3>2 DEF Driver, DriverExits, RewindBegins, RewindEnds, Admit, PublishRun,
              DriverAborts, DriverCancelReturns, DriverReleases, Claim, Turn, TurnEnds,
              RunReturns, RunFails, RunReturned, Persist, Flush, MutateBegins, MutateEnds,
              CompactBegins, CompactCommits, CompactEnds
      <3> QED  BY <3>1, <3>2
    <2> QED  BY <1>0, <2>1, <2>2, QueueKept DEF Refusing
  <1>3. CASE FinishRun
    <2>1. driver = "finish" /\ driver' = "take" /\ work' = work /\ done' = work.id
          /\ accepted' = accepted /\ closing' = closing
      BY <1>3 DEF FinishRun
    <2>2. \/ queue' = << >> /\ phase' = "poisoned"
          \/ queue' = queue /\ (Refusing => Refusing')
      BY <1>0, <1>3 DEF FinishRun, QueueDropped, Refusing, RunOK, RunSteps
    <2>3. Len(<< >>) = 0
      OBVIOUS
    <2> QED  BY <1>0, <2>1, <2>2, <2>3 DEF QueueOK, Refusing
  <1>4. CASE CommandDone
    BY <1>0, <1>4 DEF CommandDone, QueueOK, Refusing
  <1>5. ASSUME NEW kind \in WorkKinds, Enqueue(kind) PROVE QueueOK'
    <2> DEFINE item == [id |-> accepted + 1, kind |-> kind]
    <2>1. item \in WorkItem
      BY <1>0, <1>5 DEF Enqueue, WorkItem
    <2>2. /\ queue' = Append(queue, item) /\ accepted' = accepted + 1 /\ ~Refusing
          /\ UNCHANGED <<work, done, driver, closing, phase>>
      BY <1>5 DEF Enqueue, Refusing
    <2>3. item.id = accepted + 1
      OBVIOUS
    <2> HIDE DEF item
    <2>4. /\ Len(queue') = Len(queue) + 1 /\ queue'[Len(queue) + 1] = item
          /\ \A k \in 1 .. Len(queue) : queue'[k] = queue[k]
      BY <1>0, <2>1, <2>2, AppendProperties
    <2>5. accepted = work.id + Len(queue)
      BY <1>0, <2>2 DEF QueueOK
    <2>6. \A k \in 1 .. Len(queue') : queue'[k].id = work'.id + k
      <3>1. SUFFICES ASSUME NEW k \in 1 .. Len(queue') PROVE queue'[k].id = work'.id + k
        OBVIOUS
      <3>2. CASE k = Len(queue) + 1
        BY <1>0, <2>2, <2>3, <2>4, <2>5, <3>2
      <3>3. CASE k # Len(queue) + 1
        <4>1. k \in 1 .. Len(queue)
          BY <1>0, <2>4, <3>1, <3>3
        <4> QED  BY <1>0, <2>2, <2>4, <4>1 DEF QueueOK
      <3> QED  BY <3>2, <3>3
    <2>7. accepted' = work'.id + Len(queue')
      BY <1>0, <2>2, <2>4, <2>5
    <2> QED  BY <1>0, <2>2, <2>6, <2>7, QueueKept DEF QueueOK, WorkItem
  <1>6. ASSUME NEW r \in Requesters, Requester(r) PROVE QueueOK'
    <2>1. UNCHANGED <<queue, work, accepted, done, driver, closing, phase>>
      BY <1>6 DEF Requester, AskReleased, Ask, Announce, AnnounceFails, TakeResponse
    <2> QED  BY <1>0, <2>1, QueueKept DEF Refusing
  <1>7. ASSUME NEW i \in Interrupters, Interrupt(i) \/ Interrupter(i) PROVE QueueOK'
    <2>1. UNCHANGED <<queue, work, accepted, done, driver, closing, phase>>
      BY <1>7 DEF Interrupt, Interrupter, InterruptAborts, InterruptCancelReturns,
                  InterruptReleases, LeaveKernel
    <2> QED  BY <1>0, <2>1, QueueKept DEF Refusing
  <1>8. CASE Close \/ (Closer /\ ~CloseDrops)
    <2>1. UNCHANGED <<queue, work, accepted, done, driver>>
      BY <1>8 DEF Close, Closer, CloseAborts, CloseCancelReturns, CloseReleases, CloseJoins,
                  CloseDestroys
    <2>2. Refusing => Refusing'
      BY <1>8 DEF Close, Closer, CloseAborts, CloseCancelReturns, CloseReleases, CloseJoins,
                  CloseDestroys, Refusing
    <2> QED  BY <1>0, <2>1, <2>2, QueueKept
  <1>9. CASE CloseDrops
    <2>1. Len(<< >>) = 0
      OBVIOUS
    <2> QED  BY <1>0, <1>9, <2>1 DEF CloseDrops, CloseOK, QueueOK, Refusing
  <1>10. CASE (\E id \in 1 .. next_request_id, readable \in BOOLEAN : Respond(id, readable))
              \/ Closed \/ UNCHANGED vars
    <2>1. UNCHANGED <<queue, work, accepted, done, driver, closing, phase>>
      BY <1>10 DEF Respond, Closed, vars
    <2> QED  BY <1>0, <2>1, QueueKept DEF Refusing
  <1> QED  BY <1>1, <1>2, <1>3, <1>4, <1>5, <1>6, <1>7, <1>8, <1>9, <1>10 DEF Next, Clients

\* What a step of a prompt writes.
PromptRec == [pc : {"off", "want", "announce", "waiting"}, id : Nat,
              kind : PromptKinds \cup {"none"},
              outcome : {"none", "answered", "malformed", "cancelled", "expired", "failed"},
              got : Nat]

LEMMA PromptWrites ==
  ASSUME prompt \in [Requesters -> PromptRec], NEW r \in Requesters
  PROVE  /\ \A outcome, got : Ends(r, outcome, got) =>
              /\ prompt'[r].pc = "off" /\ prompt'[r].outcome = outcome
              /\ prompt'[r].got = got /\ prompt'[r].id = prompt[r].id
              /\ \A q \in Requesters : q # r => prompt'[q] = prompt[q]
         /\ Ask(r) =>
              /\ prompt'[r].pc = "announce" /\ prompt'[r].id = next_request_id
              /\ prompt'[r].outcome = prompt[r].outcome
              /\ \A q \in Requesters : q # r => prompt'[q] = prompt[q]
         /\ Announce(r) =>
              /\ prompt'[r].pc = "waiting" /\ prompt'[r].id = prompt[r].id
              /\ prompt'[r].outcome = prompt[r].outcome /\ prompt'[r].got = prompt[r].got
              /\ \A q \in Requesters : q # r => prompt'[q] = prompt[q]
  <1>1. prompt[r] \in PromptRec /\ DOMAIN prompt = Requesters
    OBVIOUS
  <1>2. ASSUME NEW outcome, NEW got, Ends(r, outcome, got)
        PROVE  /\ prompt'[r].pc = "off" /\ prompt'[r].outcome = outcome
               /\ prompt'[r].got = got /\ prompt'[r].id = prompt[r].id
               /\ \A q \in Requesters : q # r => prompt'[q] = prompt[q]
    BY <1>1, <1>2 DEF Ends, PromptRec
  <1>3. ASSUME Ask(r)
        PROVE  /\ prompt'[r].pc = "announce" /\ prompt'[r].id = next_request_id
               /\ prompt'[r].outcome = prompt[r].outcome
               /\ \A q \in Requesters : q # r => prompt'[q] = prompt[q]
    <2> DEFINE new == [prompt[r] EXCEPT !.pc = "announce", !.id = next_request_id]
    <2>1. new.pc = "announce" /\ new.id = next_request_id /\ new.outcome = prompt[r].outcome
      BY <1>1 DEF PromptRec
    <2>2. prompt' = [prompt EXCEPT ![r] = new]
      BY <1>3 DEF Ask
    <2> HIDE DEF new
    <2>3. prompt'[r] = new /\ \A q \in Requesters : q # r => prompt'[q] = prompt[q]
      BY <1>1, <2>2
    <2> QED  BY <1>3, <2>1, <2>3
  <1>4. ASSUME Announce(r)
        PROVE  /\ prompt'[r].pc = "waiting" /\ prompt'[r].id = prompt[r].id
               /\ prompt'[r].outcome = prompt[r].outcome /\ prompt'[r].got = prompt[r].got
               /\ \A q \in Requesters : q # r => prompt'[q] = prompt[q]
    <2> DEFINE new == [prompt[r] EXCEPT !.pc = "waiting"]
    <2>1. /\ new.pc = "waiting" /\ new.id = prompt[r].id
          /\ new.outcome = prompt[r].outcome /\ new.got = prompt[r].got
      BY <1>1 DEF PromptRec
    <2>2. prompt' = [prompt EXCEPT ![r] = new]
      BY <1>1, <1>4 DEF Announce
    <2> HIDE DEF new
    <2>3. prompt'[r] = new /\ \A q \in Requesters : q # r => prompt'[q] = prompt[q]
      BY <1>1, <2>2
    <2> QED  BY <1>4, <2>1, <2>3
  <1> QED  BY <1>2, <1>3, <1>4, Zenon

LEMMA PromptTyped == TypeOK => prompt \in [Requesters -> PromptRec]
  BY DEF TypeOK, PromptRec

\* The prompts, while nobody asks, is answered or starts a turn.
LEMMA PromptKept ==
  ASSUME PromptOK, UNCHANGED <<prompt, pending_request_id>>,
         driver = "tools" => driver' = "tools" \/ \A r \in Requesters : prompt[r].pc = "off"
  PROVE  PromptOK'
  BY DEF PromptOK, Asking

\* The end of the request that is pending, or of one that was not yet made.
LEMMA PromptEnds ==
  ASSUME HostedInv, NEW r \in Requesters, prompt[r].pc # "off", NEW outcome, NEW got,
         Ends(r, outcome, got), driver' = driver,
         outcome = "answered" /\ "announce" \notin Faults => got = prompt[r].id,
         \/ Asking(r) /\ pending_request_id' = 0
         \/ prompt[r].pc = "want" /\ SerialFree /\ pending_request_id' = pending_request_id
  PROVE  PromptOK'
  <1>1. PromptOK /\ prompt \in [Requesters -> PromptRec]
    BY PromptTyped DEF HostedInv
  <1>2. /\ prompt'[r].pc = "off" /\ prompt'[r].outcome = outcome
        /\ prompt'[r].got = got /\ prompt'[r].id = prompt[r].id
        /\ \A q \in Requesters : q # r => prompt'[q] = prompt[q]
    BY <1>1, PromptWrites
  <1>3. \A q \in Requesters : Asking(q)' <=> q # r /\ Asking(q)
    BY <1>2 DEF Asking
  <1>4. \A q \in Requesters : Asking(q)' => prompt'[q].id = pending_request_id' /\ prompt'[q].id # 0
    BY <1>1, <1>2, <1>3 DEF PromptOK, Asking, SerialFree
  <1>5. pending_request_id' # 0 => \E q \in Requesters : Asking(q)'
    BY <1>1, <1>2, <1>3 DEF PromptOK, Asking, SerialFree
  <1>6. \A q \in Requesters : prompt'[q].outcome = "answered" /\ "announce" \notin Faults
                                => prompt'[q].got = prompt'[q].id
    BY <1>1, <1>2 DEF PromptOK
  <1> QED  BY <1>1, <1>2, <1>3, <1>4, <1>5, <1>6 DEF PromptOK

LEMMA PromptStep ==
  ASSUME HostedInv, [Next]_vars
  PROVE  PromptOK'
  <1>0. PromptOK /\ SlotOK /\ prompt \in [Requesters -> PromptRec] /\ next_request_id \in Nat \ {0}
    BY PromptTyped DEF HostedInv, TypeOK
  <1>1. CASE Driver /\ ~Claim /\ ~Turn
    <2>1. UNCHANGED <<prompt, pending_request_id>>
      BY <1>1 DEF Driver, TakeWork, DriverExits, Drained, RewindBegins, RewindEnds, Admit,
            PublishRun, DriverAborts, DriverCancelReturns, DriverReleases, TurnEnds, RunReturns,
            RunFails, RunReturned, Persist, Flush, FinishRun, MutateBegins, MutateEnds,
            CompactBegins, CompactCommits, CompactEnds, CommandDone
    <2>2. driver = "tools" => \A r \in Requesters : prompt[r].pc = "off"
      BY <1>1 DEF Driver, TakeWork, DriverExits, Drained, RewindBegins, RewindEnds, Admit,
            PublishRun, DriverAborts, DriverCancelReturns, DriverReleases, TurnEnds, RunReturns,
            RunFails, RunReturned, Persist, Flush, FinishRun, MutateBegins, MutateEnds,
            CompactBegins, CompactCommits, CompactEnds, CommandDone
    <2> QED  BY <1>0, <2>1, <2>2, PromptKept
  <1>2. CASE Claim
    <2>1. \A r \in Requesters : prompt'[r] = NoPrompt
      BY <1>2 DEF Claim
    <2>2. pending_request_id' = pending_request_id /\ driver = "claim"
      BY <1>2 DEF Claim
    <2> QED  BY <1>0, <2>1, <2>2 DEF PromptOK, Asking, NoPrompt
  <1>3. CASE Turn
    <2>1. \A r \in Requesters :
            prompt'[r].pc \in {"off", "want"} /\ prompt'[r].outcome = "none"
      <3>1. PICK asking \in [Requesters -> PromptKinds \cup {"none"}] :
              prompt' = [q \in Requesters |->
                           IF asking[q] = "none" THEN NoPrompt
                           ELSE [NoPrompt EXCEPT !.pc = "want", !.kind = asking[q]]]
        BY <1>3 DEF Turn
      <3>2. \A kind : /\ [NoPrompt EXCEPT !.pc = "want", !.kind = kind].pc = "want"
                      /\ [NoPrompt EXCEPT !.pc = "want", !.kind = kind].outcome = "none"
        BY DEF NoPrompt
      <3> QED  BY <3>1, <3>2 DEF NoPrompt
    <2>2. pending_request_id' = pending_request_id /\ driver = "loop" /\ driver' = "tools"
      BY <1>3 DEF Turn
    <2> QED  BY <1>0, <2>1, <2>2 DEF PromptOK, Asking
  <1>4. ASSUME NEW r \in Requesters, AskReleased(r) PROVE PromptOK'
    BY <1>4, PromptEnds DEF AskReleased, EndsWithout
  <1>5. ASSUME NEW r \in Requesters, Ask(r) PROVE PromptOK'
    <2>1. /\ prompt'[r].pc = "announce" /\ prompt'[r].id = next_request_id
          /\ prompt'[r].outcome = prompt[r].outcome
          /\ \A q \in Requesters : q # r => prompt'[q] = prompt[q]
      BY <1>0, <1>5, PromptWrites
    <2>2. /\ prompt[r].pc = "want" /\ SerialFree /\ driver' = driver
          /\ pending_request_id' = next_request_id
      BY <1>5 DEF Ask
    <2>3. \A q \in Requesters : Asking(q)' <=> q = r
      BY <2>1, <2>2 DEF Asking, SerialFree
    <2> QED  BY <1>0, <2>1, <2>2, <2>3 DEF PromptOK
  <1>6. ASSUME NEW r \in Requesters, Announce(r) PROVE PromptOK'
    <2>1. /\ prompt'[r].pc = "waiting" /\ prompt'[r].id = prompt[r].id
          /\ prompt'[r].outcome = prompt[r].outcome /\ prompt'[r].got = prompt[r].got
          /\ \A q \in Requesters : q # r => prompt'[q] = prompt[q]
      BY <1>0, <1>6, PromptWrites
    <2>2. prompt[r].pc = "announce" /\ UNCHANGED <<driver, pending_request_id>>
      BY <1>6 DEF Announce
    <2>3. \A q \in Requesters : Asking(q)' <=> Asking(q)
      BY <2>1, <2>2 DEF Asking
    <2> QED  BY <1>0, <2>1, <2>2, <2>3 DEF PromptOK
  <1>7. ASSUME NEW r \in Requesters, AnnounceFails(r) PROVE PromptOK'
    BY <1>7, PromptEnds DEF AnnounceFails, EndsWithout, Asking
  <1>8. ASSUME NEW r \in Requesters, TakeResponse(r) PROVE PromptOK'
    <2>1. prompt[r].pc = "waiting" /\ driver' = driver /\ pending_request_id' = 0 /\ Asking(r)
      BY <1>8 DEF TakeResponse, Asking
    <2>2. CASE ResponseStands /\ response.readable
      <3>1. Ends(r, "answered", response.id)
        BY <1>8, <2>2 DEF TakeResponse
      <3>2. "announce" \notin Faults => response.id = prompt[r].id
        BY <1>0, <2>1, <2>2 DEF ResponseStands, SlotOK, PromptOK
      <3> QED  BY <2>1, <3>1, <3>2, PromptEnds
    <2>3. CASE ~(ResponseStands /\ response.readable)
      <3>1. \E outcome \in {"malformed", "cancelled", "expired"} : Ends(r, outcome, 0)
        BY <1>8, <2>3 DEF TakeResponse, EndsWithout
      <3> QED  BY <2>1, <3>1, PromptEnds
    <2> QED  BY <2>2, <2>3
  <1>9. ASSUME NEW i \in Interrupters, Interrupt(i) \/ Interrupter(i) PROVE PromptOK'
    <2>1. UNCHANGED <<prompt, pending_request_id, driver>>
      BY <1>9 DEF Interrupt, Interrupter, InterruptAborts, InterruptCancelReturns,
                  InterruptReleases, LeaveKernel
    <2> QED  BY <1>0, <2>1, PromptKept
  <1>10. CASE Close \/ Closer \/ Clients \/ Closed \/ UNCHANGED vars
    <2>1. UNCHANGED <<prompt, pending_request_id, driver>>
      BY <1>10 DEF Close, Closer, CloseAborts, CloseCancelReturns, CloseReleases, CloseJoins,
                  CloseDrops, CloseDestroys, Clients, Enqueue, Respond, Closed, vars
    <2> QED  BY <1>0, <2>1, PromptKept
  <1> QED  BY <1>1, <1>2, <1>3, <1>4, <1>5, <1>6, <1>7, <1>8, <1>9, <1>10 DEF Next, Requester

LEMMA SlotStep ==
  ASSUME HostedInv, [Next]_vars
  PROVE  SlotOK'
  <1> SUFFICES ASSUME "announce" \notin Faults, response' # NoResponse
               PROVE  pending_request_id' # 0 /\ response'.id = pending_request_id'
    BY DEF SlotOK
  <1>0. SlotOK /\ PromptOK
    BY DEF HostedInv
  <1>1. ASSUME UNCHANGED <<response, pending_request_id>>
        PROVE  pending_request_id' # 0 /\ response'.id = pending_request_id'
    BY <1>0, <1>1 DEF SlotOK
  <1>2. CASE Driver
    BY <1>1, <1>2 DEF Driver, TakeWork, DriverExits, Drained, RewindBegins, RewindEnds, Admit,
         PublishRun, DriverAborts, DriverCancelReturns, DriverReleases, Claim, Turn, TurnEnds,
         RunReturns, RunFails, RunReturned, Persist, Flush, FinishRun, MutateBegins, MutateEnds,
         CompactBegins, CompactCommits, CompactEnds, CommandDone
  <1>3. ASSUME NEW r \in Requesters, Requester(r)
        PROVE  pending_request_id' # 0 /\ response'.id = pending_request_id'
    <2>1. CASE Ask(r)
      <3>1. SerialFree /\ response' = response
        BY <2>1 DEF Ask
      <3> QED  BY <1>0, <3>1 DEF PromptOK, SlotOK, SerialFree, Asking
    <2>2. CASE ~Ask(r)
      BY <1>1, <1>3, <2>2 DEF Requester, AskReleased, Announce, AnnounceFails, TakeResponse,
                              EmptySlot
    <2> QED  BY <2>1, <2>2
  <1>4. ASSUME NEW i \in Interrupters, Interrupt(i) \/ Interrupter(i)
        PROVE  pending_request_id' # 0 /\ response'.id = pending_request_id'
    BY <1>1, <1>4 DEF Interrupt, Interrupter, InterruptAborts, InterruptCancelReturns,
                      InterruptReleases, LeaveKernel
  <1>5. CASE Close \/ Closer \/ Closed \/ UNCHANGED vars
    BY <1>1, <1>5 DEF Close, Closer, CloseAborts, CloseCancelReturns, CloseReleases, CloseJoins,
                      CloseDrops, CloseDestroys, Closed, vars
  <1>6. CASE Clients
    <2>1. ASSUME NEW id, NEW readable, Respond(id, readable)
          PROVE  pending_request_id' # 0 /\ response'.id = pending_request_id'
      BY <2>1 DEF Respond
    <2>2. ASSUME NEW kind, Enqueue(kind)
          PROVE  pending_request_id' # 0 /\ response'.id = pending_request_id'
      BY <1>1, <2>2 DEF Enqueue
    <2> QED  BY <1>6, <2>1, <2>2 DEF Clients
  <1> QED  BY <1>2, <1>3, <1>4, <1>5, <1>6 DEF Next

\* A thread is inside the kernel only while it is counted.
LEMMA InsideFinite == IsFiniteSet(Inside) /\ IsFiniteSet(Cancelling)
  <1>1. Inside \subseteq Interrupters /\ Cancelling \subseteq Interrupters
    BY DEF Inside, Cancelling
  <1> QED  BY <1>1, FS_Subset

LEMMA NobodyInside ==
  ASSUME UsersOK, kernel_users = 0
  PROVE  Inside = {}
  BY InsideFinite, FS_EmptySet DEF UsersOK

LEMMA CloseStep ==
  ASSUME HostedInv, [Next]_vars
  PROVE  CloseOK'
  <1>0. /\ CloseOK /\ closing \in BOOLEAN
        /\ closer \in [pc : {"open", "abort", "cancel", "release", "join", "users",
                             "destroy", "closed"}, run : Nat]
    BY DEF HostedInv, TypeOK
  <1>1. CASE Driver
    <2>1. UNCHANGED <<closing, closer, kernel_users>>
      BY <1>1 DEF Driver, TakeWork, DriverExits, Drained, RewindBegins, RewindEnds, Admit,
           PublishRun, DriverAborts, DriverCancelReturns, DriverReleases, Claim, Turn, TurnEnds,
           RunReturns, RunFails, RunReturned, Persist, Flush, FinishRun, MutateBegins, MutateEnds,
           CompactBegins, CompactCommits, CompactEnds, CommandDone
    <2>2. driver # "exit"
      BY <1>1 DEF Driver, TakeWork, DriverExits, Drained, RewindBegins, RewindEnds, Admit,
           PublishRun, DriverAborts, DriverCancelReturns, DriverReleases, Claim, Turn, TurnEnds,
           RunReturns, RunFails, RunReturned, Persist, Flush, FinishRun, MutateBegins, MutateEnds,
           CompactBegins, CompactCommits, CompactEnds, CommandDone
    <2>3. closer.pc \notin {"users", "destroy", "closed"} /\ state # "destroying"
      BY <1>0, <2>2 DEF CloseOK
    <2>4. CASE TakeWork \/ DriverExits \/ Drained \/ RewindBegins \/ RewindEnds \/ Admit
               \/ PublishRun \/ DriverAborts \/ DriverCancelReturns \/ DriverReleases
      <3>1. state' # "destroying"
        BY <2>3, <2>4 DEF TakeWork, DriverExits, Drained, RewindBegins, RewindEnds, Admit,
             PublishRun, DriverAborts, DriverCancelReturns, DriverReleases, BeginMutation,
             EndMutation, BeginRun, AbortBorrow, FinishProviderCancel
      <3> QED  BY <1>0, <2>1, <2>3, <3>1 DEF CloseOK
    <2>5. CASE Claim \/ Turn \/ TurnEnds \/ RunReturns \/ RunFails \/ RunReturned
               \/ Persist("persist", "flush", "finish") \/ Flush("flush", "finish") \/ FinishRun
      <3>1. state' # "destroying"
        BY <2>3, <2>5 DEF Claim, Turn, TurnEnds, RunReturns, RunFails, RunReturned, Persist,
             Flush, FinishRun, ClaimAdmittedRun, WriteConversation, FinishRunLifecycle, PoisonRun,
             EndRun, SnapshotCommitted, FinishCheckpoint
      <3> QED  BY <1>0, <2>1, <2>3, <3>1 DEF CloseOK
    <2>6. CASE MutateBegins \/ MutateEnds \/ CompactBegins \/ CompactCommits \/ CompactEnds
               \/ Persist("cmd_persist", "cmd_flush", "cmd_done")
               \/ Flush("cmd_flush", "cmd_done") \/ CommandDone
      <3>1. state' # "destroying"
        BY <2>3, <2>6 DEF MutateBegins, MutateEnds, CompactBegins, CompactCommits, CompactEnds,
             Persist, Flush, CommandDone, BeginMutation, EndMutation, BeginCompact, CommitCompact,
             FinishCompact, SnapshotCommitted, FinishCheckpoint
      <3> QED  BY <1>0, <2>1, <2>3, <3>1 DEF CloseOK
    <2> QED  BY <1>1, <2>4, <2>5, <2>6 DEF Driver
  <1>2. ASSUME NEW r \in Requesters, Requester(r) PROVE CloseOK'
    <2>1. UNCHANGED <<closing, closer, kernel_users, state, driver>>
      BY <1>2 DEF Requester, AskReleased, Ask, Announce, AnnounceFails, TakeResponse,
                  EndsWithout, NoteCallbackFailure
    <2> QED  BY <1>0, <2>1 DEF CloseOK
  <1>3. ASSUME NEW i \in Interrupters, Interrupt(i) PROVE CloseOK'
    BY <1>0, <1>3 DEF Interrupt, CloseOK
  <1>4. ASSUME NEW i \in Interrupters, Interrupter(i) PROVE CloseOK'
    <2>1. kernel_users # 0
      BY <1>4, NobodyInside DEF HostedInv, Inside, Interrupter, InterruptAborts,
           InterruptCancelReturns, InterruptReleases, LeaveKernel
    <2>2. UNCHANGED <<closing, closer, driver>>
          /\ (state' = "destroying" <=> state = "destroying")
      BY <1>4 DEF Interrupter, InterruptAborts, InterruptCancelReturns, InterruptReleases,
                  LeaveKernel, AbortOutcome, AbortBorrow, FinishProviderCancel
    <2> QED  BY <1>0, <2>1, <2>2 DEF CloseOK
  <1>5. CASE Close
    BY <1>0, <1>5 DEF Close, CloseOK
  <1>6. CASE Closer
    BY <1>0, <1>6 DEF Closer, CloseAborts, CloseCancelReturns, CloseReleases, CloseJoins,
         CloseDrops, CloseDestroys, CloseOK, AbortOutcome, AbortBorrow, FinishProviderCancel,
         DestroySession, DriverGone, KernelIdle
  <1>7. CASE Clients \/ Closed \/ UNCHANGED vars
    <2>1. UNCHANGED <<closing, closer, kernel_users, state, driver>>
      BY <1>7 DEF Clients, Enqueue, Respond, Closed, vars
    <2> QED  BY <1>0, <2>1 DEF CloseOK
  <1> QED  BY <1>1, <1>2, <1>3, <1>4, <1>5, <1>6, <1>7 DEF Next

\* How the sets of threads that are counted change when one moves.
InterrupterRec == [pc : {"out", "abort", "cancel", "release", "leave"}, run : Nat]

Moves(i, pc) ==
  /\ interrupter'[i].pc = pc
  /\ \A j \in Interrupters : j # i => interrupter'[j] = interrupter[j]

LEMMA InterrupterMoves ==
  ASSUME NEW i \in Interrupters, NEW pc, Moves(i, pc)
  PROVE  /\ pc # "out" => Inside' = Inside \cup {i}
         /\ pc = "out" => Inside' = Inside \ {i}
         /\ pc = "cancel" => Cancelling' = Cancelling \cup {i}
         /\ pc # "cancel" => Cancelling' = Cancelling \ {i}
  BY DEF Moves, Inside, Cancelling

LEMMA InsideCounts ==
  ASSUME UsersOK, NEW i \in Interrupters
  PROVE  /\ i \notin Inside /\ Inside' = Inside \cup {i}
              => Cardinality(Inside') = kernel_users + 1
         /\ i \in Inside /\ Inside' = Inside \cup {i} => Cardinality(Inside') = kernel_users
         /\ i \in Inside /\ Inside' = Inside \ {i} => Cardinality(Inside') = kernel_users - 1
         /\ kernel_users \in Nat
  <1>1. Cardinality(Inside) \in Nat
    BY InsideFinite, FS_CardinalityType
  <1>2. ASSUME i \notin Inside
        PROVE  Cardinality(Inside \cup {i}) = Cardinality(Inside) + 1
    BY <1>2, InsideFinite, FS_AddElement
  <1>3. ASSUME i \in Inside
        PROVE  Cardinality(Inside \ {i}) = Cardinality(Inside) - 1 /\ Inside \cup {i} = Inside
    BY <1>3, InsideFinite, FS_RemoveElement
  <1> QED  BY <1>1, <1>2, <1>3 DEF UsersOK

LEMMA CancellingCounts ==
  ASSUME NEW i \in Interrupters
  PROVE  /\ i \notin Cancelling /\ Cancelling' = Cancelling \cup {i}
              => Cardinality(Cancelling') = Cardinality(Cancelling) + 1
         /\ i \in Cancelling /\ Cancelling' = Cancelling \ {i}
              => Cardinality(Cancelling') = Cardinality(Cancelling) - 1
         /\ i \notin Cancelling /\ Cancelling' = Cancelling \ {i}
              => Cardinality(Cancelling') = Cardinality(Cancelling)
         /\ Cardinality(Cancelling) \in Nat
  <1>1. Cardinality(Cancelling) \in Nat
    BY InsideFinite, FS_CardinalityType
  <1>2. ASSUME i \notin Cancelling
        PROVE  /\ Cardinality(Cancelling \cup {i}) = Cardinality(Cancelling) + 1
               /\ Cancelling \ {i} = Cancelling
    BY <1>2, InsideFinite, FS_AddElement
  <1>3. ASSUME i \in Cancelling
        PROVE  Cardinality(Cancelling \ {i}) = Cardinality(Cancelling) - 1
    BY <1>3, InsideFinite, FS_RemoveElement
  <1> QED  BY <1>1, <1>2, <1>3

\* The provider cancels that are not an interrupt's.
OwnCancels == (IF driver = "stop_cancel" THEN 1 ELSE 0) + (IF closer.pc = "cancel" THEN 1 ELSE 0)

LEMMA UsersKept ==
  ASSUME HostedInv, UNCHANGED <<interrupter, kernel_users>>,
         in_flight_provider_cancels' - in_flight_provider_cancels = OwnCancels' - OwnCancels,
         in_flight_provider_cancels' \in Nat
  PROVE  UsersOK'
  <1>1. Inside' = Inside /\ Cancelling' = Cancelling
    BY DEF Inside, Cancelling
  <1>2. Cardinality(Cancelling) \in Nat /\ in_flight_provider_cancels \in Nat
    BY InsideFinite, FS_CardinalityType DEF HostedInv, TypeOK, SessionTypeOK
  <1> QED  BY <1>1, <1>2 DEF UsersOK, HostedInv, OwnCancels

LEMMA UsersStep ==
  ASSUME HostedInv, [Next]_vars
  PROVE  UsersOK'
  <1>0. /\ UsersOK /\ CloseOK /\ in_flight_provider_cancels \in Nat
        /\ interrupter \in [Interrupters -> InterrupterRec]
        /\ closer \in [pc : {"open", "abort", "cancel", "release", "join", "users",
                             "destroy", "closed"}, run : Nat]
    BY DEF HostedInv, TypeOK, SessionTypeOK, InterrupterRec
  <1>1. CASE Driver
    <2>1. UNCHANGED <<interrupter, closer, kernel_users>>
      BY <1>1 DEF Driver, TakeWork, DriverExits, Drained, RewindBegins, RewindEnds, Admit,
           PublishRun, DriverAborts, DriverCancelReturns, DriverReleases, Claim, Turn, TurnEnds,
           RunReturns, RunFails, RunReturned, Persist, Flush, FinishRun, MutateBegins, MutateEnds,
           CompactBegins, CompactCommits, CompactEnds, CommandDone
    <2>2. CASE DriverAborts \/ DriverCancelReturns
      BY <1>0, <2>1, <2>2, UsersKept DEF DriverAborts, DriverCancelReturns, AbortBorrow,
           BorrowProvider, FinishProviderCancel, OwnCancels
    <2>3. CASE Driver /\ ~DriverAborts /\ ~DriverCancelReturns
      <3>1. in_flight_provider_cancels' = in_flight_provider_cancels
        <4>1. CASE TakeWork \/ DriverExits \/ Drained \/ RewindBegins \/ RewindEnds \/ Admit
                   \/ PublishRun \/ DriverReleases \/ Claim \/ Turn \/ TurnEnds
          BY <4>1 DEF TakeWork, DriverExits, Drained, RewindBegins, RewindEnds, Admit,
               PublishRun, DriverReleases, Claim, Turn, TurnEnds, BeginMutation, EndMutation,
               BeginRun, ClaimAdmittedRun, WriteConversation
        <4>2. CASE RunReturns \/ RunFails \/ RunReturned \/ FinishRun \/ CommandDone
                   \/ Persist("persist", "flush", "finish") \/ Flush("flush", "finish")
                   \/ Persist("cmd_persist", "cmd_flush", "cmd_done")
                   \/ Flush("cmd_flush", "cmd_done")
          BY <4>2 DEF RunReturns, RunFails, RunReturned, FinishRun, CommandDone, Persist, Flush,
               FinishRunLifecycle, PoisonRun, EndRun, SnapshotCommitted, FinishCheckpoint
        <4>3. CASE MutateBegins \/ MutateEnds \/ CompactBegins \/ CompactCommits \/ CompactEnds
          BY <4>3 DEF MutateBegins, MutateEnds, CompactBegins, CompactCommits, CompactEnds,
               BeginMutation, EndMutation, BeginCompact, CommitCompact, FinishCompact
        <4> QED  BY <2>3, <4>1, <4>2, <4>3 DEF Driver
      <3>2. driver # "stop_cancel" /\ driver' # "stop_cancel"
        <4>1. CASE Drained
          <5>1. work.kind \in {"submission", "rerun", "command", "compact"}
            BY <4>1 DEF Drained, HostedInv, QueueOK, WorkItem
          <5> QED  BY <4>1, <5>1 DEF Drained
        <4>2. CASE ~Drained
          BY <2>3, <4>2 DEF Driver, TakeWork, DriverExits, RewindBegins, RewindEnds, Admit,
               PublishRun, DriverReleases, Claim, Turn, TurnEnds, RunReturns,
               RunFails, RunReturned, Persist, Flush, FinishRun, MutateBegins, MutateEnds,
               CompactBegins, CompactCommits, CompactEnds, CommandDone
        <4> QED  BY <4>1, <4>2
      <3> QED  BY <1>0, <2>1, <3>1, <3>2, UsersKept DEF OwnCancels
    <2> QED  BY <1>1, <2>2, <2>3
  <1>2. ASSUME NEW r \in Requesters, Requester(r) PROVE UsersOK'
    <2>1. UNCHANGED <<interrupter, closer, kernel_users, driver, in_flight_provider_cancels>>
      BY <1>2 DEF Requester, AskReleased, Ask, Announce, AnnounceFails, TakeResponse,
                  EndsWithout, NoteCallbackFailure
    <2> QED  BY <1>0, <2>1, UsersKept DEF OwnCancels
  <1>3. ASSUME NEW i \in Interrupters, Interrupt(i) PROVE UsersOK'
    <2>1. UNCHANGED <<closer, driver, in_flight_provider_cancels>> /\ interrupter[i].pc = "out"
      BY <1>3 DEF Interrupt
    <2>2. CASE current_run_id = 0
      BY <1>0, <1>3, <2>1, <2>2, UsersKept DEF Interrupt, OwnCancels
    <2>3. CASE current_run_id # 0
      <3>1. kernel_users' = kernel_users + 1 /\ Moves(i, "abort")
        BY <1>0, <1>3, <2>3 DEF Interrupt, EnterKernel, Moves
      <3>2. Inside' = Inside \cup {i} /\ Cancelling' = Cancelling \ {i}
        BY <3>1, InterrupterMoves
      <3>3. i \notin Inside /\ i \notin Cancelling
        BY <2>1 DEF Inside, Cancelling
      <3>4. Cardinality(Inside') = kernel_users + 1
        BY <1>0, <3>2, <3>3, InsideCounts
      <3>5. Cardinality(Cancelling') = Cardinality(Cancelling)
        BY <3>2, <3>3, CancellingCounts
      <3> QED  BY <1>0, <2>1, <3>1, <3>4, <3>5 DEF UsersOK
    <2> QED  BY <2>2, <2>3
  <1>4. ASSUME NEW i \in Interrupters, Interrupter(i) PROVE UsersOK'
    <2>1. UNCHANGED <<closer, driver>> /\ i \in Inside
      BY <1>4 DEF Interrupter, InterruptAborts, InterruptCancelReturns, InterruptReleases,
                  LeaveKernel, Inside
    <2>2. ASSUME NEW pc \in {"cancel", "release", "leave"}, Moves(i, pc)
          PROVE  Cardinality(Inside') = kernel_users
      BY <1>0, <2>1, <2>2, InterrupterMoves, InsideCounts
    <2>3. CASE InterruptAborts(i) /\ At(i, "cancel", interrupter[i].run)
      <3>1. in_flight_provider_cancels' = in_flight_provider_cancels + 1
            /\ kernel_users' = kernel_users
        <4>1. interrupter' # [interrupter EXCEPT ![i] = [pc |-> "release",
                                                         run |-> interrupter[i].run]]
          BY <1>0, <2>3
        <4> QED  BY <2>3, <4>1 DEF InterruptAborts, AbortBorrow, BorrowProvider
      <3>2. Moves(i, "cancel") /\ i \notin Cancelling
        BY <1>0, <2>3 DEF InterruptAborts, Cancelling, Moves
      <3>3. Cardinality(Cancelling') = Cardinality(Cancelling) + 1
            /\ Cardinality(Cancelling) \in Nat
        BY <3>2, InterrupterMoves, CancellingCounts
      <3>4. Cardinality(Inside') = kernel_users
        BY <2>2, <3>2
      <3> QED  BY <1>0, <2>1, <3>1, <3>3, <3>4 DEF UsersOK
    <2>4. CASE (InterruptAborts(i) /\ ~At(i, "cancel", interrupter[i].run)) \/ InterruptReleases(i)
      <3>1. /\ UNCHANGED <<in_flight_provider_cancels, kernel_users>> /\ i \notin Cancelling
            /\ \E pc \in {"release", "leave"} : Moves(i, pc)
        BY <1>0, <2>4 DEF InterruptAborts, InterruptReleases, Cancelling, Moves
      <3>2. Cancelling' = Cancelling \ {i}
        BY <3>1, InterrupterMoves
      <3>3. Cardinality(Cancelling') = Cardinality(Cancelling)
        BY <3>1, <3>2, CancellingCounts
      <3>4. Cardinality(Inside') = kernel_users
        BY <2>2, <3>1
      <3> QED  BY <1>0, <2>1, <3>1, <3>3, <3>4 DEF UsersOK
    <2>5. CASE InterruptCancelReturns(i)
      <3>1. /\ in_flight_provider_cancels' = in_flight_provider_cancels - 1
            /\ kernel_users' = kernel_users /\ i \in Cancelling
            /\ Moves(i, "release")
        BY <1>0, <2>5 DEF InterruptCancelReturns, FinishProviderCancel, Cancelling, Moves
      <3>2. Cancelling' = Cancelling \ {i}
        BY <3>1, InterrupterMoves
      <3>3. Cardinality(Cancelling') = Cardinality(Cancelling) - 1
            /\ Cardinality(Cancelling) \in Nat
        BY <3>1, <3>2, CancellingCounts
      <3>4. Cardinality(Inside') = kernel_users
        BY <2>2, <3>1
      <3> QED  BY <1>0, <2>1, <3>1, <3>3, <3>4 DEF UsersOK
    <2>6. CASE LeaveKernel(i)
      <3>1. /\ in_flight_provider_cancels' = in_flight_provider_cancels
            /\ kernel_users' = kernel_users - 1 /\ i \notin Cancelling
            /\ Moves(i, "out")
        BY <1>0, <2>6 DEF LeaveKernel, Cancelling, Moves
      <3>2. Cancelling' = Cancelling \ {i} /\ Inside' = Inside \ {i}
        BY <3>1, InterrupterMoves
      <3>3. Cardinality(Cancelling') = Cardinality(Cancelling)
        BY <3>1, <3>2, CancellingCounts
      <3>4. Cardinality(Inside') = kernel_users - 1
        BY <1>0, <2>1, <3>2, InsideCounts
      <3> QED  BY <1>0, <2>1, <3>1, <3>3, <3>4 DEF UsersOK
    <2> QED  BY <1>4, <2>3, <2>4, <2>5, <2>6 DEF Interrupter
  <1>5. CASE Close \/ Closer
    <2>1. UNCHANGED <<interrupter, driver, kernel_users>>
      BY <1>5 DEF Close, Closer, CloseAborts, CloseCancelReturns, CloseReleases, CloseJoins,
                  CloseDrops, CloseDestroys
    <2>2. /\ in_flight_provider_cancels' - in_flight_provider_cancels
               = (IF closer'.pc = "cancel" THEN 1 ELSE 0) - (IF closer.pc = "cancel" THEN 1 ELSE 0)
          /\ in_flight_provider_cancels' \in Nat
      BY <1>0, <1>5 DEF Close, Closer, CloseAborts, CloseCancelReturns, CloseReleases, CloseJoins,
           CloseDrops, CloseDestroys, AbortBorrow, BorrowProvider, FinishProviderCancel,
           DestroySession
    <2> QED  BY <1>0, <2>1, <2>2, UsersKept DEF OwnCancels
  <1>6. CASE Clients \/ Closed \/ UNCHANGED vars
    <2>1. UNCHANGED <<interrupter, closer, kernel_users, driver, in_flight_provider_cancels>>
      BY <1>6 DEF Clients, Enqueue, Respond, Closed, vars
    <2> QED  BY <1>0, <2>1, UsersKept DEF OwnCancels
  <1> QED  BY <1>1, <1>2, <1>3, <1>4, <1>5, <1>6 DEF Next

\* TypeOK in the parts the proofs need.
CloserRec == [pc : {"open", "abort", "cancel", "release", "join", "users", "destroy", "closed"},
              run : Nat]

HostTyped ==
  /\ phase \in {"idle", "running", "poisoned", "closing"} /\ closing \in BOOLEAN
  /\ current_run_id \in Nat /\ kernel_users \in Nat
  /\ run_interrupted \in BOOLEAN /\ ui_released \in BOOLEAN /\ run_returned \in BOOLEAN
  /\ pending_request_id \in Nat /\ next_request_id \in Nat \ {0}
  /\ response \in [id : Nat, readable : BOOLEAN]

QueueTyped == queue \in Seq(WorkItem) /\ Len(queue) <= MaxQueued

DriverTyped ==
  /\ driver \in DriverSteps /\ work \in WorkItem \cup {NoWork}
  /\ driver_run_id \in Nat /\ turns \in 0 .. MaxTurns /\ unsaved \in BOOLEAN
  /\ accepted \in 0 .. MaxWork /\ done \in 0 .. MaxWork

ThreadsTyped ==
  /\ prompt \in [Requesters -> PromptRec]
  /\ interrupter \in [Interrupters -> InterrupterRec]
  /\ closer \in CloserRec

LEMMA TypeParts ==
  /\ TypeOK <=> SessionTypeOK /\ HostTyped /\ QueueTyped /\ DriverTyped /\ ThreadsTyped
  /\ TypeOK' <=> SessionTypeOK' /\ HostTyped' /\ QueueTyped' /\ DriverTyped' /\ ThreadsTyped'
  BY DEF TypeOK, HostTyped, QueueTyped, DriverTyped, ThreadsTyped, PromptRec, InterrupterRec,
         CloserRec

\* What the service does to the kernel.
KernelOp ==
  \/ UNCHANGED sessionVars
  \/ \E id \in Nat : BeginRun(id) \/ ClaimAdmittedRun(id) \/ AbortBorrow(id)
                     \/ BeginCompact(id) \/ FinishCompact(id)
  \/ WriteConversation \/ FinishRunLifecycle \/ PoisonRun \/ FinishProviderCancel
  \/ NoteCallbackFailure \/ CommitCompact \/ BeginMutation \/ EndMutation
  \/ SnapshotCommitted \/ FinishCheckpoint \/ DestroySession

LEMMA KernelOpTyped ==
  ASSUME SessionTypeOK, KernelOp
  PROVE  SessionTypeOK'
  <1> USE DEF SessionTypeOK, States
  <1>1. CASE UNCHANGED sessionVars
    BY <1>1
  <1>2. ASSUME NEW id \in Nat, BeginRun(id) \/ ClaimAdmittedRun(id) PROVE SessionTypeOK'
    BY <1>2 DEF BeginRun, ClaimAdmittedRun, ClearAbort
  <1>3. ASSUME NEW id \in Nat, AbortBorrow(id) PROVE SessionTypeOK'
    BY <1>3 DEF AbortBorrow, BorrowProvider
  <1>4. ASSUME NEW id \in Nat, BeginCompact(id) PROVE SessionTypeOK'
    BY <1>4 DEF BeginCompact
  <1>5. ASSUME NEW id \in Nat, FinishCompact(id) PROVE SessionTypeOK'
    BY <1>5 DEF FinishCompact
  <1>6. CASE WriteConversation
    BY <1>6 DEF WriteConversation
  <1>7. CASE FinishRunLifecycle
    BY <1>7 DEF FinishRunLifecycle, EndRun
  <1>8. CASE PoisonRun
    BY <1>8 DEF PoisonRun, EndRun
  <1>9. CASE FinishProviderCancel
    BY <1>9 DEF FinishProviderCancel
  <1>10. CASE NoteCallbackFailure
    BY <1>10 DEF NoteCallbackFailure
  <1>11. CASE CommitCompact
    BY <1>11 DEF CommitCompact
  <1>12. CASE BeginMutation \/ EndMutation
    BY <1>12 DEF BeginMutation, EndMutation
  <1>13. CASE SnapshotCommitted \/ FinishCheckpoint \/ DestroySession
    BY <1>13 DEF SnapshotCommitted, FinishCheckpoint, DestroySession
  <1> QED  BY <1>1, <1>2, <1>3, <1>4, <1>5, <1>6, <1>7, <1>8, <1>9, <1>10, <1>11, <1>12, <1>13
           DEF KernelOp

LEMMA SessionTypedStep ==
  ASSUME HostedInv, [Next]_vars
  PROVE  SessionTypeOK'
  <1> USE DEF KernelOp
  <1> HIDE DEF sessionVars
  <1>0. /\ SessionTypeOK /\ driver_run_id \in Nat /\ last_admitted_compact_id \in Nat
        /\ closer.run \in Nat /\ \A i \in Interrupters : interrupter[i].run \in Nat
    BY DEF HostedInv, TypeOK, SessionTypeOK
  <1> SUFFICES KernelOp
    BY <1>0, KernelOpTyped
  <1>1. CASE TakeWork \/ DriverExits \/ Drained \/ PublishRun \/ DriverReleases \/ TurnEnds
             \/ RunReturned \/ FinishRun \/ CommandDone
    BY <1>1 DEF TakeWork, DriverExits, Drained, PublishRun, DriverReleases, TurnEnds,
         RunReturned, FinishRun, CommandDone
  <1>2. CASE RewindBegins \/ RewindEnds \/ Admit \/ MutateBegins \/ MutateEnds
    BY <1>0, <1>2 DEF RewindBegins, RewindEnds, Admit, MutateBegins, MutateEnds
  <1>3. CASE DriverAborts \/ DriverCancelReturns
    BY <1>0, <1>3 DEF DriverAborts, DriverCancelReturns
  <1>4. CASE Claim \/ Turn
    BY <1>0, <1>4 DEF Claim, Turn
  <1>5. CASE RunReturns \/ RunFails
    BY <1>5 DEF RunReturns, RunFails
  <1>6. CASE Persist("persist", "flush", "finish") \/ Flush("flush", "finish")
             \/ Persist("cmd_persist", "cmd_flush", "cmd_done") \/ Flush("cmd_flush", "cmd_done")
    BY <1>6 DEF Persist, Flush
  <1>7. CASE CompactBegins \/ CompactCommits \/ CompactEnds
    BY <1>0, <1>7 DEF CompactBegins, CompactCommits, CompactEnds
  <1>8. ASSUME NEW r \in Requesters, Requester(r) PROVE KernelOp
    BY <1>8 DEF Requester, AskReleased, Ask, Announce, AnnounceFails, TakeResponse, EndsWithout
  <1>9. ASSUME NEW i \in Interrupters, Interrupt(i) \/ Interrupter(i) PROVE KernelOp
    BY <1>0, <1>9 DEF Interrupt, Interrupter, InterruptAborts, InterruptCancelReturns,
         InterruptReleases, LeaveKernel
  <1>10. CASE Close \/ Closer
    BY <1>0, <1>10 DEF Close, Closer, CloseAborts, CloseCancelReturns, CloseReleases, CloseJoins,
         CloseDrops, CloseDestroys
  <1>11. CASE Clients \/ Closed \/ UNCHANGED vars
    BY <1>11 DEF Clients, Enqueue, Respond, Closed, vars
  <1> QED  BY <1>1, <1>2, <1>3, <1>4, <1>5, <1>6, <1>7, <1>8, <1>9, <1>10, <1>11
           DEF Next, Driver

LEMMA QueueTypedStep ==
  ASSUME HostedInv, [Next]_vars
  PROVE  QueueTyped'
  <1>0. QueueTyped /\ accepted \in Nat
    BY TypeParts DEF HostedInv, DriverTyped
  <1>1. << >> \in Seq(WorkItem) /\ Len(<< >>) = 0
    BY EmptySeq
  <1>2. ASSUME queue' = queue \/ queue' = << >> PROVE QueueTyped'
    <2>1. WorkItem' = WorkItem
      BY DEF WorkItem
    <2>2. CASE queue' = queue
      BY <1>0, <2>1, <2>2 DEF QueueTyped
    <2>3. CASE queue' = << >>
      BY <1>1, <2>1, <2>3, HostedBounds DEF QueueTyped
    <2> QED  BY <1>2, <2>2, <2>3
  <1>3. CASE TakeWork
    <2>1. queue' = Tail(queue) /\ queue # << >>
      BY <1>3 DEF TakeWork, HasWork
    <2>2. Tail(queue) \in Seq(WorkItem) /\ Len(Tail(queue)) = Len(queue) - 1
      BY <1>0, <2>1, HeadTailProperties DEF QueueTyped
    <2>3. Len(queue) \in Nat
      BY <1>0, LenProperties DEF QueueTyped
    <2> QED  BY <1>0, <2>1, <2>2, <2>3 DEF QueueTyped, WorkItem
  <1>4. ASSUME NEW kind \in WorkKinds, Enqueue(kind) PROVE QueueTyped'
    <2> DEFINE item == [id |-> accepted + 1, kind |-> kind]
    <2>1. item \in WorkItem /\ queue' = Append(queue, item) /\ Len(queue) < MaxQueued
      BY <1>0, <1>4 DEF Enqueue, WorkItem
    <2> HIDE DEF item
    <2>2. queue' \in Seq(WorkItem) /\ Len(queue') = Len(queue) + 1
      BY <1>0, <2>1, AppendProperties DEF QueueTyped
    <2>3. Len(queue) \in Nat
      BY <1>0, LenProperties DEF QueueTyped
    <2> QED  BY <2>1, <2>2, <2>3 DEF QueueTyped, WorkItem
  <1>5. CASE Driver /\ ~TakeWork
    BY <1>2, <1>5 DEF Driver, DriverExits, Drained, RewindBegins, RewindEnds, Admit, PublishRun,
         DriverAborts, DriverCancelReturns, DriverReleases, Claim, Turn, TurnEnds, RunReturns,
         RunFails, RunReturned, Persist, Flush, FinishRun, MutateBegins, MutateEnds,
         CompactBegins, CompactCommits, CompactEnds, CommandDone
  <1>6. ASSUME NEW r \in Requesters, Requester(r) PROVE QueueTyped'
    BY <1>2, <1>6 DEF Requester, AskReleased, Ask, Announce, AnnounceFails, TakeResponse
  <1>7. ASSUME NEW i \in Interrupters, Interrupt(i) \/ Interrupter(i) PROVE QueueTyped'
    BY <1>2, <1>7 DEF Interrupt, Interrupter, InterruptAborts, InterruptCancelReturns,
         InterruptReleases, LeaveKernel
  <1>8. CASE Close \/ Closer \/ Closed \/ UNCHANGED vars
    BY <1>2, <1>8 DEF Close, Closer, CloseAborts, CloseCancelReturns, CloseReleases, CloseJoins,
         CloseDrops, CloseDestroys, Closed, vars
  <1>9. ASSUME NEW id, NEW readable, Respond(id, readable) PROVE QueueTyped'
    BY <1>2, <1>9 DEF Respond
  <1> QED  BY <1>3, <1>4, <1>5, <1>6, <1>7, <1>8, <1>9 DEF Next, Clients

LEMMA HostTypedStep ==
  ASSUME HostedInv, [Next]_vars, UsersOK'
  PROVE  HostTyped'
  <1>0. HostTyped /\ driver_run_id \in Nat
    BY TypeParts DEF HostedInv, DriverTyped
  <1>1. kernel_users' \in Nat
    <2>1. Inside' \subseteq Interrupters
      BY DEF Inside
    <2>2. IsFiniteSet(Inside')
      BY <2>1, FS_Subset
    <2> QED  BY <2>2, FS_CardinalityType DEF UsersOK
  <1>2. ASSUME UNCHANGED <<phase, closing, current_run_id, flagVars, uiVars>> PROVE HostTyped'
    BY <1>0, <1>1, <1>2 DEF HostTyped
  <1>3. CASE TakeWork \/ PublishRun \/ DriverReleases \/ RunReturned \/ FinishRun
    <2>1. CASE TakeWork
      BY <1>0, <1>1, <2>1 DEF HostTyped, TakeWork
    <2>2. CASE PublishRun
      BY <1>0, <1>1, <2>2 DEF HostTyped, PublishRun
    <2>3. CASE DriverReleases
      BY <1>0, <1>1, <2>3 DEF HostTyped, DriverReleases, ReleaseUi
    <2>4. CASE RunReturned
      BY <1>0, <1>1, <2>4 DEF HostTyped, RunReturned
    <2>5. CASE FinishRun
      BY <1>0, <1>1, <2>5 DEF HostTyped, FinishRun
    <2> QED  BY <1>3, <2>1, <2>2, <2>3, <2>4, <2>5
  <1>4. CASE Driver /\ ~TakeWork /\ ~PublishRun /\ ~DriverReleases /\ ~RunReturned /\ ~FinishRun
    BY <1>2, <1>4 DEF Driver, DriverExits, Drained, RewindBegins, RewindEnds, Admit, DriverAborts,
         DriverCancelReturns, Claim, Turn, TurnEnds, RunReturns, RunFails, Persist, Flush,
         MutateBegins, MutateEnds, CompactBegins, CompactCommits, CompactEnds, CommandDone
  <1>5. ASSUME NEW r \in Requesters, Requester(r) PROVE HostTyped'
    <2>1. CASE AskReleased(r) \/ Announce(r)
      BY <1>2, <2>1 DEF AskReleased, Announce
    <2>2. CASE Ask(r)
      BY <1>0, <1>1, <2>2 DEF HostTyped, Ask
    <2>3. CASE AnnounceFails(r)
      BY <1>0, <1>1, <2>3 DEF HostTyped, AnnounceFails
    <2>4. CASE TakeResponse(r)
      BY <1>0, <1>1, <2>4 DEF HostTyped, TakeResponse, EmptySlot, NoResponse
    <2> QED  BY <1>5, <2>1, <2>2, <2>3, <2>4 DEF Requester
  <1>6. ASSUME NEW i \in Interrupters, Interrupt(i) \/ Interrupter(i) PROVE HostTyped'
    BY <1>0, <1>1, <1>6 DEF HostTyped, Interrupt, Interrupter, InterruptAborts,
         InterruptCancelReturns, InterruptReleases, LeaveKernel, ReleaseUi
  <1>7. CASE Close \/ Closer \/ Closed \/ UNCHANGED vars
    <2>1. CASE Close
      BY <1>0, <1>1, <2>1 DEF HostTyped, Close
    <2>2. CASE CloseReleases
      BY <1>0, <1>1, <2>2 DEF HostTyped, CloseReleases, ReleaseUi
    <2>3. CASE CloseDrops
      BY <1>0, <1>1, <2>3 DEF HostTyped, CloseDrops, NoResponse
    <2>4. CASE CloseAborts \/ CloseCancelReturns \/ CloseJoins \/ CloseDestroys \/ Closed
               \/ UNCHANGED vars
      BY <1>2, <2>4 DEF CloseAborts, CloseCancelReturns, CloseJoins, CloseDestroys, Closed, vars
    <2> QED  BY <1>7, <2>1, <2>2, <2>3, <2>4 DEF Closer
  <1>8. ASSUME NEW id \in 1 .. next_request_id, NEW readable \in BOOLEAN, Respond(id, readable)
        PROVE  HostTyped'
    BY <1>0, <1>1, <1>8 DEF HostTyped, Respond
  <1>9. ASSUME NEW kind, Enqueue(kind) PROVE HostTyped'
    BY <1>2, <1>9 DEF Enqueue
  <1> QED  BY <1>3, <1>4, <1>5, <1>6, <1>7, <1>8, <1>9 DEF Next, Clients

LEMMA DriverTypedStep ==
  ASSUME HostedInv, [Next]_vars
  PROVE  DriverTyped'
  <1> USE DEF DriverSteps, RunSteps, CommandSteps
  <1>0. DriverTyped /\ QueueTyped /\ QueueOK
    BY TypeParts DEF HostedInv
  <1>1. ASSUME UNCHANGED <<work, accepted, done>>, driver' \in DriverSteps, driver_run_id' \in Nat,
               turns' \in 0 .. MaxTurns, unsaved' \in BOOLEAN
        PROVE  DriverTyped'
    BY <1>0, <1>1 DEF DriverTyped, WorkItem
  <1>2. work.id \in 0 .. MaxWork
    BY <1>0, HostedBounds DEF DriverTyped, WorkItem, NoWork
  <1>3. CASE TakeWork
    <2>1. work' \in WorkItem
      BY <1>0, <1>3, HeadTailProperties DEF TakeWork, HasWork, QueueTyped
    <2> QED  BY <1>0, <1>3, <2>1 DEF TakeWork, DriverTyped, WorkItem
  <1>4. CASE FinishRun \/ CommandDone
    BY <1>0, <1>2, <1>4 DEF FinishRun, CommandDone, DriverTyped, WorkItem
  <1>5. CASE Drained
    <2>1. work.kind \in {"submission", "rerun", "command", "compact"}
      BY <1>0, <1>5 DEF Drained, QueueOK, WorkItem
    <2> QED  BY <1>0, <1>1, <1>5, <2>1 DEF Drained, DriverTyped
  <1>6. CASE DriverExits \/ RewindBegins \/ RewindEnds \/ Admit \/ PublishRun
             \/ DriverAborts \/ DriverCancelReturns \/ DriverReleases
    BY <1>0, <1>1, <1>6 DEF DriverTyped, DriverExits, RewindBegins, RewindEnds, Admit, PublishRun,
         DriverAborts, DriverCancelReturns, DriverReleases
  <1>7. CASE Claim \/ Turn
    <2>1. UNCHANGED <<work, accepted, done, driver_run_id>> /\ driver' \in DriverSteps
      BY <1>7 DEF Claim, Turn
    <2>2. turns' \in 0 .. MaxTurns
      <3>1. turns' = 0 \/ (turns < MaxTurns /\ turns' = turns + 1)
        <4>1. CASE Claim
          BY <4>1 DEF Claim
        <4>2. CASE Turn
          BY <4>2 DEF Turn
        <4> QED  BY <1>7, <4>1, <4>2
      <3> QED  BY <1>0, <3>1, HostedBounds DEF DriverTyped
    <2>3. unsaved' \in BOOLEAN
      BY <1>0, <1>7 DEF Claim, Turn, DriverTyped
    <2> QED  BY <1>0, <1>1, <2>1, <2>2, <2>3 DEF DriverTyped
  <1>15. CASE TurnEnds \/ RunReturns \/ RunFails \/ RunReturned
             \/ Persist("persist", "flush", "finish") \/ Flush("flush", "finish")
    BY <1>0, <1>1, <1>15 DEF DriverTyped, TurnEnds, RunReturns, RunFails, RunReturned, Persist,
         Flush
  <1>8. CASE MutateBegins \/ MutateEnds \/ CompactBegins \/ CompactCommits \/ CompactEnds
             \/ Persist("cmd_persist", "cmd_flush", "cmd_done") \/ Flush("cmd_flush", "cmd_done")
    BY <1>0, <1>1, <1>8 DEF DriverTyped, MutateBegins, MutateEnds, CompactBegins, CompactCommits,
         CompactEnds, Persist, Flush
  <1>9. ASSUME NEW kind, Enqueue(kind) PROVE DriverTyped'
    BY <1>0, <1>9 DEF Enqueue, DriverTyped, WorkItem
  <1>10. ASSUME UNCHANGED <<driverVars, accepted, done>> PROVE DriverTyped'
    BY <1>0, <1>1, <1>10 DEF DriverTyped
  <1>11. ASSUME NEW r \in Requesters, Requester(r) PROVE DriverTyped'
    BY <1>10, <1>11 DEF Requester, AskReleased, Ask, Announce, AnnounceFails, TakeResponse
  <1>12. ASSUME NEW i \in Interrupters, Interrupt(i) \/ Interrupter(i) PROVE DriverTyped'
    BY <1>10, <1>12 DEF Interrupt, Interrupter, InterruptAborts, InterruptCancelReturns,
         InterruptReleases, LeaveKernel
  <1>13. CASE Close \/ Closer \/ Closed \/ UNCHANGED vars
    BY <1>10, <1>13 DEF Close, Closer, CloseAborts, CloseCancelReturns, CloseReleases, CloseJoins,
         CloseDrops, CloseDestroys, Closed, vars
  <1>14. ASSUME NEW id, NEW readable, Respond(id, readable) PROVE DriverTyped'
    BY <1>10, <1>14 DEF Respond
  <1> QED  BY <1>3, <1>4, <1>5, <1>6, <1>7, <1>8, <1>9, <1>11, <1>12, <1>13, <1>14, <1>15
           DEF Next, Driver, Clients

LEMMA ThreadsTypedStep ==
  ASSUME HostedInv, [Next]_vars
  PROVE  ThreadsTyped'
  <1>0. ThreadsTyped /\ current_run_id \in Nat /\ next_request_id \in Nat /\ response.id \in Nat
    BY TypeParts DEF HostedInv, HostTyped
  <1>1. CASE UNCHANGED <<prompt, interrupter, closer>>
    BY <1>0, <1>1 DEF ThreadsTyped
  <1>2. ASSUME UNCHANGED <<interrupter, closer>>, prompt' \in [Requesters -> PromptRec]
        PROVE  ThreadsTyped'
    BY <1>0, <1>2 DEF ThreadsTyped, PromptRec
  <1>3. ASSUME UNCHANGED <<prompt, closer>>, interrupter' \in [Interrupters -> InterrupterRec]
        PROVE  ThreadsTyped'
    BY <1>0, <1>3 DEF ThreadsTyped, InterrupterRec, PromptRec
  <1>4. ASSUME UNCHANGED <<prompt, interrupter>>, closer' \in CloserRec
        PROVE  ThreadsTyped'
    BY <1>0, <1>4 DEF ThreadsTyped, CloserRec, PromptRec
  <1>5. CASE Driver /\ ~Claim /\ ~Turn
    BY <1>1, <1>5 DEF Driver, TakeWork, DriverExits, Drained, RewindBegins, RewindEnds, Admit,
         PublishRun, DriverAborts, DriverCancelReturns, DriverReleases, TurnEnds, RunReturns,
         RunFails, RunReturned, Persist, Flush, FinishRun, MutateBegins, MutateEnds,
         CompactBegins, CompactCommits, CompactEnds, CommandDone
  <1>6. NoPrompt \in PromptRec
    BY DEF NoPrompt, PromptRec
  <1>7. CASE Claim
    BY <1>2, <1>6, <1>7 DEF Claim
  <1>8. CASE Turn
    <2>1. PICK asking \in [Requesters -> PromptKinds \cup {"none"}] :
            prompt' = [r \in Requesters |->
                         IF asking[r] = "none" THEN NoPrompt
                         ELSE [NoPrompt EXCEPT !.pc = "want", !.kind = asking[r]]]
      BY <1>8 DEF Turn
    <2>2. \A kind \in PromptKinds \cup {"none"} :
            [NoPrompt EXCEPT !.pc = "want", !.kind = kind] \in PromptRec
      BY DEF NoPrompt, PromptRec
    <2>3. \A r \in Requesters : asking[r] \in PromptKinds \cup {"none"}
      OBVIOUS
    <2>4. prompt' \in [Requesters -> PromptRec]
      BY <1>6, <2>1, <2>2, <2>3
    <2> QED  BY <1>2, <1>8, <2>4 DEF Turn
  <1>9. ASSUME NEW r \in Requesters, Requester(r) PROVE ThreadsTyped'
    <2>1. prompt \in [Requesters -> PromptRec] /\ prompt[r] \in PromptRec
      BY <1>0 DEF ThreadsTyped
    <2>2. UNCHANGED <<interrupter, closer>>
      BY <1>9 DEF Requester, AskReleased, Ask, Announce, AnnounceFails, TakeResponse
    <2>3. ASSUME NEW new \in PromptRec, prompt' = [prompt EXCEPT ![r] = new]
          PROVE  prompt' \in [Requesters -> PromptRec]
      BY <2>1, <2>3
    <2>4. \A outcome \in {"answered", "malformed", "cancelled", "expired", "failed"}, got \in Nat :
            Ends(r, outcome, got) => prompt' \in [Requesters -> PromptRec]
      <3>1. SUFFICES ASSUME NEW outcome \in {"answered", "malformed", "cancelled", "expired",
                                             "failed"},
                            NEW got \in Nat, Ends(r, outcome, got)
                     PROVE  prompt' \in [Requesters -> PromptRec]
        OBVIOUS
      <3> DEFINE new == [prompt[r] EXCEPT !.pc = "off", !.outcome = outcome, !.got = got]
      <3>2. new \in PromptRec
        BY <2>1 DEF PromptRec
      <3>3. prompt' = [prompt EXCEPT ![r] = new]
        BY <3>1 DEF Ends
      <3> QED  BY <2>3, <3>2, <3>3
    <2>5. CASE AskReleased(r) \/ AnnounceFails(r)
      <3>1. \E outcome \in {"cancelled", "failed"} : Ends(r, outcome, 0)
        BY <2>5 DEF AskReleased, AnnounceFails, EndsWithout
      <3> QED  BY <1>2, <2>2, <2>4, <3>1
    <2>6. CASE TakeResponse(r)
      <3>1. \E outcome \in {"answered", "malformed", "cancelled", "expired"},
               got \in {0, response.id} : Ends(r, outcome, got)
        BY <2>6 DEF TakeResponse, EndsWithout
      <3> QED  BY <1>0, <1>2, <2>2, <2>4, <3>1
    <2>7. CASE Ask(r)
      <3> DEFINE new == [prompt[r] EXCEPT !.pc = "announce", !.id = next_request_id]
      <3>1. new \in PromptRec
        BY <1>0, <2>1 DEF PromptRec
      <3>2. prompt' = [prompt EXCEPT ![r] = new]
        BY <2>7 DEF Ask
      <3> HIDE DEF new
      <3> QED  BY <1>2, <2>2, <2>3, <3>1, <3>2
    <2>8. CASE Announce(r)
      <3> DEFINE new == [prompt[r] EXCEPT !.pc = "waiting"]
      <3>1. new \in PromptRec
        BY <2>1 DEF PromptRec
      <3>2. prompt' = [prompt EXCEPT ![r] = new]
        BY <2>1, <2>8 DEF Announce
      <3> HIDE DEF new
      <3> QED  BY <1>2, <2>2, <2>3, <3>1, <3>2
    <2> QED  BY <1>9, <2>5, <2>6, <2>7, <2>8 DEF Requester
  <1>10. ASSUME NEW i \in Interrupters, Interrupt(i) \/ Interrupter(i) PROVE ThreadsTyped'
    <2>1. interrupter \in [Interrupters -> InterrupterRec] /\ interrupter[i].run \in Nat
      BY <1>0 DEF ThreadsTyped, InterrupterRec
    <2>2. UNCHANGED <<prompt, closer>>
      BY <1>10 DEF Interrupt, Interrupter, InterruptAborts, InterruptCancelReturns,
           InterruptReleases, LeaveKernel
    <2>3. \/ interrupter' = interrupter
          \/ \E pc \in {"out", "abort", "cancel", "release", "leave"},
                run \in {0, current_run_id, interrupter[i].run} : At(i, pc, run)
      BY <1>10 DEF Interrupt, Interrupter, InterruptAborts, InterruptCancelReturns,
           InterruptReleases, LeaveKernel
    <2>4. interrupter' \in [Interrupters -> InterrupterRec]
      <3>1. ASSUME NEW pc \in {"out", "abort", "cancel", "release", "leave"},
                   NEW run \in {0, current_run_id, interrupter[i].run}, At(i, pc, run)
            PROVE  interrupter' \in [Interrupters -> InterrupterRec]
        <4>1. [pc |-> pc, run |-> run] \in InterrupterRec
          BY <1>0, <2>1 DEF InterrupterRec
        <4> QED  BY <2>1, <3>1, <4>1
      <3> QED  BY <2>1, <2>3, <3>1
    <2> QED  BY <1>3, <2>2, <2>4
  <1>11. CASE Close \/ Closer
    <2>1. UNCHANGED <<prompt, interrupter>>
      BY <1>11 DEF Close, Closer, CloseAborts, CloseCancelReturns, CloseReleases, CloseJoins,
           CloseDrops, CloseDestroys
    <2>2. closer \in CloserRec
      BY <1>0 DEF ThreadsTyped
    <2>3. closer' \in CloserRec
      <3>1. CASE Close
        BY <1>0, <3>1 DEF Close, CloserRec
      <3>2. CASE Closer
        <4>1. \E pc \in {"cancel", "release", "join", "users", "destroy", "closed"} : Closes(pc)
          BY <3>2 DEF Closer, CloseAborts, CloseCancelReturns, CloseReleases, CloseJoins,
               CloseDrops, CloseDestroys
        <4> QED  BY <2>2, <4>1 DEF CloserRec
      <3> QED  BY <1>11, <3>1, <3>2
    <2> QED  BY <1>4, <2>1, <2>3
  <1>12. CASE Clients \/ Closed \/ UNCHANGED vars
    BY <1>1, <1>12 DEF Clients, Enqueue, Respond, Closed, vars
  <1> QED  BY <1>5, <1>7, <1>8, <1>9, <1>10, <1>11, <1>12 DEF Next

LEMMA InitHosted == Init => HostedInv
  <1> SUFFICES ASSUME Init PROVE HostedInv
    OBVIOUS
  <1> USE DEF Init, SessionInit
  <1>1. TypeOK
    <2>1. SessionTypeOK
      BY DEF SessionTypeOK, States
    <2>2. HostTyped
      <3>1. phase \in {"idle", "running", "poisoned", "closing"}
        OBVIOUS
      <3>2. /\ closing \in BOOLEAN /\ run_interrupted \in BOOLEAN /\ ui_released \in BOOLEAN
            /\ run_returned \in BOOLEAN
        OBVIOUS
      <3>3. /\ current_run_id \in Nat /\ kernel_users \in Nat
            /\ pending_request_id \in Nat /\ next_request_id \in Nat \ {0}
        OBVIOUS
      <3>4. response \in [id : Nat, readable : BOOLEAN]
        BY DEF NoResponse
      <3> QED  BY ONLY <3>1, <3>2, <3>3, <3>4 DEF HostTyped
    <2>3. QueueTyped
      <3>1. << >> \in Seq(WorkItem) /\ Len(<< >>) = 0
        BY EmptySeq
      <3> QED  BY <3>1, HostedBounds DEF QueueTyped
    <2>4. DriverTyped
      <3>1. driver = "take" /\ work = NoWork
        OBVIOUS
      <3>2. driver_run_id = 0 /\ turns = 0 /\ accepted = 0 /\ done = 0 /\ 0 \in 0 .. MaxWork
            /\ 0 \in 0 .. MaxTurns
        BY HostedBounds
      <3>3. unsaved = FALSE
        OBVIOUS
      <3> QED  BY ONLY <3>1, <3>2, <3>3 DEF DriverTyped, DriverSteps
    <2>5. ThreadsTyped
      BY DEF ThreadsTyped, PromptRec, NoPrompt, InterrupterRec, CloserRec
    <2> QED  BY <2>1, <2>2, <2>3, <2>4, <2>5, TypeParts
  <1>2. KernelOK
    BY DEF KernelOK, IdlePoints, EndPoints, ActivePoints, QuietPoints, RunSteps
  <1>3. RunOK /\ StopOK
    BY DEF RunOK, StopOK, ActivePoints, RunSteps
  <1>4. QueueOK
    <2>1. Len(<< >>) = 0
      OBVIOUS
    <2> QED  BY <2>1 DEF QueueOK, NoWork
  <1>5. PromptOK /\ SlotOK
    BY DEF PromptOK, SlotOK, NoPrompt, Asking
  <1>6. CloseOK
    BY DEF CloseOK
  <1>7. UsersOK
    <2>1. Inside = {} /\ Cancelling = {}
      BY DEF Inside, Cancelling
    <2> QED  BY <2>1, FS_EmptySet DEF UsersOK
  <1> QED  BY <1>1, <1>2, <1>3, <1>4, <1>5, <1>6, <1>7 DEF HostedInv

LEMMA NextHosted == HostedInv /\ [Next]_vars => HostedInv'
  <1> SUFFICES ASSUME HostedInv, [Next]_vars PROVE HostedInv'
    OBVIOUS
  <1>1. TypeOK'
    BY UsersStep, SessionTypedStep, HostTypedStep, QueueTypedStep, DriverTypedStep,
       ThreadsTypedStep, TypeParts
  <1>2. KernelOK' /\ RunOK' /\ StopOK' /\ QueueOK' /\ PromptOK' /\ SlotOK' /\ CloseOK' /\ UsersOK'
    BY KernelStep, RunStep, StopStep, QueueStep, PromptStep, SlotStep, CloseStep, UsersStep
  <1> QED  BY <1>1, <1>2 DEF HostedInv

\* What is known of a session and of every thread that touches it, in every
\* reachable state.
THEOREM HostedInductive == Spec => []HostedInv
  BY InitHosted, NextHosted, PTL DEF Spec

\* The fields of a session, its driver and its threads keep their types: the queue
\* stays within max_queued (enqueue), the turns within max_turns.
THEOREM TypeCorrect == Spec => []TypeOK
  <1>1. HostedInv => TypeOK
    BY DEF HostedInv
  <1> QED  BY HostedInductive, <1>1, PTL

\* An idle session with nobody in the kernel admits whatever the driver asks.
LEMMA NeverRefusesInv == HostedInv => KernelNeverRefuses
  <1> SUFFICES ASSUME HostedInv PROVE KernelNeverRefuses
    OBVIOUS
  <1>0. KernelOK /\ CloseOK /\ PromptOK /\ UsersOK
    BY DEF HostedInv
  <1>1. driver \in {"rewind", "admit", "mutate", "compact"} => Admits
    BY <1>0 DEF KernelOK, IdlePoints, QuietPoints, Admits
  <1>2. closer.pc \in {"destroy", "closed"} => Inside = {} /\ driver = "exit"
    BY <1>0, NobodyInside DEF CloseOK
  <1>3. closer.pc = "destroy" => MayDestroy
    <2>1. SUFFICES ASSUME closer.pc = "destroy" PROVE MayDestroy
      OBVIOUS
    <2>2. state \in {"idle", "poisoned"}
      BY <1>0, <1>2, <2>1 DEF KernelOK, CloseOK
    <2>3. Cancelling = {}
      BY <1>2, <2>1 DEF Inside, Cancelling
    <2>4. in_flight_provider_cancels = 0
      BY <1>0, <1>2, <2>1, <2>3, FS_EmptySet DEF UsersOK
    <2> QED  BY <2>2, <2>4 DEF MayDestroy
  <1>4. state = "destroying" =>
          /\ driver = "exit"
          /\ \A i \in Interrupters : interrupter[i].pc \notin {"abort", "cancel"}
          /\ \A r \in Requesters : prompt[r].pc = "off"
    BY <1>0, <1>2 DEF CloseOK, PromptOK, Inside
  <1> QED  BY <1>1, <1>3, <1>4 DEF KernelNeverRefuses

\* The kernel never refuses what the service asks of it and is never asked too late:
\* it admits the Run, rewind or command the driver is about to make (nextWork drains
\* the provider cancels first), it can be destroyed when close gets to it, and then no
\* thread is inside it (kernel_users, the join of the driver).
THEOREM KernelAdmits == Spec => []KernelNeverRefuses
  BY HostedInductive, NeverRefusesInv, PTL

\* The answer a tool gets is the one a client gave for its own request (respond
\* compares the pending id, takeResponseLocked empties the slot with the request), as
\* long as announcing a request does not fail: requestUi withdraws a request whose
\* announcement failed without emptying the slot.
THEOREM AnswersReachTheirRequest ==
  ASSUME "announce" \notin Faults
  PROVE  Spec => []AnswersMatch
  <1>1. HostedInv => AnswersMatch
    BY DEF HostedInv, PromptOK, AnswersMatch
  <1> QED  BY HostedInductive, <1>1, PTL

\* Only takeResponseLocked answers, and not once the Run is interrupted or closed.
LEMMA StepNoAnswer ==
  ASSUME HostedInv, [Next]_vars, NEW r \in Requesters,
         prompt[r].outcome # "answered", prompt'[r].outcome = "answered"
  PROVE  state # "abort_requested"
  <1>0. StopOK /\ prompt \in [Requesters -> PromptRec]
    BY PromptTyped DEF HostedInv
  <1>1. prompt' # prompt
    OBVIOUS
  <1>2. ~Driver
    <2>1. ~Claim
      BY DEF Claim, NoPrompt
    <2>2. ~Turn
      <3>1. SUFFICES ASSUME Turn PROVE FALSE
        OBVIOUS
      <3>2. PICK asking \in [Requesters -> PromptKinds \cup {"none"}] :
              prompt' = [q \in Requesters |->
                           IF asking[q] = "none" THEN NoPrompt
                           ELSE [NoPrompt EXCEPT !.pc = "want", !.kind = asking[q]]]
        BY <3>1 DEF Turn
      <3>3. \A kind : [NoPrompt EXCEPT !.pc = "want", !.kind = kind].outcome = "none"
        BY DEF NoPrompt
      <3> QED  BY <3>2, <3>3 DEF NoPrompt
    <2> QED  BY <1>1, <2>1, <2>2 DEF Driver, TakeWork, DriverExits, Drained, RewindBegins,
         RewindEnds, Admit, PublishRun, DriverAborts, DriverCancelReturns, DriverReleases,
         TurnEnds, RunReturns, RunFails, RunReturned, Persist, Flush, FinishRun, MutateBegins,
         MutateEnds, CompactBegins, CompactCommits, CompactEnds, CommandDone
  <1>3. ~(\E i \in Interrupters : Interrupt(i) \/ Interrupter(i))
    BY <1>1 DEF Interrupt, Interrupter, InterruptAborts, InterruptCancelReturns,
         InterruptReleases, LeaveKernel
  <1>4. ~(Close \/ Closer \/ Clients \/ Closed \/ UNCHANGED vars)
    BY <1>1 DEF Close, Closer, CloseAborts, CloseCancelReturns, CloseReleases, CloseJoins,
         CloseDrops, CloseDestroys, Clients, Enqueue, Respond, Closed, vars
  <1>5. PICK q \in Requesters : Requester(q)
    BY <1>2, <1>3, <1>4 DEF Next
  <1>6. CASE AskReleased(q) \/ AnnounceFails(q)
    <2>1. \E outcome \in {"cancelled", "failed"} : Ends(q, outcome, 0)
      BY <1>6 DEF AskReleased, AnnounceFails, EndsWithout
    <2> QED  BY <1>0, <2>1, PromptWrites
  <1>7. CASE Ask(q) \/ Announce(q)
    BY <1>0, <1>7, PromptWrites
  <1>8. CASE TakeResponse(q)
    <2>1. CASE ResponseStands
      BY <1>0, <2>1 DEF ResponseStands, StopOK
    <2>2. CASE ~ResponseStands
      <3>1. \E outcome \in {"cancelled", "expired"} : Ends(q, outcome, 0)
        BY <1>8, <2>2 DEF TakeResponse, EndsWithout
      <3> QED  BY <1>0, <3>1, PromptWrites
    <2> QED  BY <2>1, <2>2
  <1> QED  BY <1>5, <1>6, <1>7, <1>8 DEF Requester

\* Once a stop is in force in the kernel no answer reaches a tool of that Run, not
\* even one a client stored before the stop was asked for (takeResponseLocked): an
\* abort in force means that the Run is marked interrupted or the session closing.
THEOREM StoppedRunGetsNoAnswer == Spec => NoAnswerAfterStop
  <1> DEFINE A == \A r \in Requesters :
               prompt[r].outcome # "answered" /\ prompt'[r].outcome = "answered" =>
                 state # "abort_requested"
  <1>1. HostedInv /\ [Next]_vars => [A]_vars
    BY StepNoAnswer
  <1>2. NoAnswerAfterStop <=> [][A]_vars
    BY DEF NoAnswerAfterStop
  <1> HIDE DEF A
  <1> QED  BY HostedInductive, <1>1, <1>2, PTL DEF Spec

\* The refinement: enqueue accepts, nextWork takes, the end of a Run or a
\* command finishes, a close and a Run that poisons refuse.
LEMMA WorkQueueInit == Init => WQ!QInit
  BY DEF Init, WQ!QInit, NoWork

LEMMA WorkQueueStep ==
  ASSUME HostedInv, [Next]_vars
  PROVE  [WQ!QNext]_(WQ!qvars)
  <1> USE DEF WQ!QNext, WQ!qvars
  <1>0. /\ QueueOK /\ RunOK /\ queue \in Seq(WorkItem) /\ Len(queue) \in Nat
        /\ work.id \in Nat /\ accepted \in Nat /\ done \in Nat
    <2>1. queue \in Seq(WorkItem)
      BY DEF HostedInv, TypeOK
    <2>2. Len(queue) \in Nat
      BY <2>1, LenProperties
    <2> QED  BY <2>1, <2>2 DEF HostedInv, TypeOK, WorkItem, NoWork
  <1>1. ASSUME UNCHANGED <<accepted, work, done, closing, phase>> PROVE [WQ!QNext]_(WQ!qvars)
    BY <1>1
  <1>2. CASE TakeWork
    <2>1. queue # << >> /\ ~Refusing /\ driver = "take"
      BY <1>2 DEF TakeWork, HasWork, Refusing
    <2>2. work' = Head(queue) /\ UNCHANGED <<accepted, done, closing>>
          /\ phase' \in {phase, "running"}
      BY <1>2 DEF TakeWork
    <2>3. 1 \in 1 .. Len(queue) /\ Head(queue) = queue[1]
      BY <1>0, <2>1, EmptySeq
    <2>4. work'.id = work.id + 1 /\ work.id < accepted /\ work.id = done
      BY <1>0, <2>1, <2>2, <2>3 DEF QueueOK
    <2> QED  BY <2>1, <2>2, <2>4 DEF Refusing, WQ!Take
  <1>3. CASE FinishRun
    <2>1. work.id = done + 1 /\ done' = work.id /\ UNCHANGED <<accepted, work, closing>>
      BY <1>0, <1>3 DEF FinishRun, QueueOK
    <2>2. Refusing => Refusing'
      BY <1>0, <1>3 DEF FinishRun, RunOK, RunSteps, Refusing
    <2> QED  BY <2>1, <2>2 DEF WQ!Finish, Refusing
  <1>4. CASE CommandDone
    <2>1. work.id = done + 1 /\ done' = work.id /\ UNCHANGED <<accepted, work, closing, phase>>
      BY <1>0, <1>4 DEF CommandDone, QueueOK
    <2> QED  BY <2>1 DEF WQ!Finish
  <1>5. ASSUME NEW kind, Enqueue(kind) PROVE [WQ!QNext]_(WQ!qvars)
    BY <1>5 DEF Enqueue, WQ!Accept
  <1>6. CASE Close
    BY <1>6 DEF Close, WQ!Refuse
  <1>7. CASE Driver /\ ~TakeWork /\ ~FinishRun /\ ~CommandDone
    BY <1>1, <1>7 DEF Driver, DriverExits, Drained, RewindBegins, RewindEnds, Admit, PublishRun,
         DriverAborts, DriverCancelReturns, DriverReleases, Claim, Turn, TurnEnds, RunReturns,
         RunFails, RunReturned, Persist, Flush, MutateBegins, MutateEnds, CompactBegins,
         CompactCommits, CompactEnds
  <1>8. ASSUME NEW r \in Requesters, Requester(r) PROVE [WQ!QNext]_(WQ!qvars)
    BY <1>1, <1>8 DEF Requester, AskReleased, Ask, Announce, AnnounceFails, TakeResponse
  <1>9. ASSUME NEW i \in Interrupters, Interrupt(i) \/ Interrupter(i)
        PROVE  [WQ!QNext]_(WQ!qvars)
    BY <1>1, <1>9 DEF Interrupt, Interrupter, InterruptAborts, InterruptCancelReturns,
         InterruptReleases, LeaveKernel
  <1>10. CASE Closer \/ Closed \/ UNCHANGED vars
    BY <1>1, <1>10 DEF Closer, CloseAborts, CloseCancelReturns, CloseReleases, CloseJoins,
         CloseDrops, CloseDestroys, Closed, vars
  <1>11. ASSUME NEW id, NEW readable, Respond(id, readable) PROVE [WQ!QNext]_(WQ!qvars)
    BY <1>1, <1>11 DEF Respond
  <1> QED  BY <1>2, <1>3, <1>4, <1>5, <1>6, <1>7, <1>8, <1>9, <1>10, <1>11 DEF Next, Clients

\* The session implements the abstract work queue: accepted work is started in order,
\* one item at a time, never twice, and a closed or poisoned session starts nothing
\* (enqueue, nextWork, finishRun).
THEOREM QueueRefined == Spec => ImplementsWorkQueue
  BY WorkQueueInit, WorkQueueStep, HostedInductive, PTL DEF Spec, ImplementsWorkQueue, WQ!QSpec
===============================================================================
