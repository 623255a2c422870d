------------------------ MODULE RuntimeGenerations_proofs -----------------------
(***************************************************************************)
(* Proofs about RuntimeGenerations, for any threads and ids, any finite    *)
(* set of sessions and any number of generations.  The safety properties   *)
(* RuntimeGenerations.cfg checks follow from one inductive invariant, IInv.*)
(***************************************************************************)
EXTENDS RuntimeGenerations, FiniteSetTheorems, TLAPS

Held(g) == {s \in Sessions : session[s].stage # "none" /\ session[s].gen = g}

Named(s) == session[s].stage \in {"registered", "open", "closing"}

(* The lock is kept only by a call that builds a session on the active      *)
(* runtime, so nothing is published while one does.                         *)
LockForActive ==
  /\ \A t \in Threads : host_mutex = t =>
       /\ op[t].name \in {"choose", "build", "unregister", "release"}
       /\ op[t].gen = active
       /\ HostUsable
  /\ \A t \in Threads : In(t, "choose") => host_mutex = t

Replacing(t)  == op[t].name \in {"stage", "publish", "retire_previous", "reap_previous", "replaced"}
Destroying(t) == op[t].name \in {"retire_last", "reap_last", "host_free"}

(* One thread at most replaces the runtime or destroys the host, and what   *)
(* host_state says is which.                                                *)
OneOwnerCall ==
  /\ \A t \in Threads : Replacing(t) => host_state = "replacing"
  /\ \A t \in Threads : Destroying(t) => host_state = "destroying"
  /\ \A t, u \in Threads :
       (Replacing(t) \/ Destroying(t)) /\ (Replacing(u) \/ Destroying(u)) => t = u

(* Generations are numbered in the order they are published; the one being  *)
(* staged comes next and nothing refers to it yet.                          *)
NumbersInOrder ==
  /\ next_generation = Successor(active)
  /\ \A s \in Sessions : session[s].stage # "none" => session[s].gen <= active
  /\ \A t \in Threads :
       /\ op[t].name \in {"stage", "publish"} =>
            op[t].gen = next_generation /\ next_generation # Exhausted
       /\ op[t].name \notin {"stage", "publish"} => op[t].gen <= active
       /\ In(t, "retire_previous") => Standalone < op[t].gen /\ op[t].gen < active
       /\ In(t, "retire_last") => op[t].gen = active

(* What a call in progress says about the session it builds or destroys.    *)
CallsMatchSessions ==
  /\ \A t \in Threads :
       /\ op[t].session # NoSession =>
            op[t].name \in {"choose", "build", "unregister", "release"}
       /\ op[t].name \in {"choose", "build", "unregister", "release"} =>
            op[t].session \in Sessions
       /\ In(t, "choose") => session[op[t].session].stage = "none"
       /\ In(t, "build") => session[op[t].session].stage \in {"retained", "registered"}
       /\ In(t, "unregister") => session[op[t].session].stage \in {"registered", "closing"}
       /\ In(t, "release") => session[op[t].session].stage = "retained"
       /\ op[t].name \in {"build", "unregister", "release"} =>
            session[op[t].session].gen = op[t].gen
  /\ \A t, u \in Threads : op[t].session = op[u].session /\ op[t].session # NoSession => t = u

CountsExact ==
  \A g \in Generations : live_sessions[g] = Cardinality(Held(g))

RegistryExact ==
  /\ \A s \in Sessions : Named(s) =>
       session[s].id \in Ids /\ session[s].id \in session_ids[session[s].gen]
  /\ \A s \in Sessions : ~Named(s) => session[s].id = NoId
  /\ \A g \in Generations : \A id \in session_ids[g] :
       \E s \in Sessions : Named(s) /\ session[s].gen = g /\ session[s].id = id
  /\ IdsUniqueInRuntime

(* A runtime about to be freed is out of everyone else's reach.             *)
ReapedAlone ==
  /\ NoDanglingRuntime
  /\ \A t \in Threads : Reaping(t) => state[op[t].gen] = "destroying"
  /\ \A t \in Threads : op[t].name \in {"publish", "retire_previous", "retire_last"} =>
       memory[op[t].gen] = "alive" /\ state[op[t].gen] = "active"

IInv ==
  /\ TypeOK
  /\ LockForActive
  /\ OneOwnerCall
  /\ NumbersInOrder
  /\ CallsMatchSessions
  /\ CountsExact
  /\ RegistryExact
  /\ ReapedAlone

-----------------------------------------------------------------------------
(* A runtime has finitely many sessions.                                    *)
LEMMA HeldFinite == \A g : IsFiniteSet(Held(g))
  <1>1. \A g : Held(g) \subseteq Sessions
    BY DEF Held
  <1> QED  BY <1>1, SessionsFinite, FS_Subset

(* A count of zero means that no session holds the runtime.                 *)
LEMMA NoneLeftMeansNone ==
  ASSUME CountsExact, NEW g \in Generations, live_sessions[g] = 0
  PROVE  \A s \in Sessions : session[s].stage # "none" => session[s].gen # g
  <1>1. Held(g) = {}
    BY HeldFinite, FS_EmptySet DEF CountsExact
  <1> QED  BY <1>1 DEF Held

(* A count of one means that the session at hand is the only one.           *)
LEMMA LastOne ==
  ASSUME CountsExact, NEW g \in Generations, NEW s \in Held(g), live_sessions[g] = 1
  PROVE  \A r \in Sessions : session[r].stage # "none" /\ session[r].gen = g => r = s
  <1> DEFINE others == Held(g) \ {s}
  <1>0. Cardinality(Held(g)) = 1
    BY DEF CountsExact
  <1>1. Cardinality(others) = 0
    BY <1>0, HeldFinite, FS_RemoveElement
  <1>2. IsFiniteSet(others)
    BY HeldFinite, FS_RemoveElement
  <1>3. others = {}
    BY <1>1, <1>2, FS_EmptySet
  <1> QED  BY <1>3 DEF Held

(* A session that retains its runtime adds one to its sessions.             *)
LEMMA OneMore ==
  ASSUME NEW g, NEW s \in Sessions, s \notin Held(g), Held(g)' = Held(g) \cup {s}
  PROVE  Cardinality(Held(g)') = Cardinality(Held(g)) + 1
  BY HeldFinite, FS_AddElement

(* A session that releases it takes one away.                               *)
LEMMA OneLess ==
  ASSUME NEW g, NEW s \in Sessions, s \in Held(g), Held(g)' = Held(g) \ {s}
  PROVE  Cardinality(Held(g)') = Cardinality(Held(g)) - 1
  BY HeldFinite, FS_RemoveElement

(* IInv holds initially: no call is under way and no session exists.        *)
THEOREM InitInvariant == Init => IInv
  <1> SUFFICES ASSUME Init PROVE IInv
    OBVIOUS
  <1> USE GenerationBound, NoneIsNoValue DEF Init, In, Op, Outside, Absent, Session,
         Standalone, Generations
  <1>1. TypeOK
    BY DEF TypeOK, OpNames, Successor
  <1>2. LockForActive /\ OneOwnerCall
    BY DEF LockForActive, OneOwnerCall, Replacing, Destroying
  <1>3. NumbersInOrder
    BY DEF NumbersInOrder
  <1>4. CallsMatchSessions
    BY DEF CallsMatchSessions
  <1>5. CountsExact
    <2>1. \A g : Held(g) = {}
      BY DEF Held
    <2> QED  BY <2>1, FS_EmptySet DEF CountsExact
  <1>6. RegistryExact
    BY DEF RegistryExact, Named, IdsUniqueInRuntime
  <1>7. ReapedAlone
    BY DEF ReapedAlone, NoDanglingRuntime, Reaping
  <1> QED  BY <1>1, <1>2, <1>3, <1>4, <1>5, <1>6, <1>7 DEF IInv

-----------------------------------------------------------------------------

(* A session is begun: the lock pins the active runtime.                    *)
LEMMA CreateLocksKeeps ==
  ASSUME IInv, NEW t \in Threads, NEW s \in Sessions,
         CreateLocks(t, s)
  PROVE  IInv'
  <1> USE GenerationBound, NoneIsNoValue DEF CreateLocks, Unused, HostLockFree, In,
         Op, runtimeVars, Generations, HostUsable
  <1>1. TypeOK'
    BY DEF IInv, TypeOK, OpNames
  <1>2. LockForActive'
    BY DEF IInv, TypeOK, LockForActive
  <1>3. OneOwnerCall'
    BY DEF IInv, OneOwnerCall, Replacing, Destroying
  <1>4. NumbersInOrder'
    BY DEF IInv, TypeOK, NumbersInOrder
  <1>5. CallsMatchSessions'
    BY DEF IInv, CallsMatchSessions
  <1>6. CountsExact'
    <2>1. \A g \in Generations : Held(g)' = Held(g)
      BY DEF Held
    <2> QED  BY <2>1 DEF IInv, CountsExact
  <1>7. RegistryExact'
    BY DEF IInv, RegistryExact, Named, IdsUniqueInRuntime
  <1>8. ReapedAlone'
    BY DEF IInv, ReapedAlone, NoDanglingRuntime, Reaping
  <1> QED  BY <1>1, <1>2, <1>3, <1>4, <1>5, <1>6, <1>7, <1>8 DEF IInv

(* A session is recorded in a runtime that admits.                          *)
LEMMA RetainsKeeps ==
  ASSUME IInv, NEW t \in Threads, NEW g \in Generations, NEW s \in Sessions,
         Retains(t, g, s), UNCHANGED hostVars, session[s].stage = "none",
         memory[g] = "alive", state[g] = "active", g <= active,
         op[t].name \in {"none", "choose"}, host_mutex = t => g = active,
         \A u \in Threads \ {t} : op[u].session # s
  PROVE  IInv'
  <1> USE GenerationBound, NoneIsNoValue DEF Retains, Session, In, Op, hostVars,
         Standalone, HostUsable
  <1>1. TypeOK'
    <2>1. op' \in [Threads -> [name : OpNames, gen : Generations, session : Sessions \cup {NoSession}]]
      BY DEF IInv, TypeOK, OpNames
    <2>2. session' \in [Sessions -> [stage : {"none", "retained", "registered", "open", "closing"},
                                    gen : Generations, id : Ids \cup {NoId}]]
      BY DEF IInv, TypeOK
    <2>3. live_sessions' \in [Generations -> Nat]
      BY DEF IInv, TypeOK
    <2> QED  BY <2>1, <2>2, <2>3 DEF IInv, TypeOK
  <1>2. LockForActive'
    BY DEF IInv, LockForActive
  <1>3. OneOwnerCall'
    BY DEF IInv, OneOwnerCall, Replacing, Destroying
  <1>4. NumbersInOrder'
    BY DEF IInv, NumbersInOrder
  <1>5. CallsMatchSessions'
    BY DEF IInv, TypeOK, CallsMatchSessions
  <1>6. CountsExact'
    <2>2. Held(g)' = Held(g) \cup {s} /\ s \notin Held(g)
      BY DEF IInv, TypeOK, Held
    <2>3. Cardinality(Held(g)') = Cardinality(Held(g)) + 1
      BY <2>2, OneMore
    <2>4. \A h \in Generations \ {g} : Held(h)' = Held(h)
      BY DEF Held
    <2> QED  BY <2>3, <2>4 DEF IInv, TypeOK, CountsExact
  <1>7. RegistryExact'
    <2>1. \A r \in Sessions \ {s} : session'[r] = session[r]
      OBVIOUS
    <2>2. session'[s].stage = "retained" /\ session'[s].id = NoId /\ session[s].id = NoId
      BY DEF IInv, TypeOK, RegistryExact, Named
    <2> QED  BY <2>1, <2>2 DEF IInv, RegistryExact, Named, IdsUniqueInRuntime
  <1>8. ReapedAlone'
    BY DEF IInv, ReapedAlone, NoDanglingRuntime, Reaping
  <1> QED  BY <1>1, <1>2, <1>3, <1>4, <1>5, <1>6, <1>7, <1>8 DEF IInv

(* The session's id enters the registry, where it was not.                  *)
LEMMA CreateRegistersKeeps ==
  ASSUME IInv, NEW t \in Threads, NEW id \in Ids,
         CreateRegisters(t, id)
  PROVE  IInv'
  <1> USE GenerationBound, NoneIsNoValue DEF CreateRegisters, MayRegister, Session,
         In, hostVars, HostUsable
  <1>1. TypeOK'
    BY DEF IInv, TypeOK
  <1>2. LockForActive'
    BY DEF IInv, LockForActive
  <1>3. OneOwnerCall'
    BY DEF IInv, OneOwnerCall, Replacing, Destroying
  <1>4. NumbersInOrder'
    BY DEF IInv, NumbersInOrder
  <1>5. CallsMatchSessions'
    BY DEF IInv, CallsMatchSessions
  <1>6. CountsExact'
    <2>1. \A g \in Generations : Held(g)' = Held(g)
      BY DEF Held
    <2> QED  BY <2>1 DEF IInv, CountsExact
  <1>7. RegistryExact'
    <2>1. PICK g \in Generations, s \in Sessions :
            g = op[t].gen /\ s = op[t].session /\ session[s].stage = "retained" /\ session[s].gen = g
      BY DEF IInv, TypeOK, CallsMatchSessions
    <2>2. \A r \in Sessions \ {s} : session'[r] = session[r]
      BY <2>1
    <2>3. session'[s].stage = "registered" /\ session'[s].gen = g /\ session'[s].id = id
      BY <2>1 DEF IInv, TypeOK
    <2>4. session_ids'[g] = session_ids[g] \cup {id}
          /\ \A h \in Generations \ {g} : session_ids'[h] = session_ids[h]
      BY <2>1 DEF IInv, TypeOK
    <2>5. id \notin session_ids[g]
      BY <2>1
    <2>6. \A r \in Sessions : session[r].gen \in Generations
      BY DEF IInv, TypeOK
    <2> HIDE DEF CreateRegisters
    <2>7. \A r \in Sessions : Named(r)' <=> Named(r) \/ r = s
      BY <2>1, <2>2, <2>3 DEF Named
    <2>8. \A r \in Sessions : Named(r)' =>
            session'[r].id \in Ids /\ session'[r].id \in session_ids'[session'[r].gen]
      BY <2>2, <2>3, <2>4, <2>6, <2>7 DEF IInv, RegistryExact
    <2>9. \A r \in Sessions : ~Named(r)' => session'[r].id = NoId
      BY <2>2, <2>7 DEF IInv, RegistryExact
    <2>10. \A h \in Generations : \A i \in session_ids'[h] :
             \E r \in Sessions : Named(r)' /\ session'[r].gen = h /\ session'[r].id = i
      <3> SUFFICES ASSUME NEW h \in Generations, NEW i \in session_ids'[h]
                   PROVE  \E r \in Sessions : Named(r)' /\ session'[r].gen = h /\ session'[r].id = i
        OBVIOUS
      <3>1. CASE h = g /\ i = id
        BY <3>1, <2>1, <2>3, <2>7
      <3>2. CASE i \in session_ids[h]
        <4>1. PICK r \in Sessions : Named(r) /\ session[r].gen = h /\ session[r].id = i
          BY <3>2 DEF IInv, RegistryExact
        <4>2. r # s
          BY <4>1, <2>1 DEF Named
        <4> QED  BY <4>1, <4>2, <2>2, <2>7
      <3> QED  BY <3>1, <3>2, <2>4
    <2>11. IdsUniqueInRuntime'
      BY <2>1, <2>2, <2>3, <2>5, <2>6 DEF IInv, RegistryExact, IdsUniqueInRuntime
    <2> QED  BY <2>8, <2>9, <2>10, <2>11 DEF RegistryExact
  <1>8. ReapedAlone'
    BY DEF IInv, ReapedAlone, NoDanglingRuntime, Reaping
  <1> QED  BY <1>1, <1>2, <1>3, <1>4, <1>5, <1>6, <1>7, <1>8 DEF IInv

(* The session is open.                                                     *)
LEMMA CreateReturnsKeeps ==
  ASSUME IInv, NEW t \in Threads,
         CreateReturns(t)
  PROVE  IInv'
  <1> USE GenerationBound, NoneIsNoValue DEF CreateReturns, Returns, DropsHostLock,
         Session, In, Op, Outside, runtimeVars, Standalone, Generations, HostUsable
  <1>1. TypeOK'
    BY DEF IInv, TypeOK, OpNames, CallsMatchSessions
  <1>2. LockForActive'
    BY DEF IInv, LockForActive
  <1>3. OneOwnerCall'
    BY DEF IInv, OneOwnerCall, Replacing, Destroying
  <1>4. NumbersInOrder'
    BY DEF IInv, TypeOK, NumbersInOrder
  <1>5. CallsMatchSessions'
    BY DEF IInv, TypeOK, CallsMatchSessions
  <1>6. CountsExact'
    <2>1. \A g \in Generations : Held(g)' = Held(g)
      BY DEF Held
    <2> QED  BY <2>1 DEF IInv, CountsExact
  <1>7. RegistryExact'
    BY DEF IInv, RegistryExact, Named, IdsUniqueInRuntime
  <1>8. ReapedAlone'
    BY DEF IInv, ReapedAlone, NoDanglingRuntime, Reaping
  <1> QED  BY <1>1, <1>2, <1>3, <1>4, <1>5, <1>6, <1>7, <1>8 DEF IInv

(* A failed construction goes on to undo what it did.                       *)
LEMMA CreateFailsKeeps ==
  ASSUME IInv, NEW t \in Threads,
         CreateFails(t)
  PROVE  IInv'
  <1> USE GenerationBound, NoneIsNoValue DEF CreateFails, Goes, In, Op, hostVars,
         runtimeVars, HostUsable
  <1>1. TypeOK'
    BY DEF IInv, TypeOK, OpNames
  <1>2. LockForActive'
    BY DEF IInv, LockForActive
  <1>3. OneOwnerCall'
    BY DEF IInv, OneOwnerCall, Replacing, Destroying
  <1>4. NumbersInOrder'
    BY DEF IInv, NumbersInOrder
  <1>5. CallsMatchSessions'
    BY DEF IInv, CallsMatchSessions
  <1>6. CountsExact'
    <2>1. \A g \in Generations : Held(g)' = Held(g)
      BY DEF Held
    <2> QED  BY <2>1 DEF IInv, CountsExact
  <1>7. RegistryExact'
    BY DEF IInv, RegistryExact, Named, IdsUniqueInRuntime
  <1>8. ReapedAlone'
    BY DEF IInv, ReapedAlone, NoDanglingRuntime, Reaping
  <1> QED  BY <1>1, <1>2, <1>3, <1>4, <1>5, <1>6, <1>7, <1>8 DEF IInv

(* The owner destroys an open session.                                      *)
LEMMA DestroySessionKeeps ==
  ASSUME IInv, NEW t \in Threads, NEW s \in Sessions,
         DestroySession(t, s)
  PROVE  IInv'
  <1> USE GenerationBound, NoneIsNoValue DEF DestroySession, Session, In, Op,
         hostVars, runtimeVars, Standalone, Generations, HostUsable
  <1>1. TypeOK'
    BY DEF IInv, TypeOK, OpNames
  <1>2. LockForActive'
    BY DEF IInv, LockForActive
  <1>3. OneOwnerCall'
    BY DEF IInv, OneOwnerCall, Replacing, Destroying
  <1>4. NumbersInOrder'
    BY DEF IInv, NumbersInOrder
  <1>5. CallsMatchSessions'
    <2>1. /\ op'[t].name = "unregister" /\ op'[t].session = s /\ op'[t].gen = session[s].gen
          /\ session'[s].stage = "closing" /\ session'[s].gen = session[s].gen
      BY DEF IInv, TypeOK
    <2>2. /\ \A u \in Threads \ {t} : op'[u] = op[u]
          /\ \A r \in Sessions \ {s} : session'[r] = session[r]
      BY DEF IInv, TypeOK
    <2>3. \A u \in Threads \ {t} : op[u].session # s
      BY DEF IInv, CallsMatchSessions
    <2> HIDE DEF DestroySession
    <2> QED  BY <2>1, <2>2, <2>3, NoneIsNoValue DEF IInv, CallsMatchSessions
  <1>6. CountsExact'
    <2>1. \A g \in Generations : Held(g)' = Held(g)
      BY DEF Held
    <2> QED  BY <2>1 DEF IInv, CountsExact
  <1>7. RegistryExact'
    BY DEF IInv, RegistryExact, Named, IdsUniqueInRuntime
  <1>8. ReapedAlone'
    BY DEF IInv, ReapedAlone, NoDanglingRuntime, Reaping
  <1> QED  BY <1>1, <1>2, <1>3, <1>4, <1>5, <1>6, <1>7, <1>8 DEF IInv

(* The id leaves the registry; no other session had it.                     *)
LEMMA UnregistersSessionIdKeeps ==
  ASSUME IInv, NEW t \in Threads,
         UnregistersSessionId(t)
  PROVE  IInv'
  <1> USE GenerationBound, NoneIsNoValue DEF UnregistersSessionId, Goes, Session,
         In, Op, hostVars, HostUsable
  <1>1. TypeOK'
    BY DEF IInv, TypeOK, OpNames
  <1>2. LockForActive'
    BY DEF IInv, LockForActive
  <1>3. OneOwnerCall'
    BY DEF IInv, OneOwnerCall, Replacing, Destroying
  <1>4. NumbersInOrder'
    BY DEF IInv, NumbersInOrder, CallsMatchSessions
  <1>5. CallsMatchSessions'
    BY DEF IInv, TypeOK, CallsMatchSessions
  <1>6. CountsExact'
    <2>1. \A s \in Sessions :
            (session'[s].stage # "none" <=> session[s].stage # "none") /\ session'[s].gen = session[s].gen
      BY DEF IInv, CallsMatchSessions
    <2>2. \A g \in Generations : Held(g)' = Held(g)
      BY <2>1 DEF Held
    <2> QED  BY <2>2 DEF IInv, CountsExact
  <1>7. RegistryExact'
    BY DEF IInv, TypeOK, CallsMatchSessions, RegistryExact, Named,
       IdsUniqueInRuntime
  <1>8. ReapedAlone'
    <2>1. \A s \in Sessions :
            (session'[s].stage # "none" <=> session[s].stage # "none") /\ session'[s].gen = session[s].gen
      BY DEF IInv, CallsMatchSessions
    <2>2. \A u \in Threads : u # t => op'[u] = op[u]
      OBVIOUS
    <2>3. op'[t].name = "release"
      BY DEF IInv, TypeOK
    <2> QED  BY <2>1, <2>2, <2>3 DEF IInv, ReapedAlone, NoDanglingRuntime, Reaping
  <1> QED  BY <1>1, <1>2, <1>3, <1>4, <1>5, <1>6, <1>7, <1>8 DEF IInv

(* A session leaves its runtime, which others hold or the host still offers.*)
LEMMA ReleasesSessionKeeps ==
  ASSUME IInv, NEW t \in Threads,
         ReleasesSession(t)
  PROVE  IInv'
  <1> USE GenerationBound, NoneIsNoValue DEF ReleasesSession, LeavesRuntime,
         Returns, DropsHostLock, Absent, Session, In, Op, Outside, Standalone,
         Generations, HostUsable
  <1>1. TypeOK'
    <2>1. op[t].session \in Held(op[t].gen) /\ op[t].gen \in Generations
      BY DEF IInv, TypeOK, CallsMatchSessions, Held
    <2>2. live_sessions[op[t].gen] - 1 \in Nat
      BY <2>1, NoneLeftMeansNone DEF IInv, TypeOK, Held
    <2> QED  BY <2>1, <2>2 DEF IInv, TypeOK, OpNames, Held
  <1>2. LockForActive'
    BY DEF IInv, LockForActive
  <1>3. OneOwnerCall'
    BY DEF IInv, OneOwnerCall, Replacing, Destroying
  <1>4. NumbersInOrder'
    BY DEF IInv, TypeOK, NumbersInOrder
  <1>5. CallsMatchSessions'
    BY DEF IInv, TypeOK, CallsMatchSessions
  <1>6. CountsExact'
    <2>1. PICK g \in Generations, s \in Sessions :
            g = op[t].gen /\ s = op[t].session /\ session[s].stage = "retained" /\ session[s].gen = g
      BY DEF IInv, TypeOK, CallsMatchSessions
    <2>2. /\ session' = [session EXCEPT ![s] = Session("none", 0, NoId)]
          /\ live_sessions' = [live_sessions EXCEPT ![g] = live_sessions[g] - 1]
      BY <2>1
    <2> HIDE DEF ReleasesSession, LeavesRuntime
    <2>3. Held(g)' = Held(g) \ {s} /\ s \in Held(g)
      BY <2>1, <2>2 DEF IInv, TypeOK, Held
    <2>4. Cardinality(Held(g)') = Cardinality(Held(g)) - 1
      BY <2>1, <2>3, OneLess
    <2>5. \A h \in Generations \ {g} : Held(h)' = Held(h)
      BY <2>1, <2>2 DEF Held
    <2> QED  BY <2>1, <2>2, <2>4, <2>5 DEF IInv, TypeOK, CountsExact
  <1>7. RegistryExact'
    <2>1. op[t].session \in Sessions /\ session[op[t].session].stage = "retained"
      BY DEF IInv, CallsMatchSessions
    <2>2. \A r \in Sessions \ {op[t].session} : session'[r] = session[r]
      BY <2>1
    <2>3. session'[op[t].session].stage = "none" /\ session'[op[t].session].id = NoId
      BY <2>1 DEF IInv, TypeOK
    <2>4. session_ids' = session_ids
      OBVIOUS
    <2> QED  BY <2>1, <2>2, <2>3, <2>4 DEF IInv, RegistryExact, Named,
                IdsUniqueInRuntime
  <1>8. ReapedAlone'
    BY DEF IInv, ReapedAlone, NoDanglingRuntime, Reaping
  <1> QED  BY <1>1, <1>2, <1>3, <1>4, <1>5, <1>6, <1>7, <1>8 DEF IInv

(* The last session of a draining runtime goes on to free it.               *)
LEMMA ReleasesLastKeeps ==
  ASSUME IInv, NEW t \in Threads,
         ReleasesLast(t)
  PROVE  IInv'
  <1> USE GenerationBound, NoneIsNoValue DEF ReleasesLast, LeavesRuntime,
         LastOfDraining, Absent, Session, In, Op, Standalone, Generations,
         HostUsable
  <1>1. TypeOK'
    BY DEF IInv, TypeOK, OpNames, CallsMatchSessions
  <1>2. LockForActive'
    BY DEF IInv, LockForActive, ReapedAlone, NoDanglingRuntime
  <1>3. OneOwnerCall'
    BY DEF IInv, OneOwnerCall, Replacing, Destroying
  <1>4. NumbersInOrder'
    BY DEF IInv, NumbersInOrder
  <1>5. CallsMatchSessions'
    BY DEF IInv, TypeOK, CallsMatchSessions
  <1>6. CountsExact'
    <2>1. PICK g \in Generations, s \in Sessions :
            g = op[t].gen /\ s = op[t].session /\ session[s].stage = "retained" /\ session[s].gen = g
      BY DEF IInv, TypeOK, CallsMatchSessions
    <2>2. /\ session' = [session EXCEPT ![s] = Session("none", 0, NoId)]
          /\ live_sessions' = [live_sessions EXCEPT ![g] = live_sessions[g] - 1]
      BY <2>1
    <2> HIDE DEF ReleasesLast, LeavesRuntime
    <2>3. Held(g)' = Held(g) \ {s} /\ s \in Held(g)
      BY <2>1, <2>2 DEF IInv, TypeOK, Held
    <2>4. Cardinality(Held(g)') = Cardinality(Held(g)) - 1
      BY <2>1, <2>3, OneLess
    <2>5. \A h \in Generations \ {g} : Held(h)' = Held(h)
      BY <2>1, <2>2 DEF Held
    <2> QED  BY <2>1, <2>2, <2>4, <2>5 DEF IInv, TypeOK, CountsExact
  <1>7. RegistryExact'
    <2>1. op[t].session \in Sessions /\ session[op[t].session].stage = "retained"
      BY DEF IInv, CallsMatchSessions
    <2>2. \A r \in Sessions \ {op[t].session} : session'[r] = session[r]
      BY <2>1
    <2>3. session'[op[t].session].stage = "none" /\ session'[op[t].session].id = NoId
      BY <2>1 DEF IInv, TypeOK
    <2>4. session_ids' = session_ids
      OBVIOUS
    <2> QED  BY <2>1, <2>2, <2>3, <2>4 DEF IInv, RegistryExact, Named,
                IdsUniqueInRuntime
  <1>8. ReapedAlone'
    <2>1. \A r \in Sessions : session'[r].stage # "none" =>
            session[r].stage # "none" /\ session'[r].gen = session[r].gen /\ r # op[t].session
      BY DEF IInv, TypeOK
    <2>2. op[t].session \in Held(op[t].gen) /\ op[t].gen \in Generations
      BY DEF IInv, TypeOK, CallsMatchSessions, Held
    <2>3. \A r \in Sessions : session'[r].stage # "none" => session[r].gen # op[t].gen
      BY <2>1, <2>2, LastOne DEF IInv
    <2>4. memory[op[t].gen] = "alive" /\ state[op[t].gen] = "draining"
      BY <2>2 DEF IInv, ReapedAlone, NoDanglingRuntime, Held
    <2>5. op' = [op EXCEPT ![t] = Op("reap", op[t].gen, NoSession)]
          /\ state' = [state EXCEPT ![op[t].gen] = "destroying"]
      OBVIOUS
    <2>6. UNCHANGED <<host_state, active, memory>>
      OBVIOUS
    <2> HIDE DEF ReleasesLast, LeavesRuntime
    <2> QED  BY <2>1, <2>2, <2>3, <2>4, <2>5, <2>6 DEF IInv, TypeOK, ReapedAlone,
                NoDanglingRuntime, Reaping
  <1> QED  BY <1>1, <1>2, <1>3, <1>4, <1>5, <1>6, <1>7, <1>8 DEF IInv

(* replace claims the next number.                                          *)
LEMMA ReplaceBeginsKeeps ==
  ASSUME IInv, NEW t \in Threads,
         ReplaceBegins(t)
  PROVE  IInv'
  <1> USE GenerationBound, NoneIsNoValue DEF ReplaceBegins, MayReplace, In, Op,
         runtimeVars, HostUsable
  <1>1. TypeOK'
    BY DEF IInv, TypeOK, OpNames
  <1>2. LockForActive'
    BY DEF IInv, LockForActive
  <1>3. OneOwnerCall'
    BY DEF IInv, OneOwnerCall, Replacing, Destroying
  <1>4. NumbersInOrder'
    BY DEF IInv, NumbersInOrder
  <1>5. CallsMatchSessions'
    BY DEF IInv, CallsMatchSessions
  <1>6. CountsExact'
    <2>1. \A g \in Generations : Held(g)' = Held(g)
      BY DEF Held
    <2> QED  BY <2>1 DEF IInv, CountsExact
  <1>7. RegistryExact'
    BY DEF IInv, RegistryExact, Named, IdsUniqueInRuntime
  <1>8. ReapedAlone'
    BY DEF IInv, ReapedAlone, NoDanglingRuntime, Reaping
  <1> QED  BY <1>1, <1>2, <1>3, <1>4, <1>5, <1>6, <1>7, <1>8 DEF IInv

(* Staging failed.                                                          *)
LEMMA StagingFailsKeeps ==
  ASSUME IInv, NEW t \in Threads,
         StagingFails(t)
  PROVE  IInv'
  <1> USE GenerationBound, NoneIsNoValue DEF StagingFails, Returns, In, Op, Outside,
         runtimeVars, Standalone, Generations, HostUsable
  <1>1. TypeOK'
    BY DEF IInv, TypeOK, OpNames
  <1>2. LockForActive'
    BY DEF IInv, LockForActive
  <1>3. OneOwnerCall'
    BY DEF IInv, TypeOK, OneOwnerCall, Replacing, Destroying
  <1>4. NumbersInOrder'
    BY DEF IInv, TypeOK, NumbersInOrder
  <1>5. CallsMatchSessions'
    BY DEF IInv, CallsMatchSessions
  <1>6. CountsExact'
    <2>1. \A g \in Generations : Held(g)' = Held(g)
      BY DEF Held
    <2> QED  BY <2>1 DEF IInv, CountsExact
  <1>7. RegistryExact'
    BY DEF IInv, RegistryExact, Named, IdsUniqueInRuntime
  <1>8. ReapedAlone'
    BY DEF IInv, ReapedAlone, NoDanglingRuntime, Reaping, OneOwnerCall, Replacing
  <1> QED  BY <1>1, <1>2, <1>3, <1>4, <1>5, <1>6, <1>7, <1>8 DEF IInv

(* The successor is built; nothing refers to it yet.                        *)
LEMMA StagesKeeps ==
  ASSUME IInv, NEW t \in Threads,
         Stages(t)
  PROVE  IInv'
  <1> USE GenerationBound, NoneIsNoValue DEF Stages, Goes, In, Op, hostVars,
         Generations, HostUsable
  <1>1. TypeOK'
    BY DEF IInv, TypeOK, OpNames
  <1>2. LockForActive'
    BY DEF IInv, LockForActive
  <1>3. OneOwnerCall'
    BY DEF IInv, OneOwnerCall, Replacing, Destroying
  <1>4. NumbersInOrder'
    BY DEF IInv, NumbersInOrder
  <1>5. CallsMatchSessions'
    BY DEF IInv, CallsMatchSessions
  <1>6. CountsExact'
    <2> DEFINE g == op[t].gen
    <2>1. g \in Generations /\ g > active
      BY DEF IInv, TypeOK, NumbersInOrder, Successor
    <2>2. Held(g) = {} /\ \A h \in Generations : Held(h)' = Held(h)
      BY <2>1 DEF IInv, TypeOK, NumbersInOrder, Held
    <2>3. Cardinality(Held(g)) = 0
      BY <2>2, FS_EmptySet
    <2> QED  BY <2>1, <2>2, <2>3 DEF IInv, TypeOK, CountsExact
  <1>7. RegistryExact'
    <2>1. op[t].gen \in Generations /\ op[t].gen > active
      BY DEF IInv, TypeOK, NumbersInOrder, Successor
    <2>2. \A s \in Sessions : session[s].stage # "none" => session[s].gen # op[t].gen
      <3>1. \A s \in Sessions : session[s].stage # "none" =>
              session[s].gen <= active /\ session[s].gen \in Generations
        BY DEF IInv, TypeOK, NumbersInOrder
      <3>2. active \in Int
        BY DEF IInv, TypeOK
      <3> HIDE DEF Stages
      <3> QED  BY <2>1, <3>1, <3>2
    <2> QED  BY <2>1, <2>2 DEF IInv, RegistryExact, Named, IdsUniqueInRuntime
  <1>8. ReapedAlone'
    BY DEF IInv, TypeOK, ReapedAlone, NoDanglingRuntime, Reaping, OneOwnerCall,
       Destroying, NumbersInOrder, Successor, Exhausted
  <1> QED  BY <1>1, <1>2, <1>3, <1>4, <1>5, <1>6, <1>7, <1>8 DEF IInv

(* The admission pointer is swapped while no session is being built.        *)
LEMMA PublishesKeeps ==
  ASSUME IInv, NEW t \in Threads,
         Publishes(t)
  PROVE  IInv'
  <1> USE GenerationBound, NoneIsNoValue DEF Publishes, HostLockFree, Successor, In,
         Op, runtimeVars, Standalone, Generations, HostUsable
  <1>1. TypeOK'
    <2>1. active + 1 \in Generations /\ op[t].gen = active + 1
      BY DEF IInv, TypeOK, NumbersInOrder
    <2>2. active' \in Generations \ {Standalone} /\ next_generation' \in Generations \cup {Exhausted}
      BY <2>1 DEF IInv, TypeOK
    <2>3. op' \in [Threads -> [name : OpNames, gen : Generations, session : Sessions \cup {NoSession}]]
      BY DEF IInv, TypeOK, OpNames
    <2> QED  BY <2>2, <2>3 DEF IInv, TypeOK
  <1>2. LockForActive'
    BY DEF IInv, LockForActive
  <1>3. OneOwnerCall'
    BY DEF IInv, OneOwnerCall, Replacing, Destroying
  <1>4. NumbersInOrder'
    BY DEF IInv, TypeOK, NumbersInOrder, OneOwnerCall, Replacing, Destroying
  <1>5. CallsMatchSessions'
    BY DEF IInv, CallsMatchSessions
  <1>6. CountsExact'
    <2>1. \A g \in Generations : Held(g)' = Held(g)
      BY DEF Held
    <2> QED  BY <2>1 DEF IInv, CountsExact
  <1>7. RegistryExact'
    BY DEF IInv, RegistryExact, Named, IdsUniqueInRuntime
  <1>8. ReapedAlone'
    BY DEF IInv, ReapedAlone, NoDanglingRuntime, Reaping, OneOwnerCall, Replacing
  <1> QED  BY <1>1, <1>2, <1>3, <1>4, <1>5, <1>6, <1>7, <1>8 DEF IInv

(* The predecessor, or the last runtime, stops admitting.                   *)
LEMMA RetiresKeeps ==
  ASSUME IInv, NEW t \in Threads, NEW from, NEW reap, NEW done,
         \/ from = "retire_previous" /\ reap = "reap_previous" /\ done = "replaced"
         \/ from = "retire_last" /\ reap = "reap_last" /\ done = "host_free",
         Retires(t, from, reap, done)
  PROVE  IInv'
  <1> USE GenerationBound, NoneIsNoValue DEF Retires, Goes, In, Op, hostVars,
         Generations, HostUsable
  <1>1. TypeOK'
    BY DEF IInv, TypeOK, OpNames
  <1>2. LockForActive'
    BY DEF IInv, LockForActive
  <1>3. OneOwnerCall'
    BY DEF IInv, OneOwnerCall, Replacing, Destroying
  <1>4. NumbersInOrder'
    BY DEF IInv, NumbersInOrder
  <1>5. CallsMatchSessions'
    BY DEF IInv, CallsMatchSessions
  <1>6. CountsExact'
    <2>1. \A g \in Generations : Held(g)' = Held(g)
      BY DEF Held
    <2> QED  BY <2>1 DEF IInv, CountsExact
  <1>7. RegistryExact'
    BY DEF IInv, RegistryExact, Named, IdsUniqueInRuntime
  <1>8. ReapedAlone'
    <2>1. NoneLeft(op[t].gen) => \A s \in Sessions : session[s].stage # "none" => session[s].gen # op[t].gen
      BY NoneLeftMeansNone DEF IInv, TypeOK, NoneLeft
    <2> QED  BY <2>1 DEF IInv, TypeOK, ReapedAlone, NoDanglingRuntime, Reaping,
                OneOwnerCall, Replacing, Destroying, NumbersInOrder
  <1> QED  BY <1>1, <1>2, <1>3, <1>4, <1>5, <1>6, <1>7, <1>8 DEF IInv

(* A runtime nobody refers to is freed.                                     *)
LEMMA DestroyOwnedKeeps ==
  ASSUME IInv, NEW t \in Threads, NEW from, NEW done,
         \/ from = "reap" /\ done = "none"
         \/ from = "reap_previous" /\ done = "replaced"
         \/ from = "reap_last" /\ done = "host_free",
         DestroyOwned(t, from, done)
  PROVE  IInv'
  <1> USE GenerationBound, NoneIsNoValue DEF DestroyOwned, DropsHostLock, In, Op,
         Outside, Standalone, Generations, HostUsable
  <1>1. TypeOK'
    BY DEF IInv, TypeOK, OpNames
  <1>2. LockForActive'
    BY DEF IInv, LockForActive
  <1>3. OneOwnerCall'
    BY DEF IInv, OneOwnerCall, Replacing, Destroying
  <1>4. NumbersInOrder'
    BY DEF IInv, TypeOK, NumbersInOrder
  <1>5. CallsMatchSessions'
    BY DEF IInv, CallsMatchSessions
  <1>6. CountsExact'
    <2>1. \A g \in Generations : Held(g)' = Held(g)
      BY DEF Held
    <2> QED  BY <2>1 DEF IInv, CountsExact
  <1>7. RegistryExact'
    BY DEF IInv, RegistryExact, Named, IdsUniqueInRuntime
  <1>8. ReapedAlone'
    BY DEF IInv, TypeOK, ReapedAlone, NoDanglingRuntime, Reaping, LockForActive
  <1> QED  BY <1>1, <1>2, <1>3, <1>4, <1>5, <1>6, <1>7, <1>8 DEF IInv

(* replace returns.                                                         *)
LEMMA ReplaceReturnsKeeps ==
  ASSUME IInv, NEW t \in Threads,
         ReplaceReturns(t)
  PROVE  IInv'
  <1> USE GenerationBound, NoneIsNoValue DEF ReplaceReturns, Returns, In, Op,
         Outside, runtimeVars, Standalone, Generations, HostUsable
  <1>1. TypeOK'
    BY DEF IInv, TypeOK, OpNames
  <1>2. LockForActive'
    BY DEF IInv, LockForActive
  <1>3. OneOwnerCall'
    BY DEF IInv, TypeOK, OneOwnerCall, Replacing, Destroying
  <1>4. NumbersInOrder'
    BY DEF IInv, TypeOK, NumbersInOrder
  <1>5. CallsMatchSessions'
    BY DEF IInv, CallsMatchSessions
  <1>6. CountsExact'
    <2>1. \A g \in Generations : Held(g)' = Held(g)
      BY DEF Held
    <2> QED  BY <2>1 DEF IInv, CountsExact
  <1>7. RegistryExact'
    BY DEF IInv, RegistryExact, Named, IdsUniqueInRuntime
  <1>8. ReapedAlone'
    BY DEF IInv, ReapedAlone, NoDanglingRuntime, Reaping, OneOwnerCall, Replacing
  <1> QED  BY <1>1, <1>2, <1>3, <1>4, <1>5, <1>6, <1>7, <1>8 DEF IInv

(* The host's owner gives it up.                                            *)
LEMMA HostDestroyKeeps ==
  ASSUME IInv, NEW t \in Threads,
         HostDestroy(t)
  PROVE  IInv'
  <1> USE GenerationBound, NoneIsNoValue DEF HostDestroy, HostLockFree, In, Op,
         runtimeVars, Generations, HostUsable
  <1>1. TypeOK'
    BY DEF IInv, TypeOK, OpNames
  <1>2. LockForActive'
    BY DEF IInv, LockForActive
  <1>3. OneOwnerCall'
    BY DEF IInv, OneOwnerCall, Replacing, Destroying
  <1>4. NumbersInOrder'
    BY DEF IInv, TypeOK, NumbersInOrder
  <1>5. CallsMatchSessions'
    BY DEF IInv, CallsMatchSessions
  <1>6. CountsExact'
    <2>1. \A g \in Generations : Held(g)' = Held(g)
      BY DEF Held
    <2> QED  BY <2>1 DEF IInv, CountsExact
  <1>7. RegistryExact'
    BY DEF IInv, RegistryExact, Named, IdsUniqueInRuntime
  <1>8. ReapedAlone'
    BY DEF IInv, ReapedAlone, NoDanglingRuntime, Reaping
  <1> QED  BY <1>1, <1>2, <1>3, <1>4, <1>5, <1>6, <1>7, <1>8 DEF IInv

(* The host is freed.                                                       *)
LEMMA HostFreesKeeps ==
  ASSUME IInv, NEW t \in Threads,
         HostFrees(t)
  PROVE  IInv'
  <1> USE GenerationBound, NoneIsNoValue DEF HostFrees, Returns, In, Op, Outside,
         runtimeVars, Standalone, Generations, HostUsable
  <1>1. TypeOK'
    BY DEF IInv, TypeOK, OpNames
  <1>2. LockForActive'
    BY DEF IInv, LockForActive, OneOwnerCall, Destroying
  <1>3. OneOwnerCall'
    BY DEF IInv, TypeOK, OneOwnerCall, Replacing, Destroying
  <1>4. NumbersInOrder'
    BY DEF IInv, TypeOK, NumbersInOrder
  <1>5. CallsMatchSessions'
    BY DEF IInv, CallsMatchSessions
  <1>6. CountsExact'
    <2>1. \A g \in Generations : Held(g)' = Held(g)
      BY DEF Held
    <2> QED  BY <2>1 DEF IInv, CountsExact
  <1>7. RegistryExact'
    BY DEF IInv, RegistryExact, Named, IdsUniqueInRuntime
  <1>8. ReapedAlone'
    BY DEF IInv, ReapedAlone, NoDanglingRuntime, Reaping
  <1> QED  BY <1>1, <1>2, <1>3, <1>4, <1>5, <1>6, <1>7, <1>8 DEF IInv

(* A runtime without sessions is destroyed.                                 *)
LEMMA StandaloneDestroyKeeps ==
  ASSUME IInv, NEW t \in Threads,
         StandaloneDestroy(t)
  PROVE  IInv'
  <1> USE GenerationBound, NoneIsNoValue DEF StandaloneDestroy, NoneLeft, In, Op,
         hostVars, Standalone, Generations, HostUsable
  <1>1. TypeOK'
    BY DEF IInv, TypeOK, OpNames
  <1>2. LockForActive'
    BY DEF IInv, LockForActive
  <1>3. OneOwnerCall'
    BY DEF IInv, OneOwnerCall, Replacing, Destroying
  <1>4. NumbersInOrder'
    BY DEF IInv, TypeOK, NumbersInOrder
  <1>5. CallsMatchSessions'
    BY DEF IInv, CallsMatchSessions
  <1>6. CountsExact'
    <2>1. \A g \in Generations : Held(g)' = Held(g)
      BY DEF Held
    <2> QED  BY <2>1 DEF IInv, CountsExact
  <1>7. RegistryExact'
    BY DEF IInv, RegistryExact, Named, IdsUniqueInRuntime
  <1>8. ReapedAlone'
    <2>1. NoneLeft(Standalone) => \A s \in Sessions : session[s].stage # "none" => session[s].gen # Standalone
      BY NoneLeftMeansNone DEF IInv
    <2> QED  BY <2>1 DEF IInv, TypeOK, ReapedAlone, NoDanglingRuntime, Reaping,
                NumbersInOrder, Successor
  <1> QED  BY <1>1, <1>2, <1>3, <1>4, <1>5, <1>6, <1>7, <1>8 DEF IInv

-----------------------------------------------------------------------------
(* A step of Next is one of the above, ends the run, or changes nothing.    *)
THEOREM NextInvariant == IInv /\ [Next]_vars => IInv'
  <1> SUFFICES ASSUME IInv, [Next]_vars PROVE IInv'
    OBVIOUS
  <1>1. ASSUME NEW t \in Threads, Begin(t) PROVE IInv'
    <2>1. ASSUME NEW s \in Sessions, CreateLocks(t, s) PROVE IInv'
      BY <2>1, CreateLocksKeeps
    <2>2. ASSUME NEW s \in Sessions, StandaloneCreates(t, s) PROVE IInv'
      <3>1. /\ Standalone \in Generations /\ Standalone <= active
            /\ memory[Standalone] = "alive" /\ state[Standalone] = "active"
        BY <2>2, GenerationBound DEF StandaloneCreates, Standalone, Generations,
           IInv, TypeOK
      <3>2. /\ op[t].name = "none" /\ session[s].stage = "none" /\ host_mutex # t
            /\ \A u \in Threads \ {t} : op[u].session # s
        BY <2>2 DEF StandaloneCreates, Unused, In, IInv, LockForActive
      <3>3. Retains(t, Standalone, s) /\ UNCHANGED hostVars
        BY <2>2 DEF StandaloneCreates
      <3> QED  BY <3>1, <3>2, <3>3, RetainsKeeps
    <2>3. ASSUME NEW s \in Sessions, DestroySession(t, s) PROVE IInv'
      BY <2>3, DestroySessionKeeps
    <2> QED  BY <1>1, <2>1, <2>2, <2>3, ReplaceBeginsKeeps, HostDestroyKeeps,
                StandaloneDestroyKeeps DEF Begin
  <1>2. ASSUME NEW t \in Threads, Continue(t) PROVE IInv'
    <2>1. ASSUME CreateRetains(t) PROVE IInv'
      <3> DEFINE g == op[t].gen  s == op[t].session
      <3>1. /\ op[t].name = "choose" /\ g \in Generations /\ s \in Sessions
            /\ session[s].stage = "none"
            /\ \A u \in Threads \ {t} : op[u].session # s
        BY <2>1, NoneIsNoValue DEF CreateRetains, In, IInv, TypeOK,
           CallsMatchSessions
      <3>2. g = active /\ state[g] = "active" /\ memory[g] = "alive"
        BY <3>1 DEF In, IInv, LockForActive, ReapedAlone, NoDanglingRuntime
      <3>3. Retains(t, g, s) /\ UNCHANGED hostVars
        BY <2>1, <3>2 DEF CreateRetains
      <3>4. g <= active
        BY <3>1, <3>2 DEF IInv, NumbersInOrder
      <3> HIDE DEF g, s
      <3> QED  BY <3>1, <3>2, <3>3, <3>4, RetainsKeeps
    <2>2. ASSUME NEW id \in Ids, CreateRegisters(t, id) PROVE IInv'
      BY <2>2, CreateRegistersKeeps
    <2>3. CASE \/ CreateReturns(t) \/ CreateFails(t) \/ UnregistersSessionId(t)
               \/ ReleasesSession(t) \/ ReleasesLast(t)
      BY <2>3, CreateReturnsKeeps, CreateFailsKeeps, UnregistersSessionIdKeeps,
         ReleasesSessionKeeps, ReleasesLastKeeps
    <2>4. CASE StagingFails(t) \/ Stages(t) \/ Publishes(t) \/ ReplaceReturns(t) \/ HostFrees(t)
      BY <2>4, StagingFailsKeeps, StagesKeeps, PublishesKeeps, ReplaceReturnsKeeps, HostFreesKeeps
    <2>5. CASE \/ Retires(t, "retire_previous", "reap_previous", "replaced")
               \/ Retires(t, "retire_last", "reap_last", "host_free")
      BY <2>5, RetiresKeeps
    <2>6. CASE \/ DestroyOwned(t, "reap", "none")
               \/ DestroyOwned(t, "reap_previous", "replaced")
               \/ DestroyOwned(t, "reap_last", "host_free")
      BY <2>6, DestroyOwnedKeeps
    <2> QED  BY <1>2, <2>1, <2>2, <2>3, <2>4, <2>5, <2>6 DEF Continue
  <1>3. CASE UNCHANGED vars
    BY <1>3 DEF vars, hostVars, runtimeVars, IInv, TypeOK, LockForActive,
       OneOwnerCall, Replacing, Destroying, NumbersInOrder, CallsMatchSessions,
       CountsExact, Held, RegistryExact, Named, IdsUniqueInRuntime, ReapedAlone,
       NoDanglingRuntime, Reaping, HostUsable, In
  <1> QED  BY <1>1, <1>2, <1>3 DEF Next, Finished

(* Every reachable state satisfies the inductive invariant.                 *)
THEOREM Invariance == Spec => []IInv
  BY InitInvariant, NextInvariant, PTL DEF Spec

-----------------------------------------------------------------------------
(* Every reachable state is well typed: a generation number never passes    *)
(* the last one, and live_sessions never drops below zero.                  *)
THEOREM TypeCorrect == Spec => []TypeOK
  <1>1. IInv => TypeOK
    BY DEF IInv
  <1> QED  BY <1>1, Invariance, PTL

(* No session, host or call refers to a freed runtime, and a runtime is     *)
(* freed by one call, once.                                                 *)
THEOREM RuntimesOutliveUse == Spec => []NoDanglingRuntime
  <1>1. IInv => NoDanglingRuntime
    BY DEF IInv, ReapedAlone
  <1> QED  BY <1>1, Invariance, PTL

(* RuntimeHost.createSession is never refused by a replacement.             *)
THEOREM ChosenRuntimesAdmit == Spec => []ChosenRuntimeAdmits
  <1>1. IInv => ChosenRuntimeAdmits
    BY DEF IInv, LockForActive, ReapedAlone, NoDanglingRuntime, ChosenRuntimeAdmits
  <1> QED  BY <1>1, Invariance, PTL

(* Plugin cleanup never runs under the host's lock.                         *)
THEOREM CleanupIsOffLock == Spec => []CleanupOffLock
  <1>1. IInv => CleanupOffLock
    BY DEF IInv, LockForActive, CleanupOffLock, Reaping
  <1> QED  BY <1>1, Invariance, PTL

(* The asserts in the code never fail.                                      *)
THEOREM AssertionsAlwaysHold == Spec => []AssertionsHold
  <1>1. IInv => AssertionsHold
    <2> SUFFICES ASSUME IInv, NEW t \in Threads
                 PROVE  LET g == op[t].gen IN
                   /\ op[t].name \in {"stage", "publish", "replaced"} => host_state = "replacing"
                   /\ op[t].name \in {"retire_previous", "retire_last"} => state[g] = "active"
                   /\ Reaping(t) =>
                        state[g] = "destroying" /\ live_sessions[g] = 0 /\ session_ids[g] = {}
                   /\ In(t, "unregister") => session[op[t].session].id \in session_ids[g]
                   /\ In(t, "release") => live_sessions[g] > 0
      BY DEF AssertionsHold
    <2> DEFINE g == op[t].gen
    <2>1. g \in Generations /\ live_sessions[g] \in Nat
      BY DEF IInv, TypeOK
    <2>2. op[t].name \in {"stage", "publish", "replaced"} => host_state = "replacing"
      BY DEF IInv, OneOwnerCall, Replacing
    <2>3. op[t].name \in {"retire_previous", "retire_last"} => state[g] = "active"
      BY DEF IInv, ReapedAlone
    <2>4. ASSUME Reaping(t)
          PROVE  state[g] = "destroying" /\ live_sessions[g] = 0 /\ session_ids[g] = {}
      <3>1. state[g] = "destroying"
        BY <2>4 DEF IInv, ReapedAlone
      <3>2. Held(g) = {}
        BY <3>1 DEF IInv, ReapedAlone, NoDanglingRuntime, Held
      <3>3. live_sessions[g] = 0
        BY <2>1, <3>2, FS_EmptySet DEF IInv, CountsExact
      <3>4. session_ids[g] = {}
        BY <2>1, <3>2 DEF IInv, RegistryExact, Named, Held
      <3> QED  BY <3>1, <3>3, <3>4
    <2>5. In(t, "unregister") => session[op[t].session].id \in session_ids[g]
      BY DEF In, IInv, CallsMatchSessions, RegistryExact, Named
    <2>6. In(t, "release") => live_sessions[g] > 0
      <3>1. ASSUME In(t, "release") PROVE op[t].session \in Held(g)
        BY <3>1 DEF In, IInv, CallsMatchSessions, Held
      <3>2. In(t, "release") => live_sessions[g] # 0
        BY <2>1, <3>1, NoneLeftMeansNone DEF IInv, Held
      <3> QED  BY <2>1, <3>2
    <2> QED  BY <2>2, <2>3, <2>4, <2>5, <2>6
  <1> QED  BY <1>1, Invariance, PTL

(* The registry of a runtime is the ids of the sessions recorded in it, and *)
(* no two of these have one id: a creation that failed left none behind.    *)
THEOREM RegistryIsTrue == Spec => []RegistryTrue
  <1>1. IInv => RegistryTrue
    <2> SUFFICES ASSUME IInv PROVE RegistryTrue
      OBVIOUS
    <2>1. IdsUniqueInRuntime
      BY DEF IInv, RegistryExact
    <2>2. ASSUME NEW g \in Generations
          PROVE  session_ids[g] =
                   {session[s].id : s \in {r \in Sessions : session[r].gen = g}} \ {NoId}
      <3>1. ASSUME NEW id \in session_ids[g]
            PROVE  id # NoId /\ \E s \in Sessions : session[s].gen = g /\ session[s].id = id
        BY <3>1, NoneIsNoValue DEF IInv, RegistryExact
      <3>2. ASSUME NEW s \in Sessions, session[s].gen = g, session[s].id # NoId
            PROVE  session[s].id \in session_ids[g]
        BY <3>2 DEF IInv, RegistryExact
      <3> QED  BY <3>1, <3>2
    <2> QED  BY <2>1, <2>2 DEF RegistryTrue
  <1> QED  BY <1>1, Invariance, PTL
=============================================================================
