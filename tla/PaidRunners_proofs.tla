-------------------------- MODULE PaidRunners_proofs --------------------------
(***************************************************************************)
(* The paid runners, for any runner, processes, directories, schedules and *)
(* bounds, with deaths and power losses.  No cell of a schedule gets a     *)
(* second session (PaidOnce): a session leaves an authorization in the     *)
(* journal that no power loss takes back, and who reserves a cell, under   *)
(* the flock, has seen that there is none.  A scored row never runs ahead  *)
(* of the journal (CheckpointTrue).  No session starts while another runs  *)
(* or while an attempt is not accounted for (StopsEverything).  Each       *)
(* attempt of a chain starts from what the one before it left              *)
(* (ChainLinked).  What was spent is exposed in the journal and within     *)
(* what was authorized (SpendCovered).  Every variable has its type        *)
(* (TypeOK).  What a power loss leaves of the journal is the ledger it     *)
(* promises (LedgerKept).  And to whoever pays, a runner is a schedule     *)
(* walked through in order (ScheduleKept).                                 *)
(***************************************************************************)
EXTENDS PaidRunners, BudgetJournal_proofs, WellFoundedInduction, FiniteSetTheorems

\* A paid request for cell c was authorized.
Paid(d, c) == \E i \in DOMAIN d : d[i].action = "request_authorized" /\ d[i].run = c

\* Between the call that opens the journal and the one that closes it; and of
\* these, the points at which a cell was reserved.
Holding == Course \ {"idle", "opening"}
OnCell  == {"reserving", "authorizing", "running", "exported", "ledgered", "committing"}

JobTyped == [pc : Course, dir : Dir \cup {NoDir}, resume : BOOLEAN,
             cell : Run \cup {0}, tx : Int, store : Note]

\* A cell is left that the runner prepared for.
PreparedOK(p) == At(p, "prepared") => Remaining(job[p].dir) # {}

\* A runner that reserves a cell: nobody has paid for it.
ReservingOK(p) == At(p, "reserving") /\ jstep # "raised" =>
    /\ ~Paid(jdisk, job[p].cell)
    /\ jstep \in {"write", "replace"} => jevent.action = "reserved"

\* One that authorizes: its session was not started, and is only once it may be.
AuthorizingOK(p) == At(p, "authorizing") /\ jstep # "raised" =>
    /\ sessions[job[p].cell] = 0
    /\ jstep \in {"write", "replace"} =>
          jevent.action = "request_authorized" /\ jevent.run = job[p].cell
    /\ jstep = "sync" => Paid(jdisk, job[p].cell)
    /\ jstep = "idle" => Paid(jsynced, job[p].cell)

JobOK(p) ==
    /\ job[p].pc # "idle" => job[p].dir \in Dir
    /\ job[p].pc \in Holding => jlock = p
    /\ job[p].pc \in OnCell => job[p].cell \in Run
    /\ PreparedOK(p) /\ ReservingOK(p) /\ AuthorizingOK(p)

SessionsOK ==
    /\ sessions \in [Run -> Nat] /\ cost \in [Run -> Int]
    /\ \A c \in Run : sessions[c] <= 1 /\ (sessions[c] > 0 => Paid(jsynced, c))

FilesOK == kind \in Kind /\ archive \in [Dir -> [Run -> Note]]

IInv ==
    /\ JInv
    /\ job \in [Proc -> JobTyped]
    /\ FilesOK /\ SessionsOK
    /\ \A p \in Proc : JobOK(p)

-----------------------------------------------------------------------------
(* What a document says of a cell                                            *)

USE RunnerAssumption, JournalAssumption

\* A live reservation, or none, and nobody has paid for its cell.
LEMMA ReservedUnpaid ==
  ASSUME NEW d, Sound(d), NEW t, State(d, t) = "reserved"
  PROVE  ~Paid(d, d[t].run)
  <1> SUFFICES ASSUME NEW i \in DOMAIN d, d[i].action = "request_authorized",
                      d[i].run = d[t].run
               PROVE  FALSE
    BY DEF Paid
  <1> DEFINE u == d[i].tx
  <1>1. t \in Transactions(d) /\ u \in Transactions(d)
    BY StateFacts
  <1>2. /\ t \in DOMAIN d /\ u \in DOMAIN d /\ t \in Int /\ u \in Int
        /\ d[t].action = "reserved" /\ d[u].action = "reserved"
    BY <1>1 DEF Sound, Transactions
  <1>3. d[u].run = d[t].run
    BY DEF Sound, TxEarlier
  <1>4. \A j \in DOMAIN d : d[j].action = "aborted_pre_request" => d[j].tx # u
    BY DEF Sound, SettledOnce
  <1>5. \A j \in DOMAIN d : d[j].action = "aborted_pre_request" => d[j].tx # t
    BY StateFacts
  <1>6. \A j \in DOMAIN d : \A k \in 1 .. j - 1 : k \in DOMAIN d
    BY DEF Sound
  <1>7. ~(t < u) /\ ~(u < t)
    BY <1>2, <1>3, <1>4, <1>5, <1>6 DEF Sound, OneLive
  <1>8. u # t
    BY StateFacts
  <1> QED  BY <1>2, <1>7, <1>8

LEMMA LiveUnpaid ==
  ASSUME NEW d, Sound(d), NEW c, Live(d, c) = {}
  PROVE  ~Paid(d, c)
  <1> SUFFICES ASSUME NEW i \in DOMAIN d, d[i].action = "request_authorized",
                      d[i].run = c
               PROVE  d[i].tx \in Live(d, c)
    BY DEF Paid
  <1>1. d[i].tx \in Transactions(d) /\ State(d, d[i].tx) \in {"request_authorized", "committed"}
    BY StateFacts
  <1>2. d[d[i].tx].run = c
    BY DEF Sound, TxEarlier
  <1> QED  BY <1>1, <1>2 DEF Live

\* What was paid for durably is on the disk.
LEMMA PaidOnDisk ==
  ASSUME JInv, NEW c, Paid(jsynced, c)
  PROVE  Paid(jdisk, c)
  BY PrefixFacts DEF JInv, Paid

\* The cells of the schedule are runs, and the next one is the first that is left.
LEMMA NextCellLeft ==
  ASSUME kind \in Kind, NEW d, Remaining(d) # {}
  PROVE  /\ NextCell(d) \in Run /\ NextCell(d) \in 1 .. Length[kind]
         /\ NextCell(d) \notin Done(d) /\ \A c \in 1 .. NextCell(d) - 1 : c \in Done(d)
  <1>1. Remaining(d) \subseteq 1 .. Length[kind] /\ 1 .. Length[kind] \subseteq Run
        /\ Length[kind] \in Nat
    BY DEF Remaining
  <1>2. Remaining(d) \subseteq Nat
    BY <1>1
  <1>3. PICK x \in Remaining(d) : \A y \in Remaining(d) : <<y, x>> \notin OpToRel(<, Nat)
    BY <1>2, NatLessThanWellFounded, WFMin, Zenon
  <1>4. \A y \in Remaining(d) : ~(y < x)
    BY <1>2, <1>3 DEF OpToRel
  <1>5. \A y \in Remaining(d) : x <= y
    BY <1>2, <1>4
  <1>6. NextCell(d) \in Remaining(d) /\ \A y \in Remaining(d) : NextCell(d) <= y
    BY <1>3, <1>5, Zenon DEF NextCell, Min
  <1>7. ASSUME NEW c \in 1 .. NextCell(d) - 1
        PROVE  c \in Done(d)
    <2>1. c \in 1 .. Length[kind] /\ ~(NextCell(d) <= c)
      BY <1>1, <1>2, <1>6
    <2>2. c \notin Remaining(d)
      BY <1>6, <2>1
    <2> QED  BY <2>1, <2>2 DEF Remaining
  <1>8. NextCell(d) \notin Done(d)
    BY <1>6 DEF Remaining
  <1> QED  BY <1>1, <1>6, <1>7, <1>8

LEMMA ImportTyped ==
  ASSUME FilesOK, NEW d \in Dir, NEW c \in 1 .. Length[kind], c \in Run
  PROVE  Import(d, c) \in Note
  <1>1. CASE c = 1
    BY <1>1 DEF Import
  <1>2. CASE c # 1
    <2>1. Length[kind] \in Nat /\ c - 1 \in 1 .. Length[kind]
      BY <1>2 DEF FilesOK
    <2>2. c - 1 \in Run
      BY <2>1 DEF FilesOK
    <2> QED  BY <1>2, <2>2 DEF Import, FilesOK
  <1> QED  BY <1>1, <1>2

-----------------------------------------------------------------------------
(* One runner moves, the others stay                                         *)

\* p alone changes its job.
JobStep(p) == job' \in [Proc -> JobTyped] /\ \A q \in Proc : q # p => job'[q] = job[q]

LEMMA JobSet ==
  ASSUME job \in [Proc -> JobTyped], NEW p \in Proc, NEW j \in JobTyped,
         job' = [job EXCEPT ![p] = j]
  PROVE  JobStep(p) /\ job'[p] = j
  BY DEF JobStep

LEMMA JobGoto ==
  ASSUME job \in [Proc -> JobTyped], NEW p \in Proc, NEW pc \in Course, Goto(p, pc)
  PROVE  /\ JobStep(p) /\ job'[p].pc = pc
         /\ job'[p].cell = job[p].cell /\ job'[p].dir = job[p].dir /\ job'[p].tx = job[p].tx
  BY DEF JobStep, JobTyped, Goto

LEMMA JobAuthorize ==
  ASSUME job \in [Proc -> JobTyped], NEW p \in Proc, NEW t \in Int,
         job' = [job EXCEPT ![p].pc = "authorizing", ![p].tx = t]
  PROVE  /\ JobStep(p) /\ job'[p].pc = "authorizing"
         /\ job'[p].cell = job[p].cell /\ job'[p].dir = job[p].dir
  <1> DEFINE j == [job[p] EXCEPT !.pc = "authorizing", !.tx = t]
  <1>1. job[p] \in JobTyped /\ "authorizing" \in Course
    BY DEF Course
  <1>2. /\ j \in JobTyped /\ j.pc = "authorizing" /\ j.cell = job[p].cell
        /\ j.dir = job[p].dir
    BY <1>1 DEF JobTyped
  <1>3. job' = [job EXCEPT ![p] = j]
    OBVIOUS
  <1> HIDE DEF j
  <1> QED  BY <1>2, <1>3, JobSet

LEMMA JobReserve ==
  ASSUME job \in [Proc -> JobTyped], NEW p \in Proc, NEW c \in Run, NEW store \in Note,
         job' = [job EXCEPT ![p].pc = "reserving", ![p].cell = c, ![p].store = store]
  PROVE  /\ JobStep(p) /\ job'[p].pc = "reserving"
         /\ job'[p].cell = c /\ job'[p].dir = job[p].dir
  <1> DEFINE j == [job[p] EXCEPT !.pc = "reserving", !.cell = c, !.store = store]
  <1>1. job[p] \in JobTyped /\ "reserving" \in Course
    BY DEF Course
  <1>2. /\ j \in JobTyped /\ j.pc = "reserving" /\ j.cell = c /\ j.dir = job[p].dir
    BY <1>1 DEF JobTyped
  <1>3. job' = [job EXCEPT ![p] = j]
    OBVIOUS
  <1> HIDE DEF j
  <1> QED  BY <1>2, <1>3, JobSet

LEMMA IdleTyped == Idle \in JobTyped /\ Idle.pc = "idle"
  BY DEF Idle, JobTyped, Course

LEMMA JobStart ==
  ASSUME job \in [Proc -> JobTyped], NEW p \in Proc, NEW pc \in Course, NEW d \in Dir,
         \/ \E resume \in BOOLEAN :
               job' = [job EXCEPT ![p] = [Idle EXCEPT !.pc = pc, !.dir = d, !.resume = resume]]
         \/ job' = [job EXCEPT ![p] = [Idle EXCEPT !.pc = pc, !.dir = d]]
  PROVE  JobStep(p) /\ job'[p].pc = pc /\ job'[p].dir = d
  <1>1. Idle \in [pc : Course, dir : Dir \cup {NoDir}, resume : BOOLEAN,
                  cell : Run \cup {0}, tx : Int, store : Note]
    BY IdleTyped, Zenon DEF JobTyped
  <1>2. ASSUME NEW resume \in BOOLEAN,
               job' = [job EXCEPT ![p] = [Idle EXCEPT !.pc = pc, !.dir = d, !.resume = resume]]
        PROVE  JobStep(p) /\ job'[p].pc = pc /\ job'[p].dir = d
    <2> DEFINE j == [Idle EXCEPT !.pc = pc, !.dir = d, !.resume = resume]
    <2>1. j \in JobTyped /\ j.pc = pc /\ j.dir = d
      BY <1>1, Zenon DEF JobTyped
    <2>2. job' = [job EXCEPT ![p] = j]
      BY <1>2, Zenon
    <2> HIDE DEF j
    <2> QED  BY <2>1, <2>2, JobSet, Zenon
  <1>3. CASE job' = [job EXCEPT ![p] = [Idle EXCEPT !.pc = pc, !.dir = d]]
    <2> DEFINE j == [Idle EXCEPT !.pc = pc, !.dir = d]
    <2>1. j \in JobTyped /\ j.pc = pc /\ j.dir = d
      BY <1>1, Zenon DEF JobTyped
    <2>2. job' = [job EXCEPT ![p] = j]
      BY <1>3
    <2> HIDE DEF j
    <2> QED  BY <2>1, <2>2, JobSet, Zenon
  <1> QED  BY <1>2, <1>3, Zenon

\* A runner that does not hold the lock claims nothing, ...
LEMMA OtherJob ==
  ASSUME NEW q \in Proc, JobOK(q), jlock # q, job'[q] = job[q]
  PROVE  JobOK(q)'
  BY DEF JobOK, Holding, Course, OnCell, At, PreparedOK, ReservingOK, AuthorizingOK

LEMMA UntouchedJob ==
  ASSUME NEW q \in Proc, JobOK(q), job'[q] = job[q],
         UNCHANGED <<jdisk, jsynced, jlock, jstep, jevent, sessions, checkpoint, kind>>
  PROVE  JobOK(q)'
  BY DEF JobOK, At, PreparedOK, ReservingOK, AuthorizingOK, Remaining, Done, Rows

\* ... and at these points the holder claims only that it is one, and its cell.
LEMMA HoldingJob ==
  ASSUME NEW p \in Proc, jlock' = p, job'[p].dir \in Dir,
         job'[p].pc \notin {"prepared", "reserving", "authorizing"},
         job'[p].pc \in OnCell => job'[p].cell \in Run
  PROVE  JobOK(p)'
  BY DEF JobOK, At, PreparedOK, ReservingOK, AuthorizingOK

LEMMA Assemble ==
  ASSUME IInv, NEW p \in Proc, JobStep(p), JInv', FilesOK', SessionsOK', JobOK(p)',
         \/ jlock \in {p, Nobody}
         \/ UNCHANGED <<jdisk, jsynced, jlock, jstep, jevent, sessions, checkpoint, kind>>
  PROVE  IInv'
  <1>1. ASSUME NEW q \in Proc, q # p
        PROVE  JobOK(q)'
    <2>1. JobOK(q) /\ job'[q] = job[q]
      BY <1>1 DEF IInv, JobStep
    <2>2. CASE jlock \in {p, Nobody}
      BY <1>1, <2>1, <2>2, OtherJob
    <2> QED  BY <2>1, <2>2, UntouchedJob
  <1> QED  BY <1>1 DEF IInv, JobStep

LEMMA SessionsKept ==
  ASSUME SessionsOK, SyncedKept, sessions' = sessions, cost' = cost
  PROVE  SessionsOK'
  BY DEF SessionsOK, SyncedKept, Paid

\* What no step of the journal touches.
Untouched == UNCHANGED <<kind, sessions, cost, archive>>

\* A step under the lock, or to it.
LEMMA HeldSafe ==
  ASSUME IInv, NEW p \in Proc, jlock \in {p, Nobody}, JInv', SyncedKept, JobStep(p),
         Untouched, JobOK(p)'
  PROVE  IInv'
  <1>1. FilesOK' /\ SessionsOK'
    BY SessionsKept DEF IInv, FilesOK, Untouched
  <1> QED  BY <1>1, Assemble

\* An exception, a death, a return: the lock is released, and nothing claimed.
LEMMA ExitSafe ==
  ASSUME IInv, NEW p \in Proc, Exit(p), Untouched,
         jlock = p \/ UNCHANGED checkpoint
  PROVE  IInv'
  <1>1. UNCHANGED journalVars \/ (jlock = p /\ JClose(p))
    BY DEF Exit
  <1>2. UNCHANGED <<jdisk, jsynced>>
    BY <1>1 DEF JClose, journalVars
  <1>3. JInv' /\ SyncedKept
    BY <1>1, <1>2, JQuietInv DEF IInv
  <1>4. JobStep(p) /\ job'[p].pc = "idle"
    BY JobSet, IdleTyped DEF Exit, IInv
  <1>5. JobOK(p)'
    BY <1>4 DEF JobOK, Holding, OnCell, At, PreparedOK, ReservingOK, AuthorizingOK
  <1>6. FilesOK' /\ SessionsOK'
    BY <1>3, SessionsKept DEF IInv, FilesOK, Untouched
  <1>7. jlock = p \/ UNCHANGED <<jdisk, jsynced, jlock, jstep, jevent, sessions, checkpoint, kind>>
    BY <1>1 DEF journalVars, Untouched
  <1> QED  BY <1>3, <1>4, <1>5, <1>6, <1>7, Assemble

LEMMA Holder ==
  ASSUME IInv, NEW p \in Proc, job[p].pc \in Holding
  PROVE  jlock = p /\ job[p].dir \in Dir /\ (job[p].pc \in OnCell => job[p].cell \in Run)
  BY DEF IInv, JobOK, Holding

\* A runner goes on to a point at which it claims nothing new.
LEMMA MoveSafe ==
  ASSUME IInv, NEW p \in Proc, UNCHANGED journalVars, job[p].pc \in Holding,
         NEW pc \in Holding \ {"prepared", "reserving", "authorizing"}, Goto(p, pc),
         pc \in OnCell => job[p].pc \in OnCell, FilesOK', SessionsOK'
  PROVE  IInv'
  <1>1. JobStep(p) /\ job'[p].pc = pc /\ job'[p].cell = job[p].cell /\ job'[p].dir = job[p].dir
    BY JobGoto DEF IInv, Holding
  <1>2. jlock = p /\ jlock' = p
    BY Holder DEF journalVars
  <1>3. JobOK(p)'
    BY <1>1, <1>2, Holder, HoldingJob
  <1>4. JInv'
    BY JQuietInv DEF IInv, journalVars
  <1> QED  BY <1>1, <1>2, <1>3, <1>4, Assemble

LEMMA PlainMoveSafe ==
  ASSUME IInv, NEW p \in Proc, UNCHANGED journalVars, job[p].pc \in Holding, Untouched,
         NEW pc \in Holding \ {"prepared", "reserving", "authorizing"}, Goto(p, pc),
         pc \in OnCell => job[p].pc \in OnCell
  PROVE  IInv'
  <1>1. SyncedKept
    BY DEF SyncedKept, journalVars
  <1>2. FilesOK' /\ SessionsOK'
    BY <1>1, SessionsKept DEF IInv, FilesOK, Untouched
  <1> QED  BY <1>2, MoveSafe

\* The journal is opened.
LEMMA OpenSafe ==
  ASSUME IInv, NEW p \in Proc, JOpen(p), JobStep(p), Untouched, job'[p].pc = "load",
         job'[p].dir \in Dir
  PROVE  IInv'
  <1>1. JInv' /\ SyncedKept
    BY JQuietInv DEF IInv, JOpen
  <1>2. JobOK(p)'
    BY HoldingJob DEF JOpen, OnCell
  <1> QED  BY <1>1, <1>2, HeldSafe DEF JOpen

\* Who holds the lock and may append knows the disk.
LEMMA ReadyKnows ==
  ASSUME IInv, NEW p \in Proc, JReady(p)
  PROVE  jlock = p /\ jstep = "idle" /\ jmem = jdisk /\ Sound(jdisk) /\ jdisk \in Seq(AnyEvent)
  BY DEF IInv, JInv, JReady, Sound

LEMMA AppendShape ==
  ASSUME NEW p \in Proc, NEW e, JAppend(p, e)
  PROVE  /\ jlock = p /\ jlock' = p /\ jstep' \in {"write", "raised"} /\ jevent' = e
         /\ jdisk' = jdisk /\ jsynced' = jsynced
  BY DEF JAppend, JReady

LEMMA RefuseShape ==
  ASSUME NEW p \in Proc, JRefuse(p)
  PROVE  /\ jlock = p /\ jlock' = p /\ jstep' = "raised"
         /\ jdisk' = jdisk /\ jsynced' = jsynced
  BY DEF JRefuse, JReady

-----------------------------------------------------------------------------
(* The course of one cell                                                    *)

\* A cell is reserved: the journal has shown that nobody has paid for it.
LEMMA ReserveSafe ==
  ASSUME IInv, NEW p \in Proc, job[p].pc \in Holding, NEW c \in Run, NEW note \in Note,
         Reserve(p, c, note)
  PROVE  IInv'
  <1> DEFINE e == EventOf("reserved", Len(jmem) + 1, c, Unsettled, note)
  <1>1. JReserve(p, c, note) /\ Untouched
    BY DEF Reserve, money, files, Untouched
  <1>2. job' = [job EXCEPT ![p].pc = "reserving", ![p].cell = c, ![p].store = note]
    BY DEF Reserve
  <1>3. JobStep(p) /\ job'[p].pc = "reserving" /\ job'[p].cell = c /\ job'[p].dir \in Dir
    BY <1>2, JobReserve, Holder, Zenon DEF IInv
  <1>4. jlock = p
    BY Holder
  <1>5. JReady(p) \/ JRefuse(p)
    BY <1>1 DEF JReserve, JAppend
  <1>6. jmem = jdisk /\ Sound(jdisk) /\ JReady(p)
    BY <1>5, ReadyKnows DEF JRefuse
  <1>7. e \in AnyEvent
    <2>1. Len(jmem) \in Nat
      BY <1>6 DEF Sound
    <2> QED  BY <2>1 DEF EventOf, AnyEvent, Action, Unsettled
  <1>8. CASE Live(jmem, c) = {} /\ JAppend(p, e)
    <2>1. JInv' /\ SyncedKept
      BY <1>7, <1>8, JAppendInv DEF IInv
    <2>2. ~Paid(jdisk, c)
      BY <1>6, <1>8, LiveUnpaid
    <2>3. jlock' = p /\ jevent' = e /\ jdisk' = jdisk
      BY <1>8, AppendShape
    <2>4. ReservingOK(p)'
      BY <1>3, <2>2, <2>3 DEF ReservingOK, EventOf
    <2>5. JobOK(p)'
      BY <1>3, <2>3, <2>4 DEF JobOK, At, PreparedOK, AuthorizingOK
    <2> QED  BY <1>1, <1>3, <1>4, <2>1, <2>5, HeldSafe
  <1>9. CASE (\E t \in Live(jmem, c) : Reserved(t, note)) /\ UNCHANGED journalVars
    <2>1. JInv' /\ SyncedKept
      BY <1>9, JQuietInv DEF IInv, journalVars
    <2>2. PICK t \in Live(jmem, c) : State(jdisk, t) = "reserved" /\ jdisk[t].run = c
      BY <1>6, <1>9 DEF Reserved, Live
    <2>3. ~Paid(jdisk, c)
      BY <1>6, <2>2, ReservedUnpaid
    <2>4. ReservingOK(p)'
      BY <1>3, <1>6, <1>9, <2>3 DEF ReservingOK, journalVars, JReady
    <2>5. JobOK(p)'
      BY <1>3, <1>4, <1>9, <2>4 DEF JobOK, At, PreparedOK, AuthorizingOK, journalVars
    <2> QED  BY <1>1, <1>3, <1>4, <2>1, <2>5, HeldSafe
  <1>10. CASE JRefuse(p)
    <2>1. JInv' /\ SyncedKept
      BY <1>10, JQuietInv DEF IInv, JRefuse
    <2>2. JobOK(p)'
      BY <1>3, <1>10, RefuseShape DEF JobOK, At, PreparedOK, ReservingOK, AuthorizingOK
    <2> QED  BY <1>1, <1>3, <1>4, <2>1, <2>2, HeldSafe
  <1> QED  BY <1>1, <1>8, <1>9, <1>10 DEF JReserve

\* It is authorized by the one that reserved it, so no session of it was started.
LEMMA AuthorizeSafe ==
  ASSUME IInv, NEW p \in Proc, Authorize(p)
  PROVE  IInv'
  <1>1. /\ At(p, "reserving") /\ JReady(p) /\ Untouched
        /\ jmem = jdisk /\ Sound(jdisk) /\ jlock = p /\ jstep = "idle"
    BY ReadyKnows DEF Authorize, money, files, Untouched
  <1>2. PICK t \in Live(jmem, job[p].cell) :
           /\ JAuthorize(p, t, Len(jmem), {})
           /\ job' = [job EXCEPT ![p].pc = "authorizing", ![p].tx = t]
    BY DEF Authorize
  <1> DEFINE e == EventOf("request_authorized", t, jmem[t].run, Unsettled, {})
  <1>3. t \in Transactions(jdisk) /\ jmem[t].run = job[p].cell /\ t \in Int
    BY <1>1 DEF Live, Transactions, Sound
  <1>4. JobStep(p) /\ job'[p].pc = "authorizing" /\ job'[p].cell = job[p].cell
        /\ job'[p].dir \in Dir /\ job[p].cell \in Run
    BY <1>1, <1>2, <1>3, JobAuthorize, Holder, Zenon DEF IInv, At, Holding, Course, OnCell
  <1>5. sessions[job[p].cell] = 0
    <2>1. ~Paid(jdisk, job[p].cell)
      BY <1>1 DEF IInv, JobOK, ReservingOK
    <2>2. ~Paid(jsynced, job[p].cell)
      BY <2>1, PaidOnDisk DEF IInv
    <2>3. \A c \in Run : sessions[c] \in Nat /\ (sessions[c] > 0 => Paid(jsynced, c))
      BY DEF IInv, SessionsOK
    <2>4. sessions[job[p].cell] \in Nat /\ ~(sessions[job[p].cell] > 0)
      BY <1>4, <2>2, <2>3
    <2> QED  BY <2>4
  <1>6. e \in AnyEvent
    <2>1. "request_authorized" \in Action /\ Unsettled \in Int /\ {} \in Note
      BY DEF Action, Unsettled
    <2> QED  BY <1>1, <1>3, <2>1, EventTyped
  <1>7. CASE JAppend(p, e)
    <2>1. JInv' /\ SyncedKept
      BY <1>6, <1>7, JAppendInv DEF IInv
    <2>2. jlock' = p /\ jevent' = e /\ jstep' \in {"write", "raised"}
      BY <1>7, AppendShape
    <2>3. AuthorizingOK(p)'
      BY <1>1, <1>3, <1>4, <1>5, <2>2 DEF AuthorizingOK, EventOf, Untouched
    <2>4. JobOK(p)'
      BY <1>4, <2>2, <2>3 DEF JobOK, At, PreparedOK, ReservingOK
    <2> QED  BY <1>1, <1>4, <2>1, <2>4, HeldSafe
  <1>8. CASE JRefuse(p)
    <2>1. JInv' /\ SyncedKept
      BY <1>8, JQuietInv DEF IInv, JRefuse
    <2>2. JobOK(p)'
      BY <1>4, <1>8, RefuseShape DEF JobOK, At, PreparedOK, ReservingOK, AuthorizingOK
    <2> QED  BY <1>1, <1>4, <2>1, <2>2, HeldSafe
  <1> QED  BY <1>2, <1>7, <1>8 DEF JAuthorize

\* A reservation is given back.
LEMMA AbortSafe ==
  ASSUME IInv, NEW p \in Proc, job[p].pc \in Holding, NEW t, Abort(p, t)
  PROVE  IInv'
  <1>1. JAbort(p, t, {}) /\ Goto(p, "aborting") /\ Untouched
    BY DEF Abort, money, files, Untouched
  <1>2. jlock = p /\ jlock' = p
    BY <1>1 DEF JAbort
  <1>3. JInv' /\ SyncedKept
    <2>1. {} \in Note
      OBVIOUS
    <2> QED  BY <1>1, <2>1, JAbortInv DEF IInv
  <1>4. JobStep(p) /\ job'[p].pc = "aborting" /\ job'[p].dir \in Dir
    <2>1. "aborting" \in Course
      BY DEF Course
    <2> QED  BY <1>1, <2>1, JobGoto, Holder DEF IInv
  <1>5. JobOK(p)'
    BY <1>2, <1>4, HoldingJob DEF OnCell
  <1> QED  BY <1>1, <1>2, <1>3, <1>4, <1>5, HeldSafe

\* The session starts, once: its authorization is on the disk for good.
LEMMA StartSessionSafe ==
  ASSUME IInv, NEW p \in Proc, StartSession(p)
  PROVE  IInv'
  <1>1. At(p, "authorizing") /\ JReady(p) /\ Goto(p, "running") /\ UNCHANGED journalVars
        /\ sessions' = [sessions EXCEPT ![job[p].cell] = @ + 1]
        /\ cost' = [cost EXCEPT ![job[p].cell] = MaxCost] /\ UNCHANGED <<kind, archive>>
    BY DEF StartSession, files
  <1>2. job[p].cell \in Run /\ sessions[job[p].cell] = 0 /\ Paid(jsynced, job[p].cell)
    BY <1>1 DEF IInv, JobOK, AuthorizingOK, At, OnCell, JReady
  <1>3. SessionsOK'
    BY <1>1, <1>2 DEF IInv, SessionsOK, journalVars
  <1>4. FilesOK'
    BY <1>1 DEF IInv, FilesOK
  <1>5. job[p].pc \in Holding /\ job[p].pc \in OnCell
    BY <1>1 DEF At, Holding, Course, OnCell
  <1>6. "running" \in Holding \ {"prepared", "reserving", "authorizing"}
    BY DEF Holding, Course
  <1> QED  BY <1>1, <1>3, <1>4, <1>5, <1>6, MoveSafe

\* What it cost is settled.
LEMMA CommitSafe ==
  ASSUME IInv, NEW p \in Proc, job[p].pc \in OnCell, Commit(p)
  PROVE  IInv'
  <1> DEFINE t == job[p].tx
             amount == cost[job[p].cell]
             e == EventOf("committed", t, jmem[t].run, amount, {})
  <1>1. JCommit(p, t, amount, {}) /\ Goto(p, "committing") /\ Untouched
    BY DEF Commit, money, files, Untouched
  <1>2. job[p].pc \in Holding
    BY DEF OnCell, Holding, Course
  <1>3. jlock = p /\ job[p].dir \in Dir /\ job[p].cell \in Run
    BY <1>2, Holder
  <1>4. JobStep(p) /\ job'[p].pc = "committing" /\ job'[p].dir \in Dir /\ job'[p].cell \in Run
    <2>1. "committing" \in Course
      BY DEF Course
    <2> QED  BY <1>1, <1>3, <2>1, JobGoto DEF IInv
  <1>5. jlock' = p /\ JInv' /\ SyncedKept
    <2>1. CASE State(jmem, t) = "request_authorized" /\ JAppend(p, e)
      <3>1. jmem = jdisk /\ Sound(jdisk)
        BY <2>1, ReadyKnows DEF JAppend
      <3>2. t \in Transactions(jdisk)
        BY <2>1, <3>1, StateFacts
      <3>3. "committed" \in Action /\ {} \in Note /\ amount \in Int
        BY <1>3 DEF Action, IInv, SessionsOK
      <3>4. e \in AnyEvent
        BY <3>1, <3>2, <3>3, EventTyped
      <3> QED  BY <2>1, <3>4, JAppendInv, AppendShape DEF IInv
    <2>2. CASE JRefuse(p)
      BY <2>2, RefuseShape, JQuietInv DEF IInv
    <2>3. CASE UNCHANGED journalVars
      BY <1>3, <2>3, JQuietInv DEF IInv, journalVars
    <2> HIDE DEF t, amount, e
    <2>4. \/ State(jmem, t) = "request_authorized" /\ JAppend(p, e)
          \/ UNCHANGED journalVars \/ JRefuse(p)
      BY <1>1 DEF JCommit, e
    <2> QED  BY <2>1, <2>2, <2>3, <2>4
  <1>6. JobOK(p)'
    BY <1>4, <1>5, HoldingJob
  <1> QED  BY <1>1, <1>3, <1>4, <1>5, <1>6, HeldSafe

-----------------------------------------------------------------------------
(* Steps of the append and of the machine                                    *)

\* The append of p moves on, and its claim with it.
LEMMA WorkClaim ==
  ASSUME IInv, NEW p \in Proc, JWork, jlock = p,
         UNCHANGED <<job, sessions, checkpoint, kind>>
  PROVE  JobOK(p)'
  <1>1. jlock' = p /\ jevent' = jevent
    BY DEF JWork, JWrite, JReplace, JSync, JFail
  <1>2. JobOK(p) /\ JInv /\ p # Nobody
    BY DEF IInv
  <1>3. PreparedOK(p)'
    BY <1>2 DEF JobOK, PreparedOK, At, Remaining, Done, Rows
  <1>4. CASE JFail
    BY <1>1, <1>2, <1>3, <1>4 DEF JFail, JobOK, At, ReservingOK, AuthorizingOK
  <1>5. CASE JWrite
    BY <1>1, <1>2, <1>3, <1>5 DEF JWrite, JobOK, At, ReservingOK, AuthorizingOK
  <1>6. CASE JSync
    BY <1>1, <1>2, <1>3, <1>6 DEF JSync, JobOK, At, ReservingOK, AuthorizingOK
  <1>7. CASE JReplace
    <2>1. jmem = jdisk /\ jstep = "replace" /\ jstep' = "sync" /\ Pending1
          /\ jdisk \in Seq(AnyEvent) /\ UNCHANGED jsynced
      BY <1>2, <1>7 DEF JInv, JReplace, Sound
    <2>2. CASE jevent = Creation
      <3>1. jdisk' = jdisk /\ jevent.action = "created"
        BY <1>7, <2>1, <2>2 DEF JReplace, Appended, Creation
      <3> QED
        BY <1>1, <1>2, <1>3, <2>1, <3>1 DEF JobOK, At, ReservingOK, AuthorizingOK
    <2>3. CASE jevent # Creation
      <3>1. jevent \in AnyEvent
        BY <2>1, <2>3 DEF Pending1
      <3>2. jdisk' = Append(jdisk, jevent)
        BY <1>7, <2>1, <2>3 DEF JReplace, Appended
      <3>3. /\ DOMAIN jdisk' = 1 .. Len(jdisk) + 1 /\ DOMAIN jdisk = 1 .. Len(jdisk)
            /\ Len(jdisk) \in Nat
            /\ jdisk'[Len(jdisk) + 1] = jevent /\ \A i \in DOMAIN jdisk : jdisk'[i] = jdisk[i]
        <4>1. \A d, e : d \in Seq(AnyEvent) /\ e \in AnyEvent =>
                /\ DOMAIN Append(d, e) = 1 .. Len(d) + 1 /\ DOMAIN d = 1 .. Len(d)
                /\ Len(d) \in Nat
                /\ Append(d, e)[Len(d) + 1] = e
                /\ \A i \in DOMAIN d : Append(d, e)[i] = d[i]
          OBVIOUS
        <4> QED  BY <2>1, <3>1, <3>2, <4>1
      <3>4. \A c : jevent.action = "reserved" /\ ~Paid(jdisk, c) => ~Paid(jdisk', c)
        BY <3>3 DEF Paid
      <3>5. jevent.action = "request_authorized" => Paid(jdisk', jevent.run)
        <4>1. Len(jdisk) + 1 \in DOMAIN jdisk'
          BY <3>3
        <4> QED  BY <3>3, <4>1 DEF Paid
      <3>6. ReservingOK(p)'
        BY <1>2, <2>1, <3>4 DEF JobOK, At, ReservingOK
      <3>7. AuthorizingOK(p)'
        BY <1>2, <2>1, <3>5 DEF JobOK, At, AuthorizingOK
      <3> QED  BY <1>1, <1>2, <1>3, <3>6, <3>7 DEF JobOK
    <2> QED  BY <2>2, <2>3
  <1> QED  BY <1>4, <1>5, <1>6, <1>7 DEF JWork

LEMMA WorkSafe ==
  ASSUME IInv, JournalWork
  PROVE  IInv'
  <1>1. JWork /\ Untouched /\ UNCHANGED <<job, sessions, checkpoint, kind>>
    BY DEF JournalWork, money, files, Untouched
  <1>2. JInv' /\ SyncedKept
    BY <1>1, JWorkInv DEF IInv
  <1>3. ASSUME NEW q \in Proc
        PROVE  JobOK(q)'
    <2>1. CASE jlock = q
      BY <1>1, <2>1, WorkClaim
    <2>2. CASE jlock # q
      BY <1>1, <2>2, OtherJob DEF IInv
    <2> QED  BY <2>1, <2>2
  <1>4. FilesOK' /\ SessionsOK'
    BY <1>1, <1>2, SessionsKept DEF IInv, FilesOK, Untouched
  <1> QED  BY <1>1, <1>2, <1>3, <1>4 DEF IInv

LEMMA PowerLossSafe ==
  ASSUME IInv, PowerLoss
  PROVE  IInv'
  <1>1. JPowerLoss /\ job' = [p \in Proc |-> Idle] /\ Untouched
    BY DEF PowerLoss, Untouched
  <1>2. JInv' /\ SyncedKept
    BY <1>1, JPowerLossInv DEF IInv
  <1>3. job' \in [Proc -> JobTyped] /\ \A q \in Proc : job'[q].pc = "idle"
    BY <1>1, IdleTyped
  <1>4. \A q \in Proc : JobOK(q)'
    BY <1>3 DEF JobOK, Holding, OnCell, At, PreparedOK, ReservingOK, AuthorizingOK
  <1>5. FilesOK' /\ SessionsOK'
    BY <1>1, <1>2, SessionsKept DEF IInv, FilesOK, Untouched
  <1> QED  BY <1>2, <1>3, <1>4, <1>5 DEF IInv

LEMMA InspectSafe ==
  ASSUME IInv, InspectJournal
  PROVE  IInv'
  <1>1. Untouched /\ UNCHANGED <<jdisk, jsynced, jlock, jstep, jevent, job, sessions,
                                 checkpoint, kind>>
    BY DEF InspectJournal, JInspect, money, files, Untouched
  <1>2. JInv' /\ SyncedKept
    BY <1>1, JQuietInv DEF IInv, InspectJournal
  <1>3. \A q \in Proc : JobOK(q)'
    BY <1>1, UntouchedJob DEF IInv
  <1>4. FilesOK' /\ SessionsOK'
    BY <1>1, <1>2, SessionsKept DEF IInv, FilesOK, Untouched
  <1> QED  BY <1>1, <1>2, <1>3, <1>4 DEF IInv

\* A session ends: what it cost is known.
LEMMA SessionSafe ==
  ASSUME IInv, UNCHANGED <<journalVars, job, kind, sessions, checkpoint, archive>>,
         cost' = cost \/ \E c \in Run : \E amount \in Int : cost' = [cost EXCEPT ![c] = amount]
  PROVE  IInv'
  <1>1. JInv' /\ SyncedKept
    BY JQuietInv DEF IInv, journalVars
  <1>2. \A q \in Proc : JobOK(q)'
    BY UntouchedJob DEF IInv, journalVars
  <1>3. SessionsOK'
    <2>1. cost' \in [Run -> Int]
      BY DEF IInv, SessionsOK
    <2> QED  BY <2>1 DEF IInv, SessionsOK, journalVars
  <1>4. FilesOK'
    BY DEF IInv, FilesOK
  <1> QED  BY <1>1, <1>2, <1>3, <1>4 DEF IInv

-----------------------------------------------------------------------------
(* The runners                                                               *)

\* A start: the run directory is chosen, the journal not yet opened.
LEMMA StartSafe ==
  ASSUME IInv, NEW p \in Proc, NEW d \in Dir, PilotStart(p, d) \/ BlockStart(p, d)
  PROVE  IInv'
  <1>1. UNCHANGED journalVars /\ Untouched /\ UNCHANGED checkpoint
        /\ \E resume \in BOOLEAN : Starting(p, d, "opening", resume)
    BY DEF PilotStart, BlockStart, money, Untouched
  <1>2. JobStep(p) /\ job'[p].pc = "opening" /\ job'[p].dir = d
    <2>1. "opening" \in Course
      BY DEF Course
    <2> QED  BY <1>1, <2>1, JobStart, Zenon DEF Starting, IInv
  <1>3. JobOK(p)'
    BY <1>2 DEF JobOK, Holding, OnCell, At, PreparedOK, ReservingOK, AuthorizingOK
  <1>4. JInv' /\ SyncedKept
    BY <1>1, JQuietInv DEF IInv, journalVars
  <1>5. FilesOK' /\ SessionsOK'
    BY <1>1, <1>4, SessionsKept DEF IInv, FilesOK, Untouched
  <1> QED  BY <1>1, <1>2, <1>3, <1>4, <1>5, Assemble DEF journalVars, Untouched

LEMMA OpeningSafe ==
  ASSUME IInv, NEW p \in Proc,
         PilotOpen(p) \/ \E d \in Dir : KeyedStart(p, d) \/ AgentStart(p, d)
  PROVE  IInv'
  <1>1. JOpen(p) /\ Untouched
    BY Zenon DEF PilotOpen, KeyedStart, AgentStart, money, files, Untouched
  <1>2. "load" \in Course
    BY DEF Course
  <1>3. CASE PilotOpen(p)
    <2>1. JobStep(p) /\ job'[p].pc = "load" /\ job'[p].dir = job[p].dir
      BY <1>2, <1>3, JobGoto DEF PilotOpen, IInv
    <2>2. job[p].dir \in Dir
      BY <1>3 DEF PilotOpen, At, IInv, JobOK
    <2> QED  BY <1>1, <2>1, <2>2, OpenSafe
  <1>4. ASSUME NEW d \in Dir, AgentStart(p, d)
        PROVE  IInv'
    <2>1. JobStep(p) /\ job'[p].pc = "load" /\ job'[p].dir = d
      <3>1. \E resume \in BOOLEAN : Starting(p, d, "load", resume)
        BY <1>4 DEF AgentStart
      <3> QED  BY <1>2, <3>1, JobStart, Zenon DEF Starting, IInv
    <2> QED  BY <1>1, <2>1, OpenSafe
  <1>5. ASSUME NEW d \in Dir, KeyedStart(p, d)
        PROVE  IInv'
    <2>1. JobStep(p) /\ job'[p].pc = "load" /\ job'[p].dir = d
      BY <1>2, <1>5, JobStart, Zenon DEF KeyedStart, IInv
    <2> QED  BY <1>1, <2>1, OpenSafe
  <1> QED  BY <1>3, <1>4, <1>5

\* A load, or another look at the files, that goes on or raises.
LEMMA LoadSafe ==
  ASSUME IInv, NEW p \in Proc,
         \/ ChainedLoad(p) \/ ArmsLoad(p) \/ PluginLoad(p)
         \/ PilotLoad(p) \/ BlockLoad(p) \/ AgentLoad(p) \/ AgentFresh(p)
  PROVE  IInv'
  <1>1. At(p, "load") /\ Untouched /\ UNCHANGED checkpoint
        /\ (Exit(p) \/ (Goto(p, "next") /\ UNCHANGED journalVars))
    BY DEF ChainedLoad, ArmsLoad, PluginLoad, Loaded, PilotLoad, BlockLoad, AgentLoad, Resumed,
           AgentFresh, money, files, Untouched
  <1>2. job[p].pc \in Holding /\ "next" \in Holding \ {"prepared", "reserving", "authorizing"}
        /\ "next" \notin OnCell
    BY <1>1 DEF At, Holding, Course, OnCell
  <1> QED  BY <1>1, <1>2, ExitSafe, PlainMoveSafe

\* A command that ends, as it should or not.
LEMMA LeaveSafe ==
  ASSUME IInv, NEW p \in Proc,
         \/ Aborted(p) \/ Raised(p) \/ Finish(p) \/ Crash(p)
         \/ ChainedFails(p) \/ ArmsInvalid(p) \/ PluginRefuses(p)
         \/ Unusable(p) \/ PilotPauses(p) \/ PilotUnprepared(p) \/ PilotRefuses(p)
         \/ AgentUnprepared(p) \/ AgentRefuses(p)
  PROVE  IInv'
  <1>1. CASE ArmsInvalid(p)
    <2>1. Exit(p) /\ Untouched /\ job[p].pc \in Holding
      BY <1>1 DEF ArmsInvalid, At, Holding, Course, money, Untouched
    <2> QED  BY <2>1, Holder, ExitSafe
  <1>2. CASE ~ArmsInvalid(p)
    <2>1. Exit(p) /\ Untouched /\ UNCHANGED checkpoint
      BY <1>2 DEF Aborted, Raised, Finish, Crash, ChainedFails, PluginRefuses, Unusable,
         PilotPauses, PilotUnprepared, PilotRefuses, AgentUnprepared, AgentRefuses, Refuses,
         money, files, Untouched
    <2> QED  BY <2>1, ExitSafe
  <1> QED  BY <1>1, <1>2

\* A row of the checkpoint is written, or the checkpoint synced, or the ledger written.
LEMMA RecordSafe ==
  ASSUME IInv, NEW p \in Proc,
         \/ LedgerAppend(p) \/ KeyedWrites(p) \/ Sync(p)
         \/ PilotInitial(p) \/ PilotCheckpoint(p) \/ AgentCheckpoint(p)
  PROVE  IInv'
  <1>1. \A pc \in {"ledgered", "next", "syncing"} :
           pc \in Holding \ {"prepared", "reserving", "authorizing"}
    BY DEF Holding, Course
  <1>2. "next" \notin OnCell /\ "syncing" \notin OnCell
    BY DEF OnCell
  <1>3. CASE LedgerAppend(p)
    <2>1. Untouched /\ UNCHANGED journalVars /\ Goto(p, "ledgered")
          /\ job[p].pc \in Holding /\ job[p].pc \in OnCell
      BY <1>3 DEF LedgerAppend, At, Holding, Course, OnCell, money, Untouched
    <2> QED  BY <1>1, <2>1, PlainMoveSafe
  <1>4. CASE KeyedWrites(p)
    <2>1. Untouched /\ job[p].pc \in Holding
          /\ (Exit(p) \/ (Goto(p, "next") /\ UNCHANGED journalVars))
      BY <1>4 DEF KeyedWrites, WriteRollouts, At, Holding, Course, money, Untouched
    <2> QED  BY <1>1, <1>2, <2>1, Holder, ExitSafe, PlainMoveSafe
  <1>5. CASE Sync(p)
    <2>1. Untouched /\ UNCHANGED journalVars /\ Goto(p, "next") /\ job[p].pc \in Holding
      BY <1>5 DEF Sync, At, Holding, Course, money, Untouched
    <2> QED  BY <1>1, <1>2, <2>1, PlainMoveSafe
  <1>6. CASE PilotInitial(p) \/ PilotCheckpoint(p) \/ AgentCheckpoint(p)
    <2>1. Untouched /\ UNCHANGED journalVars /\ Goto(p, "syncing") /\ job[p].pc \in Holding
      BY <1>6 DEF PilotInitial, PilotCheckpoint, AgentCheckpoint, CellCheckpoint, Checkpoint,
         At, Holding, Course, money, Untouched
    <2> QED  BY <1>1, <1>2, <2>1, PlainMoveSafe
  <1> QED  BY <1>3, <1>4, <1>5, <1>6

\* The store an attempt leaves is archived.
LEMMA ExportSafe ==
  ASSUME IInv, NEW p \in Proc, Export(p)
  PROVE  IInv'
  <1>1. At(p, "running") /\ Goto(p, "exported") /\ UNCHANGED <<journalVars, kind, sessions, cost>>
    BY DEF Export, money
  <1>2. job[p].pc \in Holding /\ job[p].pc \in OnCell
        /\ "exported" \in Holding \ {"prepared", "reserving", "authorizing"}
    BY <1>1 DEF At, Holding, Course, OnCell
  <1>3. job[p].dir \in Dir /\ job[p].cell \in Run /\ job[p] \in JobTyped
    BY <1>2, Holder DEF IInv
  <1>4. job[p].store \in Note /\ SUBSET (job[p].store \cup {job[p].cell}) \subseteq Note
    BY <1>3 DEF JobTyped
  <1>5. PICK store \in SUBSET (job[p].store \cup {job[p].cell}) :
           archive' = [archive EXCEPT ![job[p].dir][job[p].cell] = store]
    BY DEF Export
  <1>6. FilesOK'
    BY <1>1, <1>3, <1>4, <1>5 DEF IInv, FilesOK
  <1>7. SyncedKept
    BY <1>1 DEF SyncedKept, journalVars
  <1>8. SessionsOK'
    BY <1>1, <1>7, SessionsKept DEF IInv
  <1> QED  BY <1>1, <1>2, <1>6, <1>8, MoveSafe

\* The artifact directory of the next cell is made.
LEMMA PrepareSafe ==
  ASSUME IInv, NEW p \in Proc, Prepare(p)
  PROVE  IInv'
  <1>1. Untouched /\ UNCHANGED checkpoint /\ At(p, "next") /\ Remaining(job[p].dir) # {}
        /\ (Exit(p) \/ (Goto(p, "prepared") /\ UNCHANGED journalVars))
    BY DEF Prepare, money, Untouched
  <1>2. CASE Goto(p, "prepared") /\ UNCHANGED journalVars
    <2>1. job[p].pc \in Holding /\ "prepared" \in Course /\ "prepared" \notin OnCell
      BY <1>1 DEF At, Holding, Course, OnCell
    <2>2. jlock = p /\ job[p].dir \in Dir
      BY <2>1, Holder
    <2>3. JobStep(p) /\ job'[p].pc = "prepared" /\ job'[p].dir = job[p].dir
      BY <1>2, <2>1, JobGoto DEF IInv
    <2>4. Remaining(job[p].dir)' # {}
      BY <1>1, <2>3 DEF Remaining, Done, Rows, Untouched
    <2>5. JobOK(p)'
      BY <1>2, <2>1, <2>2, <2>3, <2>4 DEF JobOK, PreparedOK, At, ReservingOK, AuthorizingOK,
                                         journalVars
    <2>6. JInv' /\ SyncedKept
      BY <1>2, JQuietInv DEF IInv, journalVars
    <2> QED  BY <1>1, <2>2, <2>3, <2>5, <2>6, HeldSafe
  <1> QED  BY <1>1, <1>2, ExitSafe

\* The next cell is reserved.
LEMMA NextReserveSafe ==
  ASSUME IInv, NEW p \in Proc,
         \/ ChainedReserve(p) \/ ArmsReserve(p) \/ PluginReserve(p)
         \/ PilotReserve(p) \/ AgentReserve(p)
  PROVE  IInv'
  <1> DEFINE d == job[p].dir
  <1>1. job[p].pc \in Holding
    BY DEF ChainedReserve, ArmsReserve, PluginReserve, NextReserve, PilotReserve, AgentReserve,
           At, Holding, Course
  <1>2. Remaining(d) # {}
    <2>1. At(p, "prepared") => Remaining(d) # {}
      BY DEF IInv, JobOK, PreparedOK
    <2> QED
      BY <2>1 DEF ChainedReserve, ArmsReserve, PluginReserve, NextReserve, PilotReserve,
                  AgentReserve
  <1>3. NextCell(d) \in Run /\ {} \in Note /\ Import(d, NextCell(d)) \in Note
    <2>1. kind \in Kind /\ d \in Dir /\ FilesOK
      BY <1>1, Holder DEF IInv, FilesOK
    <2> QED  BY <1>2, <2>1, NextCellLeft, ImportTyped
  <1>4. \/ Reserve(p, NextCell(d), {}) \/ Reserve(p, NextCell(d), Import(d, NextCell(d)))
        \/ (Exit(p) /\ Untouched /\ UNCHANGED checkpoint)
    BY DEF ChainedReserve, ArmsReserve, PluginReserve, NextReserve, PilotReserve, AgentReserve,
           Refuses, money, files, Untouched
  <1> QED  BY <1>1, <1>3, <1>4, ReserveSafe, ExitSafe

LEMMA CommitsSafe ==
  ASSUME IInv, NEW p \in Proc,
         \/ ChainedCommit(p) \/ ArmsCommit(p) \/ PluginCommit(p) \/ PilotCommit(p)
         \/ AgentCommit(p)
  PROVE  IInv'
  <1>1. job[p].pc \in OnCell /\ Commit(p)
    BY DEF ChainedCommit, ArmsCommit, PluginCommit, PilotCommit, AgentCommit, At, OnCell
  <1> QED  BY <1>1, CommitSafe

LEMMA AbortsSafe ==
  ASSUME IInv, NEW p \in Proc, AuthorizeRaised(p) \/ Drift(p)
  PROVE  IInv'
  <1>1. job[p].pc \in Holding /\ \E t : Abort(p, t)
    BY DEF AuthorizeRaised, Drift, At, Holding, Course
  <1> QED  BY <1>1, AbortSafe

LEMMA RunnerStepInv ==
  ASSUME IInv, NEW p \in Proc, RunnerStep(p)
  PROVE  IInv'
  <1>1. CASE KeyedStep(p)
    BY <1>1, OpeningSafe, LoadSafe, NextReserveSafe, ExportSafe, RecordSafe, CommitsSafe,
       LeaveSafe DEF KeyedStep
  <1>2. CASE PrefixStep(p)
    BY <1>2, StartSafe, OpeningSafe, LoadSafe, PrepareSafe, NextReserveSafe, RecordSafe,
       CommitsSafe, LeaveSafe DEF PrefixStep
  <1>3. CASE SessionKilled(p)
    BY <1>3, SessionSafe DEF SessionKilled, files
  <1> QED
    BY <1>1, <1>2, <1>3, AuthorizeSafe, AbortsSafe, StartSessionSafe, LeaveSafe DEF RunnerStep

-----------------------------------------------------------------------------
(* The theorems                                                              *)

LEMMA InitInv == Init => IInv
  <1> SUFFICES ASSUME Init
               PROVE  IInv
    OBVIOUS
  <1>1. JInv
    BY JInitInv DEF Init
  <1>2. job \in [Proc -> JobTyped] /\ \A p \in Proc : job[p].pc = "idle"
    BY IdleTyped DEF Init
  <1>3. \A p \in Proc : JobOK(p)
    BY <1>2 DEF JobOK, Holding, OnCell, At, PreparedOK, ReservingOK, AuthorizingOK
  <1>4. SessionsOK
    BY DEF Init, SessionsOK
  <1>5. FilesOK
    <2>1. NoArchive \in Note
      BY DEF NoArchive
    <2> QED  BY <2>1 DEF Init, FilesOK
  <1> QED  BY <1>1, <1>2, <1>3, <1>4, <1>5 DEF IInv

LEMMA StepInv == IInv /\ [Next]_vars => IInv'
  <1> SUFFICES ASSUME IInv, [Next]_vars
               PROVE  IInv'
    OBVIOUS
  <1>1. ASSUME NEW c \in Run, SessionEnds(c)
        PROVE  IInv'
    <2>1. \E amount \in Int : cost' = [cost EXCEPT ![c] = amount]
      <3>1. PICK amount \in 0 .. MaxCost : cost' = [cost EXCEPT ![c] = amount]
        BY <1>1 DEF SessionEnds
      <3>2. amount \in Int
        OBVIOUS
      <3> QED  BY <3>1, <3>2
    <2> QED  BY <1>1, <2>1, SessionSafe DEF SessionEnds, files
  <1>2. CASE UNCHANGED vars
    BY <1>2, SessionSafe DEF vars, money, files
  <1> QED  BY <1>1, <1>2, RunnerStepInv, WorkSafe, InspectSafe, PowerLossSafe DEF Next

\* What each runner may conclude at each of its points, in every reachable state.
THEOREM Invariance == Spec => []IInv
  BY InitInv, StepInv, PTL DEF Spec

\* No cell of a paid schedule gets a second session, on whichever directories the
\* runner is started and whatever a power loss takes back (BudgetJournal.reserve under
\* the flock, authorize_request before the child process of a cell is spawned).
THEOREM CellsArePaidOnce == Spec => []PaidOnce
  <1>1. IInv => PaidOnce
    BY DEF IInv, SessionsOK, PaidOnce
  <1> QED  BY Invariance, <1>1, PTL

-----------------------------------------------------------------------------
(* The rows of the checkpoints.  The transaction a runner works on is in no  *)
(* row until it is committed for good, and what a session cost changes no    *)
(* more once its row may be written.                                         *)

AuthorizedTx(d, t) == \E i \in DOMAIN d : d[i].action = "request_authorized" /\ d[i].tx = t

Committed(d, t, c, amount) ==
    /\ t \in DOMAIN d /\ d[t].run = c
    /\ \E i \in DOMAIN d : d[i].action = "committed" /\ d[i].tx = t /\ d[i].cost = amount

AnyRow == [cell : Run \cup {0}, tx : Int, cost : Int, scored : BOOLEAN, head : Seq(AnyEvent)]

\* A row names a transaction that was authorized, and its session is over.
RowTrue(r) ==
    IF r.cell = 0 THEN r.tx = 0
    ELSE /\ sessions[r.cell] >= 1 /\ r.cell \notin live
         /\ r.tx > 0 /\ AuthorizedTx(jsynced, r.tx)
         /\ r.scored => Committed(jsynced, r.tx, r.cell, cost[r.cell])

RowsOK ==
    /\ checkpoint \in [Dir -> Seq(AnyRow)] /\ kept \in [Dir -> Nat]
    /\ \A d \in Dir : \A i \in DOMAIN checkpoint[d] : RowTrue(checkpoint[d][i])
    /\ \A d \in Dir : \A i, j \in DOMAIN checkpoint[d] :
          checkpoint[d][i].cell # 0 /\ checkpoint[d][i].tx = checkpoint[d][j].tx => i = j

\* The points at which a runner works on the transaction of its cell.
Paying == {"running", "exported", "ledgered"}
OnTx   == Paying \cup {"authorizing", "committing"}

\* The transaction is for the cell, and in no row.
Known(p) ==
    /\ job[p].tx \in Transactions(jdisk) /\ jdisk[job[p].tx].run = job[p].cell
    /\ \A d \in Dir : \A i \in DOMAIN checkpoint[d] : checkpoint[d][i].tx # job[p].tx

AuthorizingTx(p) == At(p, "authorizing") /\ jstep # "raised" =>
    /\ Known(p)
    /\ jstep \in {"write", "replace"} =>
          jevent.action = "request_authorized" /\ jevent.tx = job[p].tx
    /\ jstep \in {"sync", "idle"} => State(jdisk, job[p].tx) = "request_authorized"
    /\ jstep = "idle" => AuthorizedTx(jsynced, job[p].tx)

PayingTx(p) == job[p].pc \in Paying =>
    /\ Known(p) /\ jstep = "idle"
    /\ State(jdisk, job[p].tx) = "request_authorized" /\ AuthorizedTx(jsynced, job[p].tx)
    /\ sessions[job[p].cell] >= 1
    /\ job[p].pc # "running" => job[p].cell \notin live

CommittingTx(p) == At(p, "committing") /\ jstep # "raised" =>
    /\ Known(p) /\ AuthorizedTx(jsynced, job[p].tx)
    /\ sessions[job[p].cell] >= 1 /\ job[p].cell \notin live
    /\ jstep \in {"write", "replace"} =>
          /\ jevent.action = "committed" /\ jevent.tx = job[p].tx
          /\ jevent.cost = cost[job[p].cell]
    /\ jstep = "sync" => Committed(jdisk, job[p].tx, job[p].cell, cost[job[p].cell])
    /\ jstep = "idle" => Committed(jsynced, job[p].tx, job[p].cell, cost[job[p].cell])

TxOK(p) == AuthorizingTx(p) /\ PayingTx(p) /\ CommittingTx(p)

RowsInv == RowsOK /\ \A p \in Proc : TxOK(p)

-----------------------------------------------------------------------------
(* Facts                                                                     *)

\* A committed transaction is charged what its one commit says.
LEMMA CommittedCharge ==
  ASSUME NEW d, Sound(d), NEW t, NEW c, NEW amount, Committed(d, t, c, amount)
  PROVE  State(d, t) = "committed" /\ d[t].run = c /\ Charge(d, t) = amount
  <1>1. PICK i \in DOMAIN d : d[i].action = "committed" /\ d[i].tx = t /\ d[i].cost = amount
    BY DEF Committed
  <1>2. State(d, t) = "committed"
    BY <1>1 DEF State, Has
  <1>3. Events(d, t, "committed") = {i}
    BY <1>1 DEF Events, Sound, SettledOnce
  <1>4. Charge(d, t) = d[CHOOSE k \in {i} : TRUE].cost
    BY <1>2, <1>3 DEF Charge
  <1>5. (CHOOSE k \in {i} : TRUE) = i
    OBVIOUS
  <1> QED  BY <1>1, <1>2, <1>4, <1>5 DEF Committed

LEMMA CommittedKept ==
  ASSUME SyncedKept, NEW t, NEW c, NEW amount
  PROVE  /\ Committed(jsynced, t, c, amount) => Committed(jsynced', t, c, amount)
         /\ AuthorizedTx(jsynced, t) => AuthorizedTx(jsynced', t)
  BY DEF SyncedKept, Committed, AuthorizedTx

\* A reserved transaction is in no row.
LEMMA ReservedKnown ==
  ASSUME IInv, RowsOK, NEW t, State(jdisk, t) = "reserved", NEW d \in Dir,
         NEW i \in DOMAIN checkpoint[d]
  PROVE  checkpoint[d][i].tx # t
  <1>1. Sound(jdisk)
    BY DEF IInv, JInv
  <1>2. t \in DOMAIN jdisk /\ t > 0
    <2>1. t \in Transactions(jdisk)
      BY <1>1, StateFacts
    <2> QED  BY <1>1, <2>1 DEF Sound, Transactions
  <1>3. ~AuthorizedTx(jdisk, t)
    BY <1>1, StateFacts DEF AuthorizedTx
  <1>4. ~AuthorizedTx(jsynced, t)
    <2>1. \A k \in DOMAIN jsynced : k \in DOMAIN jdisk /\ jsynced[k] = jdisk[k]
      BY PrefixFacts DEF IInv, JInv
    <2> QED  BY <1>3, <2>1 DEF AuthorizedTx
  <1>5. RowTrue(checkpoint[d][i])
    BY DEF RowsOK
  <1> QED  BY <1>2, <1>4, <1>5 DEF RowTrue

\* A runner that works on nothing claims nothing.
LEMMA NoTx ==
  ASSUME NEW q \in Proc, job'[q].pc \notin OnTx
  PROVE  TxOK(q)'
  BY DEF TxOK, AuthorizingTx, PayingTx, CommittingTx, OnTx, Paying, At

LEMMA OtherTx ==
  ASSUME IInv, NEW q \in Proc, jlock # q, job'[q] = job[q]
  PROVE  TxOK(q)'
  <1>1. job[q].pc \notin Holding
    BY DEF IInv, JobOK
  <1> QED  BY <1>1, NoTx DEF Holding, Course, OnTx, Paying

LEMMA UntouchedTx ==
  ASSUME NEW q \in Proc, TxOK(q), job'[q] = job[q], live' \subseteq live,
         UNCHANGED <<jdisk, jsynced, jstep, jevent, checkpoint, sessions>>,
         cost'[job[q].cell] = cost[job[q].cell] \/ job[q].cell \in live
  PROVE  TxOK(q)'
  <1>1. Known(q) => Known(q)'
    BY DEF Known
  <1>2. AuthorizingTx(q)'
    BY <1>1 DEF TxOK, AuthorizingTx, At
  <1>3. PayingTx(q)'
    BY <1>1 DEF TxOK, PayingTx
  <1>4. CommittingTx(q)'
    BY <1>1 DEF TxOK, CommittingTx, At
  <1> QED  BY <1>2, <1>3, <1>4 DEF TxOK

\* No row is written, and no new session started that a row is about.
LEMMA RowsKept ==
  ASSUME RowsOK, SyncedKept, kept' \in [Dir -> Nat], checkpoint' = checkpoint,
         \A c \in Run : /\ sessions[c] >= 1 => sessions'[c] >= 1
                        /\ sessions[c] >= 1 /\ c \notin live =>
                              c \notin live' /\ cost'[c] = cost[c]
  PROVE  RowsOK'
  <1>1. ASSUME NEW d \in Dir, NEW i \in DOMAIN checkpoint[d]
        PROVE  RowTrue(checkpoint[d][i])'
    <2> DEFINE r == checkpoint[d][i]
    <2>1. RowTrue(r) /\ r \in AnyRow
      BY DEF RowsOK
    <2>2. r.cell = 0 \/ r.cell \in Run
      BY <2>1 DEF AnyRow
    <2>3. r' = r
      OBVIOUS
    <2> HIDE DEF r
    <2>4. RowTrue(r)'
      BY <2>1, <2>2, <2>3, CommittedKept DEF RowTrue
    <2> QED  BY <2>4 DEF r
  <1> QED  BY <1>1 DEF RowsOK

\* Each runner that is not p stays.
LEMMA Others ==
  ASSUME IInv, RowsInv, NEW p \in Proc, \A q \in Proc : q # p => job'[q] = job[q],
         \/ jlock \in {p, Nobody}
         \/ UNCHANGED <<jdisk, jsynced, jstep, jevent, checkpoint, sessions, cost, live>>
  PROVE  \A q \in Proc : q # p => TxOK(q)'
  <1> SUFFICES ASSUME NEW q \in Proc, q # p
               PROVE  TxOK(q)'
    OBVIOUS
  <1>1. CASE jlock \in {p, Nobody}
    BY <1>1, OtherTx
  <1>2. CASE UNCHANGED <<jdisk, jsynced, jstep, jevent, checkpoint, sessions, cost, live>>
    BY <1>2, UntouchedTx DEF RowsInv
  <1> QED  BY <1>1, <1>2

\* p goes where it works on nothing.
LEMMA QuietSafe ==
  ASSUME IInv, RowsInv, NEW p \in Proc, \A q \in Proc : q # p => job'[q] = job[q],
         job'[p].pc \notin OnTx, SyncedKept, kept' \in [Dir -> Nat],
         UNCHANGED <<checkpoint, sessions, cost, live>>,
         jlock \in {p, Nobody} \/ UNCHANGED <<jdisk, jsynced, jstep, jevent>>
  PROVE  RowsInv'
  <1>1. RowsOK'
    BY RowsKept DEF RowsInv
  <1>2. TxOK(p)'
    BY NoTx
  <1>3. \A q \in Proc : q # p => TxOK(q)'
    BY Others
  <1> QED  BY <1>1, <1>2, <1>3 DEF RowsInv

\* p, under the lock, writes a row.
LEMMA RowSafe ==
  ASSUME IInv, RowsInv, NEW p \in Proc, \A q \in Proc : q # p => job'[q] = job[q],
         job'[p].pc \notin OnTx, jlock = p, NEW d \in Dir, NEW row \in AnyRow, RowTrue(row),
         checkpoint' = [checkpoint EXCEPT ![d] = Append(@, row)],
         UNCHANGED <<jdisk, jsynced, kept, sessions, cost, live>>,
         row.cell # 0 => \A i \in DOMAIN checkpoint[d] : checkpoint[d][i].tx # row.tx
  PROVE  RowsInv'
  <1> DEFINE old == checkpoint[d]
             new == checkpoint'[d]
  <1>1. old \in Seq(AnyRow) /\ new = Append(old, row)
    BY DEF RowsInv, RowsOK
  <1>2. /\ DOMAIN new = 1 .. Len(old) + 1 /\ DOMAIN old = 1 .. Len(old) /\ Len(old) \in Nat
        /\ new[Len(old) + 1] = row /\ \A i \in DOMAIN old : new[i] = old[i]
        /\ new \in Seq(AnyRow)
    <2>1. \A s, r : s \in Seq(AnyRow) /\ r \in AnyRow =>
            /\ DOMAIN Append(s, r) = 1 .. Len(s) + 1 /\ DOMAIN s = 1 .. Len(s)
            /\ Len(s) \in Nat /\ Append(s, r)[Len(s) + 1] = r
            /\ \A i \in DOMAIN s : Append(s, r)[i] = s[i]
            /\ Append(s, r) \in Seq(AnyRow)
      OBVIOUS
    <2> QED  BY <1>1, <2>1
  <1>3. /\ checkpoint' \in [Dir -> Seq(AnyRow)]
        /\ \A e \in Dir : e # d => checkpoint'[e] = checkpoint[e]
    BY <1>1, <1>2 DEF RowsInv, RowsOK
  <1>4. \A r : RowTrue(r) => RowTrue(r)'
    BY DEF RowTrue
  <1>5. \A e \in Dir : \A i \in DOMAIN checkpoint[e] : RowTrue(checkpoint[e][i])
    BY DEF RowsInv, RowsOK
  <1> HIDE DEF old, new
  <1>6. \A i \in DOMAIN new : i \in DOMAIN old \/ i = Len(old) + 1
    BY <1>2
  <1>7. \A i \in DOMAIN new : RowTrue(new[i])
    BY <1>2, <1>5, <1>6 DEF old
  <1>8. \A i, j \in DOMAIN new : new[i].cell # 0 /\ new[i].tx = new[j].tx => i = j
    <2>1. \A i, j \in DOMAIN old : old[i].cell # 0 /\ old[i].tx = old[j].tx => i = j
      BY DEF RowsInv, RowsOK, old
    <2>2. \A i \in DOMAIN old : old[i].cell # 0 => old[i].tx # row.tx
      <3>1. ASSUME row.cell = 0, NEW i \in DOMAIN old, old[i].cell # 0
            PROVE  old[i].tx # row.tx
        <4>1. row.tx = 0
          BY <3>1 DEF RowTrue
        <4>2. old[i].tx > 0
          BY <3>1, <1>5 DEF RowTrue, old
        <4> QED  BY <4>1, <4>2
      <3> QED  BY <3>1 DEF old
    <2>3. row.cell # 0 => \A i \in DOMAIN old : old[i].tx # row.tx
      BY DEF old
    <2> QED  BY <1>2, <1>6, <2>1, <2>2, <2>3
  <1>9. \A e \in Dir : \A i \in DOMAIN checkpoint'[e] : RowTrue(checkpoint'[e][i])
    BY <1>3, <1>5, <1>7 DEF new
  <1>10. \A e \in Dir : \A i, j \in DOMAIN checkpoint'[e] :
           checkpoint'[e][i].cell # 0 /\ checkpoint'[e][i].tx = checkpoint'[e][j].tx => i = j
    BY <1>3, <1>8 DEF RowsInv, RowsOK, new
  <1>11. \A e \in Dir : \A i \in DOMAIN checkpoint'[e] : RowTrue(checkpoint[e][i])'
    BY <1>4, <1>9 DEF RowTrue
  <1>12. RowsOK'
    BY <1>3, <1>10, <1>11 DEF RowsInv, RowsOK
  <1>13. TxOK(p)'
    BY NoTx
  <1>14. \A q \in Proc : q # p => TxOK(q)'
    BY Others
  <1> QED  BY <1>12, <1>13, <1>14 DEF RowsInv

-----------------------------------------------------------------------------
(* The course of one cell                                                    *)

\* A transaction that was reserved under the lock is authorized.
LEMMA AuthorizeRows ==
  ASSUME IInv, RowsInv, NEW p \in Proc, Authorize(p)
  PROVE  RowsInv'
  <1>1. /\ At(p, "reserving") /\ JReady(p)
        /\ UNCHANGED <<checkpoint, kept, sessions, cost, live>>
        /\ jmem = jdisk /\ Sound(jdisk) /\ jlock = p /\ jstep = "idle"
    BY ReadyKnows DEF Authorize, money, files
  <1>2. PICK t \in Live(jmem, job[p].cell) :
           /\ JAuthorize(p, t, Len(jmem), {})
           /\ job' = [job EXCEPT ![p].pc = "authorizing", ![p].tx = t]
    BY DEF Authorize
  <1>3. t \in Transactions(jdisk) /\ jdisk[t].run = job[p].cell /\ t \in Int
    BY <1>1 DEF Live, Transactions, Sound
  <1>4. JobStep(p) /\ job'[p].pc = "authorizing" /\ job'[p].tx = t /\ job'[p].cell = job[p].cell
    <2> DEFINE j == [job[p] EXCEPT !.pc = "authorizing", !.tx = t]
    <2>1. job[p] \in JobTyped /\ "authorizing" \in Course
      BY DEF IInv, Course
    <2>2. j \in JobTyped /\ j.pc = "authorizing" /\ j.tx = t /\ j.cell = job[p].cell
      BY <1>3, <2>1 DEF JobTyped
    <2>3. job' = [job EXCEPT ![p] = j]
      BY <1>2
    <2> HIDE DEF j
    <2> QED  BY <2>2, <2>3, JobSet DEF IInv
  <1>5. UNCHANGED <<jdisk, jsynced>>
    BY <1>2 DEF JAuthorize, JAppend, JRefuse
  <1>6. RowsOK'
    BY <1>1, <1>5, RowsKept DEF RowsInv, RowsOK, SyncedKept
  <1>7. \A q \in Proc : q # p => TxOK(q)'
    BY <1>1, <1>4, Others DEF JobStep
  <1>8. AuthorizingTx(p)'
    <2> DEFINE e == EventOf("request_authorized", t, jmem[t].run, Unsettled, {})
    <2>1. CASE State(jmem, t) = "reserved" /\ JAppend(p, e)
      <3>1. Known(p)'
        BY <1>1, <1>3, <1>4, <1>5, <2>1, ReservedKnown DEF Known, RowsInv
      <3>2. jevent' = e /\ jstep' \in {"write", "raised"}
        BY <2>1, AppendShape
      <3> QED  BY <1>4, <3>1, <3>2 DEF AuthorizingTx, EventOf
    <2>2. CASE JRefuse(p)
      BY <2>2, RefuseShape DEF AuthorizingTx
    <2> QED  BY <1>2, <2>1, <2>2 DEF JAuthorize
  <1>9. TxOK(p)'
    BY <1>4, <1>8 DEF TxOK, PayingTx, Paying, CommittingTx, At
  <1> QED  BY <1>6, <1>7, <1>9 DEF RowsInv

\* Its session starts: no row is about this cell.
LEMMA StartSessionRows ==
  ASSUME IInv, RowsInv, NEW p \in Proc, StartSession(p)
  PROVE  RowsInv'
  <1> DEFINE c == job[p].cell
  <1>1. /\ At(p, "authorizing") /\ jlock = p /\ jstep = "idle" /\ Goto(p, "running")
        /\ UNCHANGED <<journalVars, checkpoint, kept>>
        /\ sessions' = [sessions EXCEPT ![c] = @ + 1] /\ live' = live \cup {c}
        /\ cost' = [cost EXCEPT ![c] = MaxCost]
    BY DEF StartSession, files, JReady
  <1>2. c \in Run /\ sessions[c] = 0
    BY <1>1 DEF IInv, JobOK, AuthorizingOK, At, OnCell
  <1>3. JobStep(p) /\ job'[p].pc = "running" /\ job'[p].tx = job[p].tx /\ job'[p].cell = c
    <2>1. "running" \in Course
      BY DEF Course
    <2> QED  BY <1>1, <2>1, JobGoto DEF IInv
  <1>4. sessions' \in [Run -> Nat] /\ sessions'[c] >= 1
        /\ \A x \in Run : x # c => sessions'[x] = sessions[x] /\ cost'[x] = cost[x]
    BY <1>1, <1>2 DEF IInv, SessionsOK
  <1>5. RowsOK'
    <2>1. SyncedKept
      BY <1>1 DEF SyncedKept, journalVars
    <2> QED  BY <1>1, <1>2, <1>4, <2>1, RowsKept DEF RowsInv, RowsOK
  <1>6. \A q \in Proc : q # p => TxOK(q)'
    BY <1>1, <1>3, Others DEF JobStep
  <1>7. AuthorizingTx(p)
    BY DEF RowsInv, TxOK
  <1>8. PayingTx(p)'
    <2>1. Known(p)'
      BY <1>1, <1>3, <1>7 DEF AuthorizingTx, Known, journalVars
    <2> QED  BY <1>1, <1>3, <1>4, <1>7, <2>1 DEF AuthorizingTx, PayingTx, journalVars
  <1>9. TxOK(p)'
    BY <1>3, <1>8 DEF TxOK, AuthorizingTx, CommittingTx, At
  <1> QED  BY <1>5, <1>6, <1>9 DEF RowsInv

\* The attempt is exported and entered in the ledger.
LEMMA PayingRows ==
  ASSUME IInv, RowsInv, NEW p \in Proc, Export(p) \/ LedgerAppend(p)
  PROVE  RowsInv'
  <1>1. PICK pc \in {"exported", "ledgered"} : Goto(p, pc)
    BY DEF Export, LedgerAppend
  <1>2. /\ job[p].pc \in Paying /\ job[p].pc \in Holding /\ pc \in Course
        /\ UNCHANGED <<journalVars, checkpoint, kept, sessions, cost, live>>
        /\ (job[p].pc = "running" => job[p].cell \notin live)
    BY <1>1 DEF Export, LedgerAppend, Ended, At, Paying, Holding, Course, money
  <1>3. JobStep(p) /\ job'[p].pc = pc /\ job'[p].tx = job[p].tx /\ job'[p].cell = job[p].cell
    BY <1>1, <1>2, JobGoto DEF IInv
  <1>4. RowsOK'
    <2>1. SyncedKept
      BY <1>2 DEF SyncedKept, journalVars
    <2> QED  BY <1>2, <2>1, RowsKept DEF RowsInv, RowsOK
  <1>5. \A q \in Proc : q # p => TxOK(q)'
    BY <1>2, <1>3, Holder, Others DEF JobStep
  <1>6. PayingTx(p)
    BY DEF RowsInv, TxOK
  <1>7. PayingTx(p)'
    <2>1. Known(p)'
      BY <1>2, <1>3, <1>6 DEF PayingTx, Known, journalVars
    <2> QED  BY <1>2, <1>3, <1>6, <2>1 DEF PayingTx, journalVars
  <1>8. TxOK(p)'
    BY <1>3, <1>7 DEF TxOK, AuthorizingTx, CommittingTx, At
  <1> QED  BY <1>4, <1>5, <1>8 DEF RowsInv

Commits(p) ==
    \/ ChainedCommit(p) \/ ArmsCommit(p) \/ PluginCommit(p) \/ PilotCommit(p) \/ AgentCommit(p)

\* The commit of what a session cost, once the session is over.
LEMMA CommitShape ==
  ASSUME IInv, RowsInv, NEW p \in Proc, Commits(p)
  PROVE  /\ Goto(p, "committing") /\ UNCHANGED <<checkpoint, kept, sessions, cost, live>>
         /\ job[p].pc \in Paying /\ job[p].cell \in Run \ live
         /\ jlock = p /\ jstep = "idle" /\ jstep' \in {"write", "raised"}
         /\ UNCHANGED <<jdisk, jsynced>>
         /\ jevent' = EventOf("committed", job[p].tx, jdisk[job[p].tx].run,
                              cost[job[p].cell], {})
  <1> DEFINE t == job[p].tx
             amount == cost[job[p].cell]
             e == EventOf("committed", t, jmem[t].run, amount, {})
  <1>1. Commit(p) /\ job[p].pc \in Paying /\ (job[p].pc = "running" => job[p].cell \notin live)
    BY DEF Commits, ChainedCommit, ArmsCommit, PluginCommit, PilotCommit, AgentCommit, Ended, At,
           Paying
  <1>2. JCommit(p, t, amount, {}) /\ Goto(p, "committing")
        /\ UNCHANGED <<checkpoint, kept, sessions, cost, live>>
    BY <1>1 DEF Commit, money, files
  <1>3. PayingTx(p) /\ job[p].pc \in Holding /\ job[p].pc \in OnCell
    BY <1>1 DEF RowsInv, TxOK, Paying, Holding, Course, OnCell
  <1>4. jlock = p /\ jstep = "idle" /\ jmem = jdisk /\ job[p].cell \in Run \ live
    BY <1>1, <1>3, Holder DEF PayingTx, IInv, JInv
  <1>5. State(jmem, t) = "request_authorized"
    BY <1>1, <1>3, <1>4 DEF PayingTx
  <1> HIDE DEF t, amount, e
  <1>6. JAppend(p, e)
    <2>1. Events(jmem, t, "committed") = {}
      BY <1>4, <1>5, StateFacts DEF Events, IInv, JInv
    <2> QED  BY <1>2, <1>5, <2>1 DEF JCommit, e
  <1>7. UNCHANGED <<jdisk, jsynced>> /\ jevent' = e /\ jstep' \in {"write", "raised"}
    BY <1>6, AppendShape
  <1> QED  BY <1>1, <1>2, <1>4, <1>7 DEF e, t, amount

LEMMA CommitRows ==
  ASSUME IInv, RowsInv, NEW p \in Proc, Commits(p)
  PROVE  RowsInv'
  <1> DEFINE t == job[p].tx
             e == EventOf("committed", t, jdisk[t].run, cost[job[p].cell], {})
  <1>1. /\ Goto(p, "committing") /\ UNCHANGED <<checkpoint, kept, sessions, cost, live>>
        /\ job[p].pc \in Paying /\ job[p].cell \in Run \ live
        /\ jlock = p /\ jstep = "idle" /\ jstep' \in {"write", "raised"}
        /\ UNCHANGED <<jdisk, jsynced>> /\ jevent' = e
    BY CommitShape
  <1>2. PayingTx(p)
    BY DEF RowsInv, TxOK
  <1>3. JobStep(p) /\ job'[p].pc = "committing" /\ job'[p].tx = t /\ job'[p].cell = job[p].cell
    <2>1. "committing" \in Course
      BY DEF Course
    <2> QED  BY <1>1, <2>1, JobGoto DEF IInv
  <1> HIDE DEF t, e
  <1>4. RowsOK'
    BY <1>1, RowsKept DEF RowsInv, RowsOK, SyncedKept
  <1>5. \A q \in Proc : q # p => TxOK(q)'
    BY <1>1, <1>3, Others DEF JobStep
  <1>6. CommittingTx(p)'
    <2>1. Known(p)'
      BY <1>1, <1>2, <1>3 DEF PayingTx, Known, t
    <2> QED  BY <1>1, <1>2, <1>3, <2>1 DEF PayingTx, CommittingTx, e, EventOf, t
  <1>7. TxOK(p)'
    BY <1>3, <1>6 DEF TxOK, AuthorizingTx, PayingTx, Paying, At
  <1> QED  BY <1>4, <1>5, <1>7 DEF RowsInv

\* A row is written: of an attempt that was committed, or of one that was not and says
\* so, or of an empty prefix.
LEMMA WriteRows ==
  ASSUME IInv, RowsInv, NEW p \in Proc,
         \/ KeyedWrites(p) \/ ArmsInvalid(p)
         \/ PilotInitial(p) \/ PilotCheckpoint(p) \/ AgentCheckpoint(p)
  PROVE  RowsInv'
  <1> DEFINE c == job[p].cell
             t == job[p].tx
             d == job[p].dir
             amount == cost[c]
  <1>1. job[p].pc \in Holding
    BY DEF KeyedWrites, WriteRollouts, ArmsInvalid, PilotInitial, PilotCheckpoint, AgentCheckpoint,
           CellCheckpoint, At, Holding, Course
  <1>2. jlock = p /\ d \in Dir /\ job[p] \in JobTyped /\ (job[p].pc \in OnCell => c \in Run)
    BY <1>1, Holder DEF IInv
  <1>3. UNCHANGED <<jdisk, jsynced, kept, sessions, cost, live>>
    BY DEF KeyedWrites, WriteRollouts, ArmsInvalid, PilotInitial, PilotCheckpoint, AgentCheckpoint,
           CellCheckpoint, Checkpoint, Exit, JClose, journalVars, money
  <1>4. (\A q \in Proc : q # p => job'[q] = job[q]) /\ job'[p].pc \notin OnTx
    <2>1. Goto(p, "next") \/ Goto(p, "syncing") \/ Exit(p)
      BY DEF KeyedWrites, WriteRollouts, ArmsInvalid, PilotInitial, PilotCheckpoint,
             AgentCheckpoint, CellCheckpoint, Checkpoint
    <2>2. "next" \in Course /\ "syncing" \in Course
      BY DEF Course
    <2>3. CASE Exit(p)
      BY <2>3, IdleTyped, JobSet DEF Exit, JobStep, OnTx, Paying, IInv
    <2> QED  BY <2>1, <2>2, <2>3, JobGoto DEF JobStep, OnTx, Paying, IInv
  <1>5. ASSUME NEW row \in AnyRow, RowTrue(row),
               checkpoint' = [checkpoint EXCEPT ![d] = Append(@, row)],
               row.cell = 0 \/ (row.tx = t /\ Known(p))
        PROVE  RowsInv'
    <2>1. row.cell # 0 => \A i \in DOMAIN checkpoint[d] : checkpoint[d][i].tx # row.tx
      BY <1>2, <1>5 DEF Known
    <2> HIDE DEF d, t
    <2> QED  BY <1>2, <1>3, <1>4, <1>5, <2>1, RowSafe
  <1>6. CASE PilotInitial(p)
    <2>1. checkpoint' = [checkpoint EXCEPT ![d] = Append(@, Initial(jmem))] /\ JReady(p)
      BY <1>6 DEF PilotInitial, Checkpoint
    <2>2. Initial(jmem) \in AnyRow /\ Initial(jmem).cell = 0 /\ Initial(jmem).tx = 0
      <3>1. jmem \in Seq(AnyEvent)
        BY <2>1, ReadyKnows
      <3> QED  BY <3>1 DEF Initial, Row, AnyRow
    <2>3. RowTrue(Initial(jmem))
      BY <2>2 DEF RowTrue
    <2> QED  BY <1>5, <2>1, <2>2, <2>3
  <1>7. ASSUME NEW scored \in BOOLEAN, NEW head \in Seq(AnyEvent), c \in Run,
               checkpoint' = [checkpoint EXCEPT ![d] = Append(@, Row(c, t, amount, scored, head))],
               Known(p), AuthorizedTx(jsynced, t), sessions[c] >= 1, c \notin live,
               scored => Committed(jsynced, t, c, amount)
        PROVE  RowsInv'
    <2> DEFINE row == Row(c, t, amount, scored, head)
    <2>1. row.cell = c /\ row.tx = t /\ row.scored = scored
      BY DEF Row
    <2>2. row \in AnyRow
      <3>1. t \in Int /\ amount \in Int
        BY <1>2, <1>7 DEF JobTyped, IInv, SessionsOK
      <3> HIDE DEF t, amount, c
      <3> QED  BY <1>7, <3>1 DEF Row, AnyRow
    <2>3. t > 0
      BY <1>7 DEF Known, Transactions, IInv, JInv, Sound
    <2>4. c # 0
      BY <1>7
    <2> HIDE DEF row
    <2>5. RowTrue(row)
      BY <1>7, <2>1, <2>3, <2>4 DEF RowTrue
    <2> QED  BY <1>5, <1>7, <2>1, <2>2, <2>5 DEF row
  <1>8. CASE ArmsInvalid(p)
    <2>1. At(p, "running") /\ c \notin live
          /\ checkpoint' = [checkpoint EXCEPT ![d] = Append(@, Row(c, t, amount, FALSE, << >>))]
      BY <1>8 DEF ArmsInvalid, Ended
    <2>2. c \in Run
      BY <1>2, <2>1 DEF At, OnCell
    <2>3. Known(p) /\ AuthorizedTx(jsynced, t) /\ sessions[c] >= 1
      BY <2>1 DEF RowsInv, TxOK, PayingTx, Paying, At
    <2>4. << >> \in Seq(AnyEvent)
      OBVIOUS
    <2> QED  BY <1>7, <2>1, <2>2, <2>3, <2>4
  <1>9. CASE KeyedWrites(p) \/ PilotCheckpoint(p) \/ AgentCheckpoint(p)
    <2>1. At(p, "committing") /\ JReady(p)
      BY <1>9 DEF KeyedWrites, WriteRollouts, PilotCheckpoint, AgentCheckpoint, CellCheckpoint
    <2>2. c \in Run /\ jstep = "idle" /\ jmem \in Seq(AnyEvent) /\ << >> \in Seq(AnyEvent)
      BY <1>2, <2>1, ReadyKnows DEF At, OnCell
    <2>3. /\ Known(p) /\ AuthorizedTx(jsynced, t) /\ sessions[c] >= 1 /\ c \notin live
          /\ Committed(jsynced, t, c, amount)
      BY <2>1, <2>2 DEF RowsInv, TxOK, CommittingTx
    <2>4. CASE KeyedWrites(p)
      <3>1. checkpoint' = [checkpoint EXCEPT
               ![d] = Append(@, Row(c, t, amount, left[c] = "scored", << >>))]
        BY <2>4 DEF KeyedWrites, WriteRollouts
      <3>2. (left[c] = "scored") \in BOOLEAN
        OBVIOUS
      <3> QED  BY <1>7, <2>2, <2>3, <3>1, <3>2
    <2>5. CASE PilotCheckpoint(p) \/ AgentCheckpoint(p)
      <3>1. checkpoint' = [checkpoint EXCEPT ![d] = Append(@, Row(c, t, amount, TRUE, jmem))]
        BY <2>5 DEF PilotCheckpoint, AgentCheckpoint, CellCheckpoint, Checkpoint
      <3>2. TRUE \in BOOLEAN
        OBVIOUS
      <3> QED  BY <1>7, <2>2, <2>3, <3>1, <3>2
    <2> QED  BY <1>9, <2>4, <2>5
  <1> QED  BY <1>6, <1>8, <1>9

-----------------------------------------------------------------------------
(* The other steps of a runner                                               *)

\* A step of p that only moves it, and touches neither document.
Moves(p) ==
    /\ \A q \in Proc : q # p => job'[q] = job[q]
    /\ job'[p].pc \notin OnTx
    /\ UNCHANGED <<jdisk, jsynced>>
    /\ jlock \in {p, Nobody} \/ UNCHANGED <<jstep, jevent>>

LEMMA MovesSafe ==
  ASSUME IInv, RowsInv, NEW p \in Proc, Moves(p), kept' \in [Dir -> Nat],
         UNCHANGED <<checkpoint, sessions, cost, live>>
  PROVE  RowsInv'
  BY QuietSafe DEF Moves, SyncedKept

LEMMA GotoMoves ==
  ASSUME IInv, NEW p \in Proc, NEW pc \in Course \ OnTx, Goto(p, pc), UNCHANGED journalVars
  PROVE  Moves(p)
  <1>1. JobStep(p) /\ job'[p].pc = pc
    BY JobGoto DEF IInv
  <1> QED  BY <1>1 DEF Moves, JobStep, journalVars

LEMMA ExitMoves ==
  ASSUME IInv, NEW p \in Proc, Exit(p)
  PROVE  Moves(p)
  <1>1. JobStep(p) /\ job'[p].pc = "idle"
    BY JobSet, IdleTyped DEF Exit, IInv
  <1> QED  BY <1>1 DEF Moves, Exit, JClose, journalVars, JobStep, OnTx, Paying

LEMMA OtherStepRows ==
  ASSUME IInv, RowsInv, NEW p \in Proc,
         \/ Aborted(p) \/ Raised(p) \/ Finish(p) \/ Crash(p)
         \/ ChainedFails(p) \/ PluginRefuses(p)
         \/ Unusable(p) \/ PilotPauses(p) \/ PilotUnprepared(p) \/ PilotRefuses(p)
         \/ AgentUnprepared(p) \/ AgentRefuses(p)
         \/ ChainedLoad(p) \/ ArmsLoad(p) \/ PluginLoad(p)
         \/ PilotLoad(p) \/ BlockLoad(p) \/ AgentLoad(p) \/ AgentFresh(p)
         \/ Prepare(p) \/ Sync(p)
  PROVE  RowsInv'
  <1>1. \/ Exit(p)
        \/ (Goto(p, "next") \/ Goto(p, "prepared")) /\ UNCHANGED journalVars
    BY DEF Aborted, Raised, Finish, Crash, ChainedFails, PluginRefuses, Unusable, PilotPauses,
       PilotUnprepared, PilotRefuses, AgentUnprepared, AgentRefuses, Refuses, ChainedLoad,
       ArmsLoad, PluginLoad, Loaded, PilotLoad, BlockLoad, AgentLoad, Resumed, AgentFresh,
       Prepare, Sync
  <1>2. UNCHANGED <<checkpoint, sessions, cost, live>> /\ (kept' = kept \/ Sync(p))
    BY DEF Aborted, Raised, Finish, Crash, ChainedFails, PluginRefuses, Unusable, PilotPauses,
       PilotUnprepared, PilotRefuses, AgentUnprepared, AgentRefuses, Refuses, ChainedLoad,
       ArmsLoad, PluginLoad, Loaded, PilotLoad, BlockLoad, AgentLoad, Resumed, AgentFresh,
       Prepare, Sync, money, files
  <1>3. kept' \in [Dir -> Nat]
    <2>1. CASE Sync(p)
      <3>1. job[p].dir \in Dir
        BY <2>1, Holder DEF Sync, At, Holding, Course
      <3>2. Len(checkpoint[job[p].dir]) \in Nat
        BY <3>1 DEF RowsInv, RowsOK
      <3> QED  BY <2>1, <3>2 DEF Sync, RowsInv, RowsOK
    <2> QED  BY <1>2, <2>1 DEF RowsInv, RowsOK
  <1>4. {"next", "prepared"} \subseteq Course \ OnTx
    BY DEF Course, OnTx, Paying
  <1>5. Moves(p)
    BY <1>1, <1>4, GotoMoves, ExitMoves
  <1> QED  BY <1>2, <1>3, <1>5, MovesSafe

\* A start, and the journal opened.
LEMMA StartMoves ==
  ASSUME IInv, NEW p \in Proc,
         PilotOpen(p) \/ \E d \in Dir : \/ PilotStart(p, d) \/ BlockStart(p, d)
                                        \/ KeyedStart(p, d) \/ AgentStart(p, d)
  PROVE  /\ Moves(p) /\ job'[p].pc \in {"opening", "load"}
         /\ JOpen(p) \/ UNCHANGED journalVars
  <1>1. JOpen(p) \/ UNCHANGED journalVars
    BY Zenon DEF PilotOpen, PilotStart, BlockStart, KeyedStart, AgentStart
  <1>2. \E pc \in {"opening", "load"} : JobStep(p) /\ job'[p].pc = pc
    <2>1. "opening" \in Course /\ "load" \in Course
      BY DEF Course
    <2>2. CASE PilotOpen(p)
      BY <2>1, <2>2, JobGoto DEF PilotOpen, IInv
    <2>3. ASSUME NEW d \in Dir, PilotStart(p, d) \/ BlockStart(p, d)
          PROVE  JobStep(p) /\ job'[p].pc = "opening"
      <3>1. \E resume \in BOOLEAN : Starting(p, d, "opening", resume)
        BY <2>3 DEF PilotStart, BlockStart
      <3> QED  BY <2>1, <3>1, JobStart, Zenon DEF Starting, IInv
    <2>4. ASSUME NEW d \in Dir, AgentStart(p, d)
          PROVE  JobStep(p) /\ job'[p].pc = "load"
      <3>1. \E resume \in BOOLEAN : Starting(p, d, "load", resume)
        BY <2>4 DEF AgentStart
      <3> QED  BY <2>1, <3>1, JobStart, Zenon DEF Starting, IInv
    <2>5. ASSUME NEW d \in Dir, KeyedStart(p, d)
          PROVE  JobStep(p) /\ job'[p].pc = "load"
      BY <2>1, <2>5, JobStart, Zenon DEF KeyedStart, IInv
    <2> QED  BY <2>2, <2>3, <2>4, <2>5
  <1> QED  BY <1>1, <1>2 DEF Moves, JobStep, JOpen, journalVars, OnTx, Paying

LEMMA StartRows ==
  ASSUME IInv, RowsInv, NEW p \in Proc,
         PilotOpen(p) \/ \E d \in Dir : \/ PilotStart(p, d) \/ BlockStart(p, d)
                                        \/ KeyedStart(p, d) \/ AgentStart(p, d)
  PROVE  RowsInv'
  <1>1. UNCHANGED <<checkpoint, kept, sessions, cost, live>>
    BY Zenon DEF PilotOpen, PilotStart, BlockStart, KeyedStart, AgentStart, money, files
  <1> QED  BY <1>1, StartMoves, MovesSafe DEF RowsInv, RowsOK

\* The next cell is reserved, or a reservation given back.
LEMMA ReserveRows ==
  ASSUME IInv, RowsInv, NEW p \in Proc,
         \/ ChainedReserve(p) \/ ArmsReserve(p) \/ PluginReserve(p)
         \/ PilotReserve(p) \/ AgentReserve(p) \/ AuthorizeRaised(p) \/ Drift(p)
  PROVE  RowsInv'
  <1>1. UNCHANGED <<checkpoint, kept, sessions, cost, live>>
    BY DEF ChainedReserve, ArmsReserve, PluginReserve, NextReserve, PilotReserve, AgentReserve,
           Reserve, Refuses, AuthorizeRaised, Drift, Abort, money, files
  <1>2. job[p].pc \in Holding
    BY DEF ChainedReserve, ArmsReserve, PluginReserve, NextReserve, PilotReserve, AgentReserve,
           AuthorizeRaised, Drift, At, Holding, Course
  <1>3. \/ Exit(p) \/ (\E c, note : Reserve(p, c, note)) \/ (\E t : Abort(p, t))
    BY DEF ChainedReserve, ArmsReserve, PluginReserve, NextReserve, PilotReserve, AgentReserve,
           Refuses, AuthorizeRaised, Drift
  <1>4. ASSUME NEW t, Abort(p, t)
        PROVE  Moves(p)
    <2>1. JobStep(p) /\ job'[p].pc = "aborting"
      <3>1. "aborting" \in Course
        BY DEF Course
      <3> QED  BY <1>4, <3>1, JobGoto DEF Abort, IInv
    <2> QED  BY <1>2, <1>4, <2>1, Holder DEF Moves, JobStep, Abort, JAbort, OnTx, Paying
  <1>5. ASSUME NEW c, NEW note, Reserve(p, c, note)
        PROVE  Moves(p)
    <2>1. /\ \A q \in Proc : q # p => job'[q] = job[q]
          /\ job'[p].pc = "reserving"
      <3> DEFINE j == [job[p] EXCEPT !.pc = "reserving", !.cell = c, !.store = note]
      <3>1. job \in [Proc -> JobTyped] /\ job[p] \in JobTyped
        BY DEF IInv
      <3>2. job' = [job EXCEPT ![p] = j] /\ j.pc = "reserving"
        BY <1>5, <3>1 DEF Reserve, JobTyped
      <3> HIDE DEF j
      <3> QED  BY <3>1, <3>2
    <2>2. UNCHANGED <<jdisk, jsynced>>
      BY <1>5 DEF Reserve, JReserve, JAppend, JRefuse, journalVars
    <2> QED  BY <1>2, <2>1, <2>2, Holder DEF Moves, OnTx, Paying
  <1> QED  BY <1>1, <1>3, <1>4, <1>5, ExitMoves, MovesSafe DEF RowsInv, RowsOK

LEMMA RunnerStepRows ==
  ASSUME IInv, RowsInv, NEW p \in Proc, RunnerStep(p), ~SessionKilled(p)
  PROVE  RowsInv'
  <1>1. CASE KeyedStep(p)
    BY <1>1, StartRows, OtherStepRows, ReserveRows, PayingRows, CommitRows, WriteRows
       DEF KeyedStep, Commits
  <1>2. CASE PrefixStep(p)
    BY <1>2, StartRows, OtherStepRows, ReserveRows, CommitRows, WriteRows
       DEF PrefixStep, Commits
  <1> QED
    BY <1>1, <1>2, AuthorizeRows, ReserveRows, OtherStepRows, StartSessionRows DEF RunnerStep

-----------------------------------------------------------------------------
(* Sessions, the append, the machine                                         *)

\* A session ends: no row is about it yet.
LEMMA SessionRows ==
  ASSUME IInv, RowsInv, NEW c \in live \cap Run,
         UNCHANGED <<journalVars, job, sessions, checkpoint, kept>>, live' = live \ {c},
         \A x \in Run : x # c => cost'[x] = cost[x]
  PROVE  RowsInv'
  <1>1. SyncedKept
    BY DEF SyncedKept, journalVars
  <1>2. RowsOK'
    BY <1>1, RowsKept DEF RowsInv, RowsOK
  <1>3. ASSUME NEW q \in Proc
        PROVE  TxOK(q)'
    <2>1. CASE job[q].pc \in OnTx
      <3>1. job[q].cell \in Run
        BY <2>1, Holder DEF OnTx, Paying, Holding, Course, OnCell
      <3> QED  BY <3>1, UntouchedTx DEF RowsInv, journalVars
    <2>2. CASE job[q].pc \notin OnTx
      BY <2>2, NoTx
    <2> QED  BY <2>1, <2>2
  <1> QED  BY <1>2, <1>3 DEF RowsInv

\* The append of p moves on, and its claim with it.
LEMMA WorkTx ==
  ASSUME IInv, RowsInv, NEW p \in Proc, JWork, jlock = p,
         UNCHANGED <<job, sessions, cost, live, checkpoint>>
  PROVE  TxOK(p)'
  <1>1. jlock' = p /\ jevent' = jevent
    BY DEF JWork, JWrite, JReplace, JSync, JFail
  <1>2. TxOK(p) /\ JInv
    BY DEF RowsInv, IInv
  <1>3. PayingTx(p)'
    <2>1. jstep # "idle"
      BY DEF JWork, JWrite, JReplace, JSync, JFail
    <2> QED  BY <1>2, <2>1 DEF TxOK, PayingTx
  <1>4. CASE JFail
    BY <1>3, <1>4 DEF JFail, TxOK, At, AuthorizingTx, CommittingTx
  <1>5. CASE JWrite
    <2>1. Known(p)' = Known(p)
      BY <1>5 DEF JWrite, Known
    <2> QED  BY <1>1, <1>2, <1>3, <1>5, <2>1 DEF JWrite, TxOK, At, AuthorizingTx, CommittingTx
  <1>6. CASE JSync
    <2>1. Known(p)' = Known(p)
      BY <1>6 DEF JSync, Known
    <2>2. State(jdisk, job[p].tx) = "request_authorized" => AuthorizedTx(jdisk, job[p].tx)
      BY <1>2, StateFacts DEF JInv, AuthorizedTx
    <2>3. SyncedKept
      BY <1>2, <1>6, JSyncInv
    <2>4. AuthorizingTx(p)'
      BY <1>2, <1>6, <2>1, <2>2 DEF JSync, TxOK, At, AuthorizingTx
    <2>5. CommittingTx(p)'
      BY <1>2, <1>6, <2>1, <2>3, CommittedKept DEF JSync, TxOK, At, CommittingTx
    <2> QED  BY <1>3, <2>4, <2>5 DEF TxOK
  <1>7. CASE JReplace
    <2>1. jmem = jdisk /\ jstep = "replace" /\ jstep' = "sync" /\ Pending1
          /\ jdisk \in Seq(AnyEvent) /\ UNCHANGED jsynced
      BY <1>2, <1>7, JournalAssumption DEF JInv, JReplace, Sound, IInv
    <2>2. CASE jevent = Creation
      <3>1. jevent.action = "created"
        BY <2>2 DEF Creation
      <3> QED  BY <1>2, <1>3, <2>1, <3>1, <1>1 DEF TxOK, At, AuthorizingTx, CommittingTx
    <2>3. CASE jevent # Creation
      <3>1. jevent \in AnyEvent /\ Admissible(jdisk, jevent)
        BY <2>1, <2>3 DEF Pending1
      <3>2. jdisk' = Append(jdisk, jevent)
        BY <1>7, <2>1, <2>3 DEF JReplace, Appended
      <3>3. /\ DOMAIN jdisk' = 1 .. Len(jdisk) + 1 /\ DOMAIN jdisk = 1 .. Len(jdisk)
            /\ Len(jdisk) \in Nat
            /\ jdisk'[Len(jdisk) + 1] = jevent /\ \A i \in DOMAIN jdisk : jdisk'[i] = jdisk[i]
        <4>1. \A d, e : d \in Seq(AnyEvent) /\ e \in AnyEvent =>
                /\ DOMAIN Append(d, e) = 1 .. Len(d) + 1 /\ DOMAIN d = 1 .. Len(d)
                /\ Len(d) \in Nat
                /\ Append(d, e)[Len(d) + 1] = e
                /\ \A i \in DOMAIN d : Append(d, e)[i] = d[i]
          OBVIOUS
        <4> QED  BY <2>1, <3>1, <3>2, <4>1
      <3>4. Known(p) => Known(p)'
        BY <3>3 DEF Known, Transactions
      <3>5. AuthorizingTx(p)'
        <4>1. jevent.action = "request_authorized" =>
                State(jdisk', jevent.tx) = "request_authorized"
          BY <2>1, <3>1, <3>2, AuthorizedState DEF Admissible
        <4> QED  BY <1>2, <2>1, <3>4, <4>1 DEF TxOK, At, AuthorizingTx
      <3>6. CommittingTx(p)'
        <4>1. ASSUME Known(p), jevent.action = "committed", jevent.tx = job[p].tx,
                     jevent.cost = cost[job[p].cell]
              PROVE  Committed(jdisk', job[p].tx, job[p].cell, cost[job[p].cell])
          <5>1. job[p].tx \in DOMAIN jdisk /\ jdisk[job[p].tx].run = job[p].cell
            BY <4>1 DEF Known, Transactions
          <5>2. Len(jdisk) + 1 \in DOMAIN jdisk'
            BY <3>3
          <5> QED  BY <3>3, <4>1, <5>1, <5>2 DEF Committed
        <4> QED  BY <1>2, <2>1, <3>4, <4>1 DEF TxOK, At, CommittingTx
      <3> QED  BY <1>3, <3>5, <3>6 DEF TxOK
    <2> QED  BY <2>2, <2>3
  <1> QED  BY <1>4, <1>5, <1>6, <1>7 DEF JWork

LEMMA WorkRows ==
  ASSUME IInv, RowsInv, JournalWork
  PROVE  RowsInv'
  <1>1. JWork /\ UNCHANGED <<job, sessions, cost, live, checkpoint, kept>>
    BY DEF JournalWork, money, files
  <1>2. SyncedKept
    BY <1>1, JWorkInv DEF IInv
  <1>3. RowsOK'
    BY <1>1, <1>2, RowsKept DEF RowsInv, RowsOK
  <1>4. \A q \in Proc : TxOK(q)'
    BY <1>1, WorkTx, OtherTx
  <1> QED  BY <1>3, <1>4 DEF RowsInv

\* A power loss takes back rows from the end.
LEMMA PowerLossFiles ==
  ASSUME NEW T, checkpoint \in [Dir -> Seq(T)], kept \in [Dir -> Nat], PowerLoss
  PROVE  /\ checkpoint' \in [Dir -> Seq(T)] /\ kept' \in [Dir -> Nat]
         /\ \A d \in Dir : kept'[d] = Len(checkpoint'[d])
         /\ \A d \in Dir : \A i \in DOMAIN checkpoint'[d] :
               i \in DOMAIN checkpoint[d] /\ checkpoint'[d][i] = checkpoint[d][i]
  <1>1. PICK n \in [Dir -> 0 .. Max({Len(checkpoint[d]) : d \in Dir})] :
           /\ \A d \in Dir : n[d] \in kept[d] .. Len(checkpoint[d])
           /\ checkpoint' = [d \in Dir |-> SubSeq(checkpoint[d], 1, n[d])]
           /\ kept' = n
    BY DEF PowerLoss
  <1>2. \A d \in Dir : checkpoint[d] \in Seq(T) /\ kept[d] \in Nat
    OBVIOUS
  <1>3. \A d \in Dir : n[d] \in 0 .. Len(checkpoint[d])
    <2> SUFFICES ASSUME NEW d \in Dir
                 PROVE  n[d] \in 0 .. Len(checkpoint[d])
      OBVIOUS
    <2>1. Len(checkpoint[d]) \in Nat /\ kept[d] \in Nat
      BY <1>2
    <2>2. n[d] \in kept[d] .. Len(checkpoint[d])
      BY <1>1
    <2> QED  BY <2>1, <2>2
  <1>4. \A d \in Dir :
          /\ checkpoint'[d] \in Seq(T) /\ n[d] = Len(checkpoint'[d])
          /\ \A i \in DOMAIN checkpoint'[d] :
                i \in DOMAIN checkpoint[d] /\ checkpoint'[d][i] = checkpoint[d][i]
    <2> SUFFICES ASSUME NEW d \in Dir
                 PROVE  /\ checkpoint'[d] \in Seq(T) /\ n[d] = Len(checkpoint'[d])
                        /\ \A i \in DOMAIN checkpoint'[d] :
                              i \in DOMAIN checkpoint[d] /\ checkpoint'[d][i] = checkpoint[d][i]
      OBVIOUS
    <2>1. checkpoint'[d] = SubSeq(checkpoint[d], 1, n[d])
      BY <1>1
    <2>2. \A s, k : s \in Seq(T) /\ k \in 0 .. Len(s) =>
            /\ SubSeq(s, 1, k) \in Seq(T) /\ k = Len(SubSeq(s, 1, k))
            /\ \A i \in DOMAIN SubSeq(s, 1, k) : i \in DOMAIN s /\ SubSeq(s, 1, k)[i] = s[i]
      OBVIOUS
    <2> QED  BY <1>2, <1>3, <2>1, <2>2
  <1>5. checkpoint' \in [Dir -> Seq(T)] /\ kept' \in [Dir -> Nat]
    BY <1>1, <1>3, <1>4
  <1> QED  BY <1>1, <1>4, <1>5

\* What a row is about it does not take back.
LEMMA PowerLossRows ==
  ASSUME IInv, RowsInv, PowerLoss
  PROVE  RowsInv'
  <1>1. /\ JPowerLoss /\ job' = [p \in Proc |-> Idle] /\ live' = {}
        /\ UNCHANGED <<sessions, cost>>
    BY DEF PowerLoss
  <1>2. SyncedKept
    BY <1>1, JPowerLossInv DEF IInv
  <1>3. /\ checkpoint' \in [Dir -> Seq(AnyRow)] /\ kept' \in [Dir -> Nat]
        /\ \A d \in Dir : \A i \in DOMAIN checkpoint'[d] :
              i \in DOMAIN checkpoint[d] /\ checkpoint'[d][i] = checkpoint[d][i]
    BY PowerLossFiles DEF RowsInv, RowsOK
  <1>4. \A r : RowTrue(r) => RowTrue(r)'
    BY <1>1, <1>2, CommittedKept DEF RowTrue
  <1>5. \A d \in Dir : \A i \in DOMAIN checkpoint'[d] : RowTrue(checkpoint'[d][i])
    BY <1>3 DEF RowsInv, RowsOK
  <1>6. \A d \in Dir : \A i \in DOMAIN checkpoint'[d] : RowTrue(checkpoint[d][i])'
    BY <1>4, <1>5 DEF RowTrue
  <1>7. RowsOK'
    BY <1>3, <1>6 DEF RowsInv, RowsOK
  <1>8. \A q \in Proc : TxOK(q)'
    BY <1>1, NoTx DEF Idle, OnTx, Paying
  <1> QED  BY <1>7, <1>8 DEF RowsInv

LEMMA StillRows ==
  ASSUME IInv, RowsInv, UNCHANGED <<jdisk, jsynced, jstep, jevent, job, money, checkpoint, kept>>
  PROVE  RowsInv'
  <1>1. RowsOK'
    BY RowsKept DEF RowsInv, RowsOK, SyncedKept, money
  <1>2. \A q \in Proc : TxOK(q)'
    BY UntouchedTx DEF RowsInv, money
  <1> QED  BY <1>1, <1>2 DEF RowsInv

-----------------------------------------------------------------------------
(* The theorem                                                               *)

LEMMA InitRows == Init => RowsInv
  <1> SUFFICES ASSUME Init
               PROVE  RowsInv
    OBVIOUS
  <1>1. RowsOK
    <2>1. << >> \in Seq(AnyRow) /\ DOMAIN << >> = {}
      OBVIOUS
    <2> QED  BY <2>1 DEF Init, RowsOK
  <1>2. \A q \in Proc : job[q].pc = "idle"
    BY DEF Init, Idle
  <1>3. \A q \in Proc : TxOK(q)
    BY <1>2 DEF TxOK, AuthorizingTx, PayingTx, CommittingTx, Paying, At
  <1> QED  BY <1>1, <1>3 DEF RowsInv

LEMMA StepRows == IInv /\ RowsInv /\ [Next]_vars => RowsInv'
  <1> SUFFICES ASSUME IInv, RowsInv, [Next]_vars
               PROVE  RowsInv'
    OBVIOUS
  <1>1. ASSUME NEW c \in Run, SessionEnds(c)
        PROVE  RowsInv'
    <2>1. \A x \in Run : x # c => cost'[x] = cost[x]
      BY <1>1 DEF SessionEnds, IInv, SessionsOK
    <2> QED  BY <1>1, <2>1, SessionRows DEF SessionEnds, files
  <1>2. ASSUME NEW p \in Proc, SessionKilled(p)
        PROVE  RowsInv'
    <2>1. job[p].cell \in Run
      BY <1>2, Holder DEF SessionKilled, At, Holding, Course, OnCell
    <2> QED  BY <1>2, <2>1, SessionRows DEF SessionKilled, Ended, files
  <1>3. CASE InspectJournal
    BY <1>3, StillRows DEF InspectJournal, JInspect, files
  <1>4. CASE UNCHANGED vars
    BY <1>4, StillRows DEF vars, journalVars, files
  <1> QED  BY <1>1, <1>2, <1>3, <1>4, RunnerStepRows, WorkRows, PowerLossRows DEF Next

\* A scored row's transaction is committed for good, for its cell and at what its
\* session cost, and pays for no other row (write_rollouts and the checkpoints of the
\* prefix runners come after commit has returned).
THEOREM RowsReportCommits == Spec => []CheckpointTrue
  <1>1. IInv /\ RowsInv => CheckpointTrue
    <2> SUFFICES ASSUME IInv, RowsInv, NEW d \in Dir, NEW i \in DOMAIN checkpoint[d],
                        checkpoint[d][i].scored, checkpoint[d][i].cell # 0
                 PROVE  LET r == checkpoint[d][i]
                        IN /\ State(jsynced, r.tx) = "committed"
                           /\ jsynced[r.tx].run = r.cell
                           /\ Charge(jsynced, r.tx) = cost[r.cell]
                           /\ \A j \in DOMAIN checkpoint[d] :
                                 checkpoint[d][j].tx = r.tx => i = j
      BY DEF CheckpointTrue
    <2> DEFINE r == checkpoint[d][i]
    <2>1. Sound(jsynced)
      BY PrefixFacts DEF IInv, JInv
    <2>2. Committed(jsynced, r.tx, r.cell, cost[r.cell])
      BY DEF RowsInv, RowsOK, RowTrue
    <2>3. \A j \in DOMAIN checkpoint[d] : checkpoint[d][j].tx = r.tx => i = j
      BY DEF RowsInv, RowsOK
    <2> HIDE DEF r
    <2>4. State(jsynced, r.tx) = "committed" /\ jsynced[r.tx].run = r.cell
          /\ Charge(jsynced, r.tx) = cost[r.cell]
      BY <2>1, <2>2, CommittedCharge
    <2> QED  BY <2>3, <2>4 DEF r
  <1>2. Spec => []RowsInv
    BY InitRows, StepRows, Invariance, PTL DEF Spec
  <1> QED  BY <1>1, <1>2, Invariance, PTL

-----------------------------------------------------------------------------
(* What a runner may build on (StopsEverything).  A load has seen that every *)
(* transaction of the journal is accounted for in its directory, and its     *)
(* runner keeps that for as long as it holds the journal.  A runner of a     *)
(* prefix looks at nothing when it starts afresh, but its first cell is the  *)
(* first of the schedule, and in a journal of such a runner nothing precedes *)
(* a commit of that cell.                                                    *)

Prefix == {"pilot", "block", "agent"}

\* Transaction t is over, or never began, for whoever works on directory d.
Closed(d, t) ==
    \/ State(jdisk, t) \in {"reserved", "aborted_pre_request"}
    \/ \E i \in DOMAIN checkpoint[d] : checkpoint[d][i].tx = t /\ checkpoint[d][i].scored

AllClosed(d) == \A t \in Transactions(jdisk) : Closed(d, t)

FirstPaid(d, n) == \E j \in 1 .. n : d[j].action = "committed" /\ d[j].run = 1

\* Nothing is reserved before the first cell is committed, except that cell.
FirstCellFirst(d) == \A i \in DOMAIN d :
    d[i].action = "reserved" /\ d[i].run # 1 => FirstPaid(d, i - 1)

OrderOK == kind \in Prefix =>
    /\ FirstCellFirst(jdisk)
    /\ jstep \in {"write", "replace"} /\ jevent.action = "reserved" /\ jevent.run # 1 =>
          FirstPaid(jdisk, Len(jdisk))
    /\ \A d \in Dir : \A i \in DOMAIN checkpoint[d] : checkpoint[d][i].scored

\* Between two cells everything is accounted for, or nothing was done yet.
BetweenOK(p) == job[p].pc \in {"next", "prepared", "syncing"} =>
    /\ jstep = "idle"
    /\ (kind \in Prefix /\ Done(job[p].dir) = {}) \/ AllClosed(job[p].dir)

\* While a runner works on a cell, everything but its own transaction is.
WithinOK(p) == job[p].pc \in OnCell /\ jstep # "raised" =>
    \A t \in Transactions(jdisk) :
        (job[p].pc # "reserving" /\ t = job[p].tx) \/ Closed(job[p].dir, t)

LiveOK == live \subseteq Run /\ \A c \in live : sessions[c] >= 1

AccountsInv == LiveOK /\ OrderOK /\ \A p \in Proc : BetweenOK(p) /\ WithinOK(p)

-----------------------------------------------------------------------------
(* What a document says of the transactions                                  *)

\* An event says nothing of any transaction but its own.
LEMMA AppendState ==
  ASSUME NEW d \in Seq(AnyEvent), NEW e \in AnyEvent, NEW t, t # e.tx
  PROVE  State(Append(d, e), t) = State(d, t)
  <1> DEFINE s == Append(d, e)
  <1>1. /\ DOMAIN s = 1 .. Len(d) + 1 /\ DOMAIN d = 1 .. Len(d) /\ Len(d) \in Nat
        /\ s[Len(d) + 1] = e /\ \A i \in DOMAIN d : s[i] = d[i]
    OBVIOUS
  <1> HIDE DEF s
  <1>2. \A i \in DOMAIN s : i \in DOMAIN d \/ i = Len(d) + 1
    BY <1>1
  <1>3. \A i \in DOMAIN d : i \in DOMAIN s
    BY <1>1
  <1>4. \A a : Has(s, t, a) <=> Has(d, t, a)
    BY <1>1, <1>2, <1>3 DEF Has
  <1>5. State(s, t) = State(d, t)
    BY <1>4 DEF State
  <1> QED  BY <1>5 DEF s

LEMMA AppendTransactions ==
  ASSUME NEW d \in Seq(AnyEvent), NEW e \in AnyEvent
  PROVE  /\ \A t \in Transactions(Append(d, e)) :
               t \in Transactions(d) \/ (t = Len(d) + 1 /\ e.action = "reserved")
         /\ Transactions(d) \subseteq Transactions(Append(d, e))
  <1>1. /\ DOMAIN Append(d, e) = 1 .. Len(d) + 1 /\ DOMAIN d = 1 .. Len(d) /\ Len(d) \in Nat
        /\ Append(d, e)[Len(d) + 1] = e /\ \A i \in DOMAIN d : Append(d, e)[i] = d[i]
    OBVIOUS
  <1> QED  BY <1>1 DEF Transactions

\* A reservation that was just appended is nothing but one.
LEMMA ReservedState ==
  ASSUME NEW d, Sound(d), NEW e \in AnyEvent, e.action = "reserved", e.tx = Len(d) + 1
  PROVE  State(Append(d, e), Len(d) + 1) = "reserved"
  <1> DEFINE s == Append(d, e)
             t == Len(d) + 1
  <1>1. d \in Seq(AnyEvent)
    BY DEF Sound
  <1>2. /\ DOMAIN s = 1 .. Len(d) + 1 /\ DOMAIN d = 1 .. Len(d) /\ Len(d) \in Nat
        /\ s[Len(d) + 1] = e /\ \A i \in DOMAIN d : s[i] = d[i]
    BY <1>1
  <1>3. \A i \in DOMAIN d : d[i].tx # t
    BY <1>2 DEF Sound, TxEarlier
  <1> HIDE DEF s
  <1>4. \A a : Has(s, t, a) => a = "reserved"
    BY <1>2, <1>3 DEF Has
  <1>5. Has(s, t, "reserved")
    <2>1. t \in DOMAIN s /\ s[t].tx = t /\ s[t].action = "reserved"
      BY <1>2
    <2> QED  BY <2>1 DEF Has
  <1> QED  BY <1>4, <1>5 DEF State, s

\* A transaction of a sound document has one of the states of replay.
LEMMA KnownState ==
  ASSUME NEW d, Sound(d), NEW t \in Transactions(d)
  PROVE  \/ State(d, t) \in {"reserved", "aborted_pre_request"}
         \/ State(d, t) \in {"request_authorized", "committed"} /\ Paid(d, d[t].run)
  <1>1. Has(d, t, "reserved")
    BY DEF Transactions, Has, Sound, TxEarlier
  <1>2. ASSUME Has(d, t, "request_authorized")
        PROVE  Paid(d, d[t].run)
    BY <1>2 DEF Has, Paid, Sound, TxEarlier
  <1>3. Has(d, t, "committed") => Has(d, t, "request_authorized")
    BY DEF Has, Sound, SettledOnce
  <1> QED  BY <1>1, <1>2, <1>3 DEF State

\* Where the first cell was not paid for, nothing was.
LEMMA FreshJournal ==
  ASSUME NEW d, Sound(d), FirstCellFirst(d), ~Paid(d, 1), NEW t \in Transactions(d)
  PROVE  State(d, t) \in {"reserved", "aborted_pre_request"}
  <1>1. ASSUME NEW j \in DOMAIN d, d[j].action = "committed", d[j].run = 1
        PROVE  FALSE
    <2>1. d[j].tx \in DOMAIN d /\ d[d[j].tx].run = 1
      BY <1>1 DEF Sound, TxEarlier
    <2>2. PICK k \in 1 .. j - 1 : d[k].action = "request_authorized" /\ d[k].tx = d[j].tx
      BY <1>1 DEF Sound, SettledOnce
    <2>3. k \in DOMAIN d
      BY <2>2 DEF Sound
    <2>4. d[k].run = 1
      BY <2>1, <2>2, <2>3 DEF Sound, TxEarlier
    <2> QED  BY <2>2, <2>3, <2>4 DEF Paid
  <1>2. t \in DOMAIN d /\ d[t].action = "reserved"
    BY DEF Transactions
  <1>3. \A j \in 1 .. t - 1 : j \in DOMAIN d
    BY <1>2 DEF Sound
  <1>4. d[t].run = 1
    BY <1>1, <1>2, <1>3 DEF FirstCellFirst, FirstPaid
  <1> QED  BY <1>4, KnownState

LEMMA AppendFirst ==
  ASSUME NEW d \in Seq(AnyEvent), FirstCellFirst(d), NEW e \in AnyEvent,
         e.action = "reserved" /\ e.run # 1 => FirstPaid(d, Len(d))
  PROVE  FirstCellFirst(Append(d, e))
  <1>1. /\ DOMAIN Append(d, e) = 1 .. Len(d) + 1 /\ DOMAIN d = 1 .. Len(d) /\ Len(d) \in Nat
        /\ Append(d, e)[Len(d) + 1] = e /\ \A i \in DOMAIN d : Append(d, e)[i] = d[i]
    OBVIOUS
  <1>2. ASSUME NEW n \in 0 .. Len(d), FirstPaid(d, n)
        PROVE  FirstPaid(Append(d, e), n)
    BY <1>1, <1>2 DEF FirstPaid
  <1> SUFFICES ASSUME NEW i \in DOMAIN Append(d, e), Append(d, e)[i].action = "reserved",
                      Append(d, e)[i].run # 1
               PROVE  FirstPaid(Append(d, e), i - 1)
    BY DEF FirstCellFirst
  <1>3. CASE i \in DOMAIN d
    <2>1. FirstPaid(d, i - 1) /\ i - 1 \in 0 .. Len(d)
      BY <1>1, <1>3 DEF FirstCellFirst
    <2> QED  BY <1>2, <2>1
  <1>4. CASE i = Len(d) + 1
    <2>1. Append(d, e)[i] = e /\ i - 1 = Len(d) /\ Len(d) \in 0 .. Len(d)
      BY <1>1, <1>4
    <2> QED  BY <1>2, <2>1
  <1> QED  BY <1>1, <1>3, <1>4

LEMMA PrefixFirst ==
  ASSUME NEW d \in Seq(AnyEvent), FirstCellFirst(d), NEW n \in 0 .. Len(d)
  PROVE  FirstCellFirst(SubSeq(d, 1, n))
  <1>1. /\ DOMAIN SubSeq(d, 1, n) = 1 .. n /\ DOMAIN d = 1 .. Len(d) /\ Len(d) \in Nat
        /\ \A i \in 1 .. n : SubSeq(d, 1, n)[i] = d[i]
    OBVIOUS
  <1> QED  BY <1>1 DEF FirstCellFirst, FirstPaid

-----------------------------------------------------------------------------
(* A run directory that is new has no checkpoint                             *)

\* A runner that made its run directory and has not written to it.
Fresh(p) == Paired /\ job[p].pc \in {"opening", "load"} /\ ~job[p].resume

\* The directory a runner works in exists.
OpenedOK(p) ==
    \/ Paired /\ job[p].pc # "idle"
    \/ kind = "agent" /\ job[p].pc \notin {"idle", "load"}
    => job[p].dir \in opened

FreshOK(p) == Fresh(p) =>
    /\ checkpoint[job[p].dir] = << >>
    /\ \A q \in Proc : q # p /\ Fresh(q) => job[q].dir # job[p].dir

\* Past its load a runner of pairs has a checkpoint.
BegunOK(p) == Paired /\ job[p].pc \in Holding \ {"load", "aborting"} =>
    checkpoint[job[p].dir] # << >>

FreshInv ==
    /\ kind \in Prefix => \A d \in Dir : d \notin opened => checkpoint[d] = << >>
    /\ \A p \in Proc : OpenedOK(p) /\ FreshOK(p) /\ BegunOK(p)

\* No file is touched; p is idle, or goes on in the directory it loaded.
LEMMA FreshQuiet ==
  ASSUME FreshInv, NEW p \in Proc, \A q \in Proc : q # p => job'[q] = job[q],
         UNCHANGED <<kind, checkpoint, opened>>,
         \/ job'[p].pc = "idle"
         \/ /\ job'[p].dir = job[p].dir
            /\ job[p].pc \in Holding \ {"load", "aborting"} /\ job'[p].pc \in Holding \ {"load"}
         \/ /\ job[p].pc = "opening" /\ job'[p].pc = "load"
            /\ job'[p].dir = job[p].dir /\ job'[p].resume = job[p].resume
         \/ ~Paired /\ job'[p].pc = "load"
  PROVE  FreshInv'
  <1>1. \A q \in Proc : Fresh(q)' => Fresh(q) /\ job'[q].dir = job[q].dir
    BY DEF Fresh, Paired, Holding
  <1>2. \A q \in Proc : FreshOK(q)'
    BY <1>1 DEF FreshInv, FreshOK
  <1>3. \A q \in Proc : OpenedOK(q)' /\ BegunOK(q)'
    BY DEF FreshInv, OpenedOK, BegunOK, Paired, Holding
  <1> QED  BY <1>2, <1>3 DEF FreshInv, Prefix

\* These are none of the runners of a prefix.
LEMMA FreshKeyed ==
  ASSUME kind \notin Prefix, kind' = kind
  PROVE  FreshInv'
  BY DEF FreshInv, Prefix, OpenedOK, FreshOK, BegunOK, Fresh, Paired

LEMMA FreshStart ==
  ASSUME IInv, RowsInv, FreshInv, NEW p \in Proc, NEW d \in Dir,
         PilotStart(p, d) \/ BlockStart(p, d)
  PROVE  FreshInv'
  <1>1. /\ Paired /\ job[p].pc = "idle" /\ UNCHANGED <<kind, checkpoint>>
        /\ \E resume \in BOOLEAN :
              /\ Starting(p, d, "opening", resume) /\ d \in opened' /\ opened \subseteq opened'
              /\ opened' \subseteq opened \cup {d} /\ (~resume => d \notin opened)
    BY DEF PilotStart, BlockStart, Paired, At
  <1>2. PICK resume \in BOOLEAN :
           /\ Starting(p, d, "opening", resume) /\ d \in opened' /\ opened \subseteq opened'
           /\ opened' \subseteq opened \cup {d} /\ (~resume => d \notin opened)
    BY <1>1
  <1>3. /\ job'[p].pc = "opening" /\ job'[p].dir = d /\ job'[p].resume = resume
        /\ \A q \in Proc : q # p => job'[q] = job[q]
    BY <1>2 DEF Starting, Idle, IInv
  <1>4. kind \in Prefix
    BY <1>1 DEF Paired, Prefix
  <1>5. ASSUME NEW e \in Dir, e \notin opened'
        PROVE  checkpoint'[e] = << >>
    BY <1>1, <1>2, <1>4, <1>5 DEF FreshInv
  <1>6. \A q \in Proc : OpenedOK(q)' /\ BegunOK(q)'
    BY <1>1, <1>2, <1>3 DEF FreshInv, OpenedOK, BegunOK, Paired, Holding
  <1>7. \A q \in Proc : q # p => (Fresh(q)' <=> Fresh(q))
    BY <1>1, <1>3 DEF Fresh, Paired
  <1>8. Fresh(p)' => checkpoint[d] = << >> /\ d \notin opened
    BY <1>1, <1>2, <1>3, <1>4 DEF Fresh, FreshInv
  <1>9. \A q \in Proc : q # p /\ Fresh(q) => job[q].dir \in opened
    BY DEF Fresh, FreshInv, OpenedOK
  <1>10. \A q \in Proc : FreshOK(q)'
    BY <1>1, <1>3, <1>7, <1>8, <1>9 DEF FreshInv, FreshOK
  <1> QED  BY <1>5, <1>6, <1>10 DEF FreshInv

\* A load that goes on.
LEMMA FreshLoad ==
  ASSUME IInv, RowsInv, FreshInv, NEW p \in Proc,
         PilotLoad(p) \/ BlockLoad(p) \/ AgentLoad(p) \/ AgentFresh(p)
  PROVE  FreshInv'
  <1>1. At(p, "load") /\ UNCHANGED <<kind, checkpoint>> /\ kind \in Prefix
    BY DEF PilotLoad, BlockLoad, AgentLoad, Resumed, AgentFresh, files, Prefix
  <1>2. job[p].dir \in Dir
    BY <1>1, Holder DEF At, Holding, Course
  <1>3. CASE Exit(p) /\ opened' = opened
    <2>1. job'[p].pc = "idle" /\ \A q \in Proc : q # p => job'[q] = job[q]
      BY <1>3, IdleTyped, JobSet DEF Exit, JobStep, IInv
    <2> QED  BY <1>1, <1>3, <2>1, FreshQuiet
  <1>4. CASE Goto(p, "next") /\ job[p].dir \in opened'
             /\ opened' \in {opened, opened \cup {job[p].dir}}
             /\ (Paired => checkpoint[job[p].dir] # << >>)
    <2>1. /\ job'[p].pc = "next" /\ job'[p].dir = job[p].dir
          /\ \A q \in Proc : q # p => job'[q] = job[q]
      <3>1. "next" \in Course
        BY DEF Course
      <3> QED  BY <1>4, <3>1, JobGoto DEF JobStep, IInv
    <2>2. \A q \in Proc : Fresh(q)' => Fresh(q) /\ q # p /\ job'[q].dir = job[q].dir
      BY <1>1, <2>1 DEF Fresh, Paired
    <2>3. \A q \in Proc : FreshOK(q)'
      BY <1>1, <2>2 DEF FreshInv, FreshOK
    <2>4. \A q \in Proc : OpenedOK(q)' /\ BegunOK(q)'
      BY <1>1, <1>4, <2>1 DEF FreshInv, OpenedOK, BegunOK, Paired
    <2> QED  BY <1>1, <1>4, <2>3, <2>4 DEF FreshInv
  <1>5. CASE AgentFresh(p)
    BY <1>3, <1>4, <1>5 DEF AgentFresh, Paired
  <1>6. CASE PilotLoad(p) \/ BlockLoad(p) \/ AgentLoad(p)
    <2>1. \/ Exit(p) /\ opened' = opened
          \/ Goto(p, "next") /\ opened' = opened /\ checkpoint[job[p].dir] # << >>
      BY <1>6 DEF PilotLoad, BlockLoad, AgentLoad, Resumed, PilotResumable, AgentResumable, files
    <2>2. checkpoint[job[p].dir] # << >> => job[p].dir \in opened
      BY <1>1, <1>2 DEF FreshInv
    <2> QED  BY <1>3, <1>4, <2>1, <2>2
  <1> QED  BY <1>5, <1>6

\* A row is written to the checkpoint of a prefix.
LEMMA FreshWrite ==
  ASSUME IInv, RowsInv, FreshInv, NEW p \in Proc,
         PilotInitial(p) \/ PilotCheckpoint(p) \/ AgentCheckpoint(p)
  PROVE  FreshInv'
  <1> DEFINE d == job[p].dir
  <1>1. PICK row : Checkpoint(p, row)
    BY DEF PilotInitial, PilotCheckpoint, AgentCheckpoint, CellCheckpoint
  <1>2. /\ kind \in Prefix /\ job[p].pc \in {"load", "committing"}
        /\ (job[p].pc = "load" => Fresh(p)) /\ UNCHANGED <<kind, opened>>
    BY <1>1 DEF PilotInitial, PilotCheckpoint, AgentCheckpoint, CellCheckpoint, Checkpoint,
                Paired, Prefix, Fresh, At
  <1>3. d \in Dir /\ d \in opened
    <2>1. job[p].pc \in Holding
      BY <1>2 DEF Holding, Course
    <2>2. OpenedOK(p) /\ (job[p].pc = "load" => Paired)
      BY <1>2 DEF FreshInv, Fresh
    <2>3. d \in opened
      BY <1>2, <2>2 DEF OpenedOK, Prefix, Paired
    <2> QED  BY <2>1, <2>3, Holder
  <1>4. /\ \A e \in Dir : e # d => checkpoint'[e] = checkpoint[e]
        /\ checkpoint'[d] # << >>
    <2>1. checkpoint \in [Dir -> Seq(AnyRow)] /\ checkpoint[d] \in Seq(AnyRow)
      BY <1>3 DEF RowsInv, RowsOK
    <2>2. checkpoint' = [checkpoint EXCEPT ![d] = Append(@, row)]
      BY <1>1 DEF Checkpoint
    <2>3. \A s : s \in Seq(AnyRow) => Append(s, row) # << >>
      OBVIOUS
    <2> QED  BY <1>3, <2>1, <2>2, <2>3
  <1>5. /\ job'[p].pc = "syncing" /\ job'[p].dir = d
        /\ \A q \in Proc : q # p => job'[q] = job[q]
    <2>1. "syncing" \in Course
      BY DEF Course
    <2> QED  BY <1>1, <2>1, JobGoto DEF Checkpoint, JobStep, IInv
  <1>6. \A q \in Proc : Fresh(q)' => Fresh(q) /\ q # p /\ job'[q].dir = job[q].dir
    BY <1>2, <1>5 DEF Fresh, Paired
  <1>7. \A q \in Proc : Fresh(q) /\ q # p => job[q].dir # d
    <2>1. CASE job[p].pc = "load"
      BY <1>2, <2>1 DEF FreshInv, FreshOK
    <2>2. CASE job[p].pc = "committing"
      BY <2>2 DEF FreshInv, FreshOK, BegunOK, Fresh, Holding, Course
    <2> QED  BY <1>2, <2>1, <2>2
  <1>8. \A q \in Proc : Fresh(q) => job[q].dir \in Dir
    BY DEF Fresh, IInv, JobOK
  <1>9. \A q \in Proc : FreshOK(q)'
    BY <1>4, <1>6, <1>7, <1>8 DEF FreshInv, FreshOK
  <1>10. \A q \in Proc : OpenedOK(q)'
    BY <1>2, <1>3, <1>5 DEF FreshInv, OpenedOK, Paired
  <1>11. ASSUME NEW q \in Proc
         PROVE  BegunOK(q)'
    <2>1. CASE q = p
      BY <1>4, <1>5, <2>1 DEF BegunOK
    <2>2. CASE q # p
      <3>1. job[q].pc # "idle" => job[q].dir \in Dir
        BY DEF IInv, JobOK
      <3> QED  BY <1>2, <1>4, <1>5, <2>2, <3>1 DEF FreshInv, BegunOK, Paired, Holding
    <2> QED  BY <2>1, <2>2
  <1>12. \A e \in Dir : e \notin opened' => checkpoint'[e] = << >>
    BY <1>2, <1>3, <1>4 DEF FreshInv
  <1> QED  BY <1>9, <1>10, <1>11, <1>12 DEF FreshInv

\* Every other step of a runner.
LEMMA FreshOther ==
  ASSUME IInv, FreshInv, NEW p \in Proc, kind \in Prefix,
         \/ Authorize(p) \/ AuthorizeRaised(p) \/ Drift(p) \/ StartSession(p)
         \/ Aborted(p) \/ Raised(p) \/ Finish(p) \/ Crash(p)
         \/ LedgerAppend(p) \/ ChainedCommit(p)
         \/ Sync(p) \/ Prepare(p) \/ Unusable(p)
         \/ PilotPauses(p) \/ PilotUnprepared(p) \/ PilotReserve(p)
         \/ PilotCommit(p) \/ PilotRefuses(p)
         \/ AgentUnprepared(p) \/ AgentReserve(p) \/ AgentCommit(p) \/ AgentRefuses(p)
  PROVE  FreshInv'
  <1>1. UNCHANGED <<kind, checkpoint, opened>>
    BY DEF Authorize, AuthorizeRaised, Drift, StartSession, Aborted, Raised, Finish, Crash,
           LedgerAppend, ChainedCommit, Sync, Prepare, Unusable, PilotPauses, PilotUnprepared,
           PilotReserve, PilotCommit, PilotRefuses, AgentUnprepared, AgentReserve, AgentCommit,
           AgentRefuses, Refuses, Reserve, Abort, Commit, files
  <1>2. CASE Exit(p)
    <2>1. job'[p].pc = "idle" /\ \A q \in Proc : q # p => job'[q] = job[q]
      BY <1>2, IdleTyped, JobSet DEF Exit, JobStep, IInv
    <2> QED  BY <1>1, <2>1, FreshQuiet
  <1>3. ASSUME job[p].pc \in Holding \ {"load", "aborting"},
               NEW j \in JobTyped, job' = [job EXCEPT ![p] = j],
               j.dir = job[p].dir, j.pc \in Holding \ {"load"}
        PROVE  FreshInv'
    <2>1. job'[p] = j /\ \A q \in Proc : q # p => job'[q] = job[q]
      BY <1>3, JobSet DEF JobStep, IInv
    <2> QED  BY <1>1, <1>3, <2>1, FreshQuiet
  <1>4. ASSUME job[p].pc \in Holding \ {"load", "aborting"},
               NEW pc \in Holding \ {"load"}, Goto(p, pc)
        PROVE  FreshInv'
    <2> DEFINE j == [job[p] EXCEPT !.pc = pc]
    <2>1. job[p] \in JobTyped /\ pc \in Course
      BY <1>4 DEF IInv, Holding
    <2>2. j \in JobTyped /\ j.dir = job[p].dir /\ j.pc = pc /\ job' = [job EXCEPT ![p] = j]
      BY <1>4, <2>1 DEF JobTyped, Goto
    <2> HIDE DEF j
    <2> QED  BY <1>3, <1>4, <2>2
  <1>5. ASSUME job[p].pc = "prepared", NEW c \in Run, NEW note \in Note, Reserve(p, c, note)
        PROVE  FreshInv'
    <2> DEFINE j == [job[p] EXCEPT !.pc = "reserving", !.cell = c, !.store = note]
    <2>1. job[p] \in JobTyped /\ "reserving" \in Course
      BY DEF IInv, Course
    <2>2. j \in JobTyped /\ j.dir = job[p].dir /\ j.pc = "reserving"
      BY <1>5, <2>1 DEF JobTyped
    <2>3. job' = [job EXCEPT ![p] = j]
      BY <1>5 DEF Reserve
    <2> HIDE DEF j
    <2> QED  BY <1>3, <1>5, <2>2, <2>3 DEF Holding, Course, Reserve
  <1>6. ASSUME Authorize(p)
        PROVE  FreshInv'
    <2>1. PICK t : job' = [job EXCEPT ![p].pc = "authorizing", ![p].tx = t]
                   /\ t \in Live(jmem, job[p].cell)
      BY <1>6 DEF Authorize
    <2>2. t \in Int
      BY <1>6, <2>1, ReadyKnows DEF Authorize, Live, Transactions
    <2> DEFINE j == [job[p] EXCEPT !.pc = "authorizing", !.tx = t]
    <2>3. job[p] \in JobTyped /\ "authorizing" \in Course
      BY DEF IInv, Course
    <2>4. j \in JobTyped /\ j.dir = job[p].dir /\ j.pc = "authorizing"
      BY <2>2, <2>3 DEF JobTyped
    <2>5. job' = [job EXCEPT ![p] = j]
      BY <2>1
    <2> HIDE DEF j
    <2>6. job[p].pc \in Holding \ {"load", "aborting"} /\ "authorizing" \in Holding \ {"load"}
      BY <1>6 DEF Authorize, At, Holding, Course
    <2> QED  BY <1>3, <2>4, <2>5, <2>6
  <1>7. ASSUME PilotReserve(p) \/ AgentReserve(p)
        PROVE  \/ Exit(p)
               \/ /\ job[p].pc = "prepared"
                  /\ \E c \in Run : \E note \in Note : Reserve(p, c, note)
    <2>1. At(p, "prepared")
      BY <1>7 DEF PilotReserve, AgentReserve
    <2>2. NextCell(job[p].dir) \in Run /\ {} \in Note
      BY <2>1, NextCellLeft DEF IInv, JobOK, PreparedOK, FilesOK
    <2> QED  BY <1>7, <2>1, <2>2 DEF PilotReserve, AgentReserve, Refuses, At
  <1>8. ASSUME \/ AuthorizeRaised(p) \/ Drift(p) \/ StartSession(p)
               \/ LedgerAppend(p) \/ ChainedCommit(p) \/ PilotCommit(p) \/ AgentCommit(p)
               \/ Sync(p) \/ Prepare(p), ~Exit(p)
        PROVE  /\ job[p].pc \in Holding \ {"load", "aborting"}
               /\ \E pc \in Holding \ {"load"} : Goto(p, pc)
    BY <1>8 DEF AuthorizeRaised, Drift, StartSession, LedgerAppend, ChainedCommit, PilotCommit,
           AgentCommit, Sync, Prepare, Abort, Commit, Holding, Course, At
  <1>9. \/ Authorize(p) \/ PilotReserve(p) \/ AgentReserve(p) \/ Exit(p)
        \/ AuthorizeRaised(p) \/ Drift(p) \/ StartSession(p)
        \/ LedgerAppend(p) \/ ChainedCommit(p) \/ PilotCommit(p) \/ AgentCommit(p)
        \/ Sync(p) \/ Prepare(p)
    BY DEF Aborted, Raised, Finish, Crash, Unusable, PilotPauses, PilotUnprepared,
           PilotRefuses, AgentUnprepared, AgentRefuses, Refuses
  <1> QED  BY <1>2, <1>4, <1>5, <1>6, <1>7, <1>8, <1>9

LEMMA FreshOpen ==
  ASSUME IInv, FreshInv, NEW p \in Proc,
         PilotOpen(p) \/ \E d \in Dir : AgentStart(p, d)
  PROVE  FreshInv'
  <1>1. UNCHANGED <<kind, checkpoint, opened>>
    BY DEF PilotOpen, AgentStart, files
  <1>2. CASE PilotOpen(p)
    <2>1. /\ job[p].pc = "opening" /\ job'[p].pc = "load" /\ job'[p].dir = job[p].dir
          /\ job'[p].resume = job[p].resume /\ \A q \in Proc : q # p => job'[q] = job[q]
      BY <1>2 DEF PilotOpen, At, Goto, IInv, JobTyped
    <2> QED  BY <1>1, <2>1, FreshQuiet
  <1>3. ASSUME NEW d \in Dir, AgentStart(p, d)
        PROVE  FreshInv'
    <2>1. \E resume \in BOOLEAN : Starting(p, d, "load", resume)
      BY <1>3 DEF AgentStart
    <2>2. job'[p].pc = "load" /\ \A q \in Proc : q # p => job'[q] = job[q]
      BY <2>1 DEF Starting, Idle, IInv
    <2>3. ~Paired
      BY <1>3 DEF AgentStart, Paired
    <2> QED  BY <1>1, <2>2, <2>3, FreshQuiet
  <1> QED  BY <1>2, <1>3

LEMMA FreshStill ==
  ASSUME FreshInv, UNCHANGED <<kind, job, files>>
  PROVE  FreshInv'
  <1>1. UNCHANGED <<checkpoint, opened>>
    BY DEF files
  <1> QED  BY <1>1 DEF FreshInv, OpenedOK, FreshOK, BegunOK, Fresh, Paired

LEMMA FreshPowerLoss ==
  ASSUME IInv, RowsInv, FreshInv, PowerLoss
  PROVE  FreshInv'
  <1>1. (\A q \in Proc : job'[q].pc = "idle") /\ UNCHANGED <<kind, opened>>
    BY DEF PowerLoss, Idle
  <1>2. ASSUME kind \in Prefix, NEW d \in Dir, d \notin opened
        PROVE  checkpoint'[d] = << >>
    <2>1. PICK n : /\ n \in kept[d] .. Len(checkpoint[d])
                   /\ checkpoint'[d] = SubSeq(checkpoint[d], 1, n)
      BY DEF PowerLoss
    <2>2. checkpoint[d] = << >> /\ kept[d] \in Nat
      BY <1>2 DEF FreshInv, RowsInv, RowsOK
    <2>3. n = 0
      BY <2>1, <2>2
    <2> QED  BY <2>1, <2>2, <2>3
  <1> QED  BY <1>1, <1>2 DEF FreshInv, OpenedOK, FreshOK, BegunOK, Fresh, Holding

LEMMA FreshInit == Init => FreshInv
  <1> SUFFICES ASSUME Init
               PROVE  FreshInv
    OBVIOUS
  <1>1. \A q \in Proc : job[q].pc = "idle"
    BY DEF Init, Idle
  <1> QED  BY <1>1 DEF Init, FreshInv, OpenedOK, FreshOK, BegunOK, Fresh, Holding

LEMMA FreshStep == IInv /\ RowsInv /\ FreshInv /\ [Next]_vars => FreshInv'
  <1> SUFFICES ASSUME IInv, RowsInv, FreshInv, [Next]_vars
               PROVE  FreshInv'
    OBVIOUS
  <1>1. ASSUME NEW p \in Proc, RunnerStep(p)
        PROVE  FreshInv'
    <2>1. CASE kind \notin Prefix
      <3>1. kind' = kind
        BY <1>1, Zenon DEF RunnerStep, KeyedStep, KeyedStart, ChainedLoad, ArmsLoad, PluginLoad,
             Loaded, ChainedReserve, ArmsReserve, PluginReserve, NextReserve, Reserve, Export,
             LedgerAppend, ChainedCommit, ArmsCommit, PluginCommit, Commit, ChainedFails,
             ArmsInvalid, PluginRefuses, KeyedWrites, WriteRollouts, PrefixStep, Sync, Prepare,
             Unusable, Refuses, PilotStart, BlockStart, AgentStart, PilotOpen, PilotInitial,
             PilotLoad, BlockLoad, Resumed, PilotPauses, PilotUnprepared, PilotReserve,
             PilotCommit, PilotRefuses, PilotCheckpoint, CellCheckpoint, Checkpoint, AgentFresh,
             AgentLoad, AgentUnprepared, AgentReserve, AgentCommit, AgentRefuses,
             AgentCheckpoint, Authorize, AuthorizeRaised, Abort, Drift, Aborted, Raised,
             StartSession, SessionKilled, Finish, Crash
      <3> QED  BY <2>1, <3>1, FreshKeyed
    <2>2. CASE kind \in Prefix /\ KeyedStep(p)
      <3>1. LedgerAppend(p) \/ ChainedCommit(p)
        BY <2>2, Zenon DEF KeyedStep, KeyedStart, ChainedLoad, ArmsLoad, PluginLoad, ChainedReserve,
             ArmsReserve, PluginReserve, Export, ArmsCommit, PluginCommit, ChainedFails,
             ArmsInvalid, PluginRefuses, KeyedWrites, Prefix
      <3> QED  BY <2>2, <3>1, FreshOther
    <2>3. CASE kind \in Prefix /\ PrefixStep(p)
      BY <2>3, FreshStart, FreshLoad, FreshWrite, FreshOther, FreshOpen DEF PrefixStep
    <2>4. CASE SessionKilled(p)
      BY <2>4, FreshStill DEF SessionKilled
    <2> QED  BY <1>1, <2>1, <2>2, <2>3, <2>4, FreshOther DEF RunnerStep
  <1>2. ASSUME NEW c \in Run, SessionEnds(c)
        PROVE  FreshInv'
    BY <1>2, FreshStill DEF SessionEnds
  <1>3. CASE JournalWork \/ InspectJournal \/ UNCHANGED vars
    BY <1>3, FreshStill DEF JournalWork, InspectJournal, vars
  <1> QED  BY <1>1, <1>2, <1>3, FreshPowerLoss DEF Next

-----------------------------------------------------------------------------
(* What a load sees                                                          *)

\* A cell that is done was paid for, and in a prefix it is committed.
LEMMA DonePaid ==
  ASSUME IInv, RowsInv, OrderOK, NEW d \in Dir, NEW c \in Done(d)
  PROVE  /\ c \in Run /\ sessions[c] >= 1
         /\ kind \in Prefix =>
               \E j \in DOMAIN jdisk : jdisk[j].action = "committed" /\ jdisk[j].run = c
  <1>1. PICK i \in DOMAIN checkpoint[d] : checkpoint[d][i].cell = c /\ c # 0
    BY DEF Done, Rows
  <1> DEFINE r == checkpoint[d][i]
  <1>2. RowTrue(r) /\ r \in AnyRow
    BY DEF RowsInv, RowsOK
  <1>3. c \in Run /\ sessions[c] >= 1
    BY <1>1, <1>2 DEF RowTrue, AnyRow
  <1>4. ASSUME kind \in Prefix
        PROVE  \E j \in DOMAIN jdisk : jdisk[j].action = "committed" /\ jdisk[j].run = c
    <2>1. Committed(jsynced, r.tx, c, cost[c])
      BY <1>1, <1>2, <1>4 DEF OrderOK, RowTrue
    <2>2. Sound(jsynced) /\ \A k \in DOMAIN jsynced : k \in DOMAIN jdisk /\ jsynced[k] = jdisk[k]
      BY PrefixFacts DEF IInv, JInv
    <2>3. PICK j \in DOMAIN jsynced : jsynced[j].action = "committed" /\ jsynced[j].tx = r.tx
      BY <2>1 DEF Committed
    <2>4. jsynced[j].run = c
      BY <2>1, <2>2, <2>3 DEF Committed, Sound, TxEarlier
    <2> QED  BY <2>2, <2>3, <2>4
  <1> QED  BY <1>3, <1>4

\* The checks of a resumption count: as many committed transactions as done cells,
\* and each done cell has one of its own.
LEMMA CountedRows ==
  ASSUME IInv, RowsInv, OrderOK, kind \in Prefix, NEW d \in Dir, NEW C,
         C = {t \in Transactions(jdisk) : State(jdisk, t) = "committed"},
         Cardinality(C) = Cardinality(Done(d)), NEW t \in C
  PROVE  Closed(d, t)
  <1> DEFINE R == {u \in C : \E i \in DOMAIN checkpoint[d] :
                                checkpoint[d][i].tx = u /\ checkpoint[d][i].cell # 0}
             f == [u \in R |-> jdisk[u].run]
  <1>1. Sound(jdisk) /\ Sound(jsynced)
        /\ \A k \in DOMAIN jsynced : k \in DOMAIN jdisk /\ jsynced[k] = jdisk[k]
    BY PrefixFacts DEF IInv, JInv
  <1>2. IsFiniteSet(C)
    <2>1. DOMAIN jdisk = 1 .. Len(jdisk) /\ Len(jdisk) \in Nat
      BY <1>1 DEF Sound
    <2>2. C \subseteq 1 .. Len(jdisk)
      BY <2>1 DEF Transactions
    <2>3. IsFiniteSet(1 .. Len(jdisk))
      BY <2>1, FS_Interval
    <2> QED  BY <2>2, <2>3, FS_Subset
  <1>3. IsFiniteSet(R) /\ (Cardinality(C) = Cardinality(R) => C = R)
        /\ Cardinality(R) <= Cardinality(C)
    BY <1>2, FS_Subset
  <1>4. ASSUME NEW i \in DOMAIN checkpoint[d], checkpoint[d][i].cell # 0
        PROVE  /\ checkpoint[d][i].tx \in R
               /\ jdisk[checkpoint[d][i].tx].run = checkpoint[d][i].cell
    <2> DEFINE r == checkpoint[d][i]
    <2>1. RowTrue(r) /\ r.scored
      BY DEF RowsInv, RowsOK, OrderOK
    <2>2. Committed(jsynced, r.tx, r.cell, cost[r.cell])
      BY <1>4, <2>1 DEF RowTrue
    <2> HIDE DEF r
    <2>3. Committed(jdisk, r.tx, r.cell, cost[r.cell])
      BY <1>1, <2>2 DEF Committed
    <2>4. State(jdisk, r.tx) = "committed" /\ jdisk[r.tx].run = r.cell
      BY <1>1, <2>3, CommittedCharge
    <2>5. r.tx \in Transactions(jdisk)
      BY <1>1, <2>4, StateFacts
    <2> QED  BY <1>4, <2>4, <2>5 DEF r
  <1>5. f \in Surjection(R, Done(d))
    <2>1. \A u \in R : f[u] \in Done(d)
      BY <1>4 DEF Done, Rows
    <2>2. \A c \in Done(d) : \E u \in R : f[u] = c
      <3> SUFFICES ASSUME NEW c \in Done(d)
                   PROVE  \E u \in R : f[u] = c
        OBVIOUS
      <3>1. PICK i \in DOMAIN checkpoint[d] : checkpoint[d][i].cell = c /\ c # 0
        BY DEF Done, Rows
      <3> QED  BY <1>4, <3>1
    <2> QED  BY <2>1, <2>2 DEF Surjection
  <1>6. Cardinality(Done(d)) <= Cardinality(R) /\ Cardinality(R) \in Nat /\ Cardinality(C) \in Nat
    BY <1>2, <1>3, <1>5, FS_Surjection, FS_CardinalityType
  <1>7. t \in R
    BY <1>3, <1>6
  <1> QED  BY <1>7 DEF Closed, OrderOK

\* Whatever the load, what it accepts is accounted for.
LEMMA LoadCloses ==
  ASSUME IInv, RowsInv, OrderOK, FreshInv, NEW p \in Proc, jlock = p, Goto(p, "next"),
         \/ ChainedLoad(p) \/ ArmsLoad(p) \/ PluginLoad(p)
         \/ PilotLoad(p) \/ BlockLoad(p) \/ AgentLoad(p) \/ AgentFresh(p)
  PROVE  (kind \in Prefix /\ Done(job[p].dir) = {}) \/ AllClosed(job[p].dir)
  <1> DEFINE d == job[p].dir
  <1>1. At(p, "load") /\ JReady(p)
    BY DEF ChainedLoad, ArmsLoad, PluginLoad, Loaded, PilotLoad, BlockLoad, AgentLoad, Resumed,
           AgentFresh
  <1>2. d \in Dir /\ jmem = jdisk /\ Sound(jdisk) /\ jlock # Nobody
    BY <1>1, Holder, ReadyKnows DEF At, Holding, Course
  <1>3. ~Exit(p)
    <2>1. job'[p].pc = "next"
      BY DEF Goto, IInv, JobTyped
    <2>2. Exit(p) => job'[p].pc = "idle"
      BY IdleTyped, JobSet DEF Exit, IInv
    <2> QED  BY <2>1, <2>2
  <1>4. ASSUME ChainedLoad(p) \/ ArmsLoad(p) \/ PluginLoad(p)
        PROVE  AllClosed(d)
    <2>1. RowsHold(d) /\ NoOrphans(d)
      BY <1>3, <1>4 DEF ChainedLoad, ArmsLoad, PluginLoad, Loaded
    <2> QED  BY <1>2, <2>1 DEF RowsHold, NoOrphans, Rows, AllClosed, Closed
  <1>5. ASSUME PilotLoad(p) \/ BlockLoad(p)
        PROVE  AllClosed(d)
    <2>1. PilotResumable(d) /\ kind \in Prefix
      BY <1>3, <1>5 DEF PilotLoad, BlockLoad, Resumed, Prefix
    <2> DEFINE C == {t \in Transactions(jdisk) : State(jdisk, t) = "committed"}
    <2>2. Cardinality(C) = Cardinality(Done(d))
      BY <1>2, <2>1 DEF PilotResumable
    <2>3. ASSUME NEW t \in Transactions(jdisk)
          PROVE  t \in C \/ State(jdisk, t) = "aborted_pre_request"
      BY <1>2, <2>1, KnownState DEF PilotResumable
    <2> QED  BY <1>2, <2>1, <2>2, <2>3, CountedRows DEF AllClosed, Closed
  <1>6. ASSUME AgentLoad(p)
        PROVE  AllClosed(d)
    <2>1. AgentResumable(d) /\ kind \in Prefix
      BY <1>3, <1>6 DEF AgentLoad, Resumed, Prefix
    <2> DEFINE C == {t \in Transactions(jdisk) : State(jdisk, t) = "committed"}
    <2>2. C = Transactions(jdisk) /\ Cardinality(C) = Cardinality(Done(d))
      BY <1>2, <2>1 DEF AgentResumable
    <2> QED  BY <1>2, <2>1, <2>2, CountedRows DEF AllClosed
  <1>7. ASSUME AgentFresh(p)
        PROVE  kind \in Prefix /\ Done(d) = {}
    <2>1. kind \in Prefix /\ d \notin opened
      BY <1>3, <1>7 DEF AgentFresh, Prefix
    <2>2. checkpoint[d] = << >>
      BY <1>2, <2>1 DEF FreshInv
    <2> QED  BY <2>1, <2>2 DEF Done, Rows
  <1> QED  BY <1>4, <1>5, <1>6, <1>7

-----------------------------------------------------------------------------
(* One runner moves, the others stay                                         *)

Claiming == {"next", "prepared", "syncing"} \cup OnCell

LEMMA NoClaim ==
  ASSUME NEW q \in Proc, job'[q].pc \notin Claiming
  PROVE  BetweenOK(q)' /\ WithinOK(q)'
  BY DEF Claiming, BetweenOK, WithinOK

LEMMA SameClaim ==
  ASSUME NEW q \in Proc, BetweenOK(q), WithinOK(q), job'[q] = job[q],
         UNCHANGED <<jdisk, jstep, checkpoint, kind>>
  PROVE  BetweenOK(q)' /\ WithinOK(q)'
  BY DEF BetweenOK, WithinOK, AllClosed, Closed, Done, Rows

LEMMA AssembleAcc ==
  ASSUME IInv, AccountsInv, NEW p \in Proc, \A q \in Proc : q # p => job'[q] = job[q],
         \/ jlock \in {p, Nobody}
         \/ UNCHANGED <<jdisk, jstep, checkpoint, kind>>,
         LiveOK', OrderOK', BetweenOK(p)', WithinOK(p)'
  PROVE  AccountsInv'
  <1>1. ASSUME NEW q \in Proc, q # p
        PROVE  BetweenOK(q)' /\ WithinOK(q)'
    <2>1. CASE jlock \in {p, Nobody}
      <3>1. job[q].pc \notin Holding
        BY <1>1, <2>1 DEF IInv, JobOK
      <3>2. job'[q].pc \notin Claiming
        BY <1>1, <3>1 DEF Claiming, OnCell, Holding, Course
      <3> QED  BY <3>2, NoClaim
    <2>2. CASE UNCHANGED <<jdisk, jstep, checkpoint, kind>>
      BY <1>1, <2>2, SameClaim DEF AccountsInv
    <2> QED  BY <2>1, <2>2
  <1> QED  BY <1>1 DEF AccountsInv

\* No append of a reservation begins.
NoReserve == jstep' \in {"write", "replace"} /\ jevent'.action = "reserved" =>
    jstep \in {"write", "replace"} /\ jevent' = jevent

LEMMA OrderKept ==
  ASSUME OrderOK, UNCHANGED <<kind, jdisk, checkpoint>>, NoReserve
  PROVE  OrderOK'
  BY DEF OrderOK, NoReserve

\* p goes where it claims nothing.
LEMMA QuietAcc ==
  ASSUME IInv, AccountsInv, NEW p \in Proc, \A q \in Proc : q # p => job'[q] = job[q],
         job'[p].pc \notin Claiming, UNCHANGED <<kind, jdisk, checkpoint, sessions, live>>,
         jlock \in {p, Nobody} \/ jstep' = jstep, NoReserve
  PROVE  AccountsInv'
  <1>1. LiveOK' /\ OrderOK'
    BY OrderKept DEF AccountsInv, LiveOK
  <1>2. BetweenOK(p)' /\ WithinOK(p)'
    BY NoClaim
  <1> QED  BY <1>1, <1>2, AssembleAcc

\* p goes on, with its claim.
LEMMA MoveAcc ==
  ASSUME IInv, AccountsInv, NEW p \in Proc, NEW pc \in Course, Goto(p, pc),
         UNCHANGED <<kind, jdisk, jstep, jevent, checkpoint, sessions, live>>,
         BetweenOK(p)', WithinOK(p)'
  PROVE  AccountsInv'
  <1>1. \A q \in Proc : q # p => job'[q] = job[q]
    BY JobGoto DEF JobStep, IInv
  <1>2. LiveOK' /\ OrderOK'
    BY OrderKept DEF AccountsInv, LiveOK, NoReserve
  <1> QED  BY <1>1, <1>2, AssembleAcc

LEMMA ExitAcc ==
  ASSUME IInv, AccountsInv, NEW p \in Proc, Exit(p), UNCHANGED <<kind, checkpoint, sessions, live>>
  PROVE  AccountsInv'
  <1>1. job'[p].pc = "idle" /\ \A q \in Proc : q # p => job'[q] = job[q]
    BY IdleTyped, JobSet DEF Exit, JobStep, IInv
  <1>2. UNCHANGED journalVars \/ (jlock = p /\ JClose(p))
    BY DEF Exit
  <1>3. jdisk' = jdisk /\ (jlock \in {p, Nobody} \/ jstep' = jstep) /\ NoReserve
    BY <1>2 DEF JClose, journalVars, NoReserve
  <1> QED  BY <1>1, <1>3, QuietAcc DEF Claiming, OnCell

-----------------------------------------------------------------------------
(* Starts, loads and the end                                                 *)

LEMMA StartAcc ==
  ASSUME IInv, AccountsInv, NEW p \in Proc,
         PilotOpen(p) \/ \E d \in Dir : \/ PilotStart(p, d) \/ BlockStart(p, d)
                                        \/ KeyedStart(p, d) \/ AgentStart(p, d)
  PROVE  AccountsInv'
  <1>1. UNCHANGED <<kind, checkpoint, sessions, live>>
    BY Zenon DEF PilotOpen, PilotStart, BlockStart, KeyedStart, AgentStart, money, files
  <1>2. /\ Moves(p) /\ job'[p].pc \in {"opening", "load"}
        /\ JOpen(p) \/ UNCHANGED journalVars
    BY StartMoves
  <1>3. NoReserve
    BY <1>2 DEF JOpen, journalVars, NoReserve, Creation
  <1> QED  BY <1>1, <1>2, <1>3, QuietAcc DEF Moves, Claiming, OnCell

LEMMA LoadAcc ==
  ASSUME IInv, RowsInv, FreshInv, AccountsInv, NEW p \in Proc,
         \/ ChainedLoad(p) \/ ArmsLoad(p) \/ PluginLoad(p)
         \/ PilotLoad(p) \/ BlockLoad(p) \/ AgentLoad(p) \/ AgentFresh(p)
  PROVE  AccountsInv'
  <1>1. JReady(p) /\ UNCHANGED <<kind, checkpoint, sessions, live>>
        /\ (Exit(p) \/ (Goto(p, "next") /\ UNCHANGED journalVars))
    BY DEF ChainedLoad, ArmsLoad, PluginLoad, Loaded, PilotLoad, BlockLoad, AgentLoad, Resumed,
           AgentFresh, money, files
  <1>2. CASE Goto(p, "next") /\ UNCHANGED journalVars
    <2>1. "next" \in Course
      BY DEF Course
    <2>2. job'[p].pc = "next" /\ job'[p].dir = job[p].dir
      BY <1>2, <2>1, JobGoto DEF IInv
    <2>3. (kind \in Prefix /\ Done(job[p].dir) = {}) \/ AllClosed(job[p].dir)
      BY <1>1, <1>2, LoadCloses DEF AccountsInv, JReady
    <2>4. BetweenOK(p)'
      <3>1. jstep' = "idle" /\ UNCHANGED <<kind, checkpoint, jdisk>>
        BY <1>1, <1>2 DEF journalVars, JReady
      <3>2. (kind' \in Prefix /\ Done(job[p].dir)' = {}) \/ AllClosed(job[p].dir)'
        BY <2>3, <3>1, <2>2 DEF AllClosed, Closed, Done, Rows
      <3> QED  BY ONLY <2>2, <3>1, <3>2 DEF BetweenOK, AllClosed, Closed, Done, Rows
    <2>5. WithinOK(p)'
      BY <2>2 DEF WithinOK, OnCell
    <2> QED  BY <1>1, <1>2, <2>1, <2>4, <2>5, MoveAcc DEF journalVars
  <1> QED  BY <1>1, <1>2, ExitAcc

LEMMA LeaveAcc ==
  ASSUME IInv, AccountsInv, NEW p \in Proc,
         \/ Aborted(p) \/ Raised(p) \/ Finish(p) \/ Crash(p)
         \/ ChainedFails(p) \/ PluginRefuses(p)
         \/ Unusable(p) \/ PilotPauses(p) \/ PilotUnprepared(p) \/ PilotRefuses(p)
         \/ AgentUnprepared(p) \/ AgentRefuses(p)
  PROVE  AccountsInv'
  <1>1. Exit(p) /\ UNCHANGED <<kind, checkpoint, sessions, live>>
    BY DEF Aborted, Raised, Finish, Crash, ChainedFails, PluginRefuses, Unusable, PilotPauses,
       PilotUnprepared, PilotRefuses, AgentUnprepared, AgentRefuses, Refuses, money, files
  <1> QED  BY <1>1, ExitAcc

\* Between two cells: the artifact directory is made, the checkpoint synced.
LEMMA BetweenAcc ==
  ASSUME IInv, AccountsInv, NEW p \in Proc, Prepare(p) \/ Sync(p)
  PROVE  AccountsInv'
  <1>1. /\ job[p].pc \in {"next", "syncing"} /\ UNCHANGED <<kind, checkpoint, sessions, live>>
        /\ \/ Exit(p)
           \/ \E pc \in {"next", "prepared"} : Goto(p, pc) /\ UNCHANGED journalVars
    BY DEF Prepare, Sync, At, money
  <1>2. ASSUME NEW pc \in {"next", "prepared"}, Goto(p, pc), UNCHANGED journalVars
        PROVE  AccountsInv'
    <2>1. pc \in Course
      BY DEF Course
    <2>2. job'[p].pc = pc /\ job'[p].dir = job[p].dir
      BY <1>2, <2>1, JobGoto DEF IInv
    <2>3. BetweenOK(p)
      BY DEF AccountsInv
    <2>4. BetweenOK(p)'
      BY <1>1, <1>2, <2>2, <2>3 DEF BetweenOK, AllClosed, Closed, Done, Rows, journalVars
    <2>5. WithinOK(p)'
      BY <2>2 DEF WithinOK, OnCell
    <2> QED  BY <1>1, <1>2, <2>1, <2>4, <2>5, MoveAcc DEF journalVars
  <1> QED  BY <1>1, <1>2, ExitAcc

-----------------------------------------------------------------------------
(* The course of one cell                                                    *)

\* The next cell is reserved: everything before it is accounted for.
LEMMA ReserveAcc ==
  ASSUME IInv, RowsInv, AccountsInv, NEW p \in Proc, job[p].pc \in {"next", "prepared"},
         Remaining(job[p].dir) # {}, NEW note \in Note,
         Reserve(p, NextCell(job[p].dir), note)
  PROVE  AccountsInv'
  <1> DEFINE d == job[p].dir
             c == NextCell(d)
             e == EventOf("reserved", Len(jmem) + 1, c, Unsettled, note)
  <1>1. JReserve(p, c, note) /\ UNCHANGED <<kind, checkpoint, sessions, live>>
        /\ job' = [job EXCEPT ![p].pc = "reserving", ![p].cell = c, ![p].store = note]
    BY DEF Reserve, money, files
  <1>2. job[p].pc \in Holding /\ kind \in Kind
    BY DEF Holding, Course, IInv, FilesOK
  <1>3. jlock = p /\ d \in Dir /\ BetweenOK(p) /\ OrderOK
    BY <1>2, Holder DEF AccountsInv
  <1>4. c \in Run /\ \A x \in 1 .. c - 1 : x \in Done(d)
    BY <1>2, NextCellLeft
  <1> HIDE DEF c, d
  <1>5. JobStep(p) /\ job'[p].pc = "reserving" /\ job'[p].cell = c /\ job'[p].dir = d
    BY <1>1, <1>4, JobReserve, Zenon DEF IInv, d
  <1>6. jmem = jdisk /\ Sound(jdisk)
    <2>1. jstep = "idle" /\ jlock # Nobody
      BY <1>3 DEF BetweenOK
    <2> QED  BY <2>1 DEF IInv, JInv
  <1>7. /\ jdisk' = jdisk
        /\ \/ jstep' \in {"write", "raised"} /\ jevent' = e /\ Live(jmem, c) = {}
           \/ jstep' = "idle" /\ \E t \in Live(jmem, c) : State(jmem, t) = "reserved"
           \/ jstep' = "raised"
    BY <1>1 DEF JReserve, JAppend, JRefuse, JReady, Reserved, journalVars
  <1>8. c # 1 => 1 \in Done(d)
    <2>1. c \in Nat \ {0}
      BY <1>4
    <2> QED  BY <1>4, <2>1
  <1>9. OrderOK'
    <2>1. ASSUME kind \in Prefix, c # 1
          PROVE  FirstPaid(jdisk, Len(jdisk))
      <3>1. \E j \in DOMAIN jdisk : jdisk[j].action = "committed" /\ jdisk[j].run = 1
        BY <1>3, <1>8, <2>1, DonePaid
      <3>2. DOMAIN jdisk = 1 .. Len(jdisk)
        BY <1>6 DEF Sound
      <3> QED  BY <3>1, <3>2 DEF FirstPaid
    <2>2. e.run = c
      BY DEF EventOf
    <2> HIDE DEF e
    <2> QED  BY <1>1, <1>3, <1>7, <2>1, <2>2 DEF OrderOK
  <1>10. ASSUME jstep' # "raised", NEW t \in Transactions(jdisk)
         PROVE  Closed(d, t)
    <2>1. CASE AllClosed(d)
      BY <2>1 DEF AllClosed
    <2>2. CASE kind \in Prefix /\ Done(d) = {}
      <3>1. c = 1
        BY <1>8, <2>2
      <3>2. ~Paid(jdisk, c)
        <4>1. CASE Live(jmem, c) = {}
          BY <1>6, <4>1, LiveUnpaid
        <4>2. CASE \E u \in Live(jmem, c) : State(jmem, u) = "reserved"
          <5>1. PICK u : State(jdisk, u) = "reserved" /\ jdisk[u].run = c
            BY <1>6, <4>2 DEF Live
          <5> QED  BY <1>6, <5>1, ReservedUnpaid
        <4> QED  BY <1>7, <1>10, <4>1, <4>2
      <3> QED  BY <1>3, <1>6, <2>2, <3>1, <3>2, FreshJournal DEF OrderOK, Closed
    <2>3. AllClosed(d) \/ (kind \in Prefix /\ Done(d) = {})
      BY <1>3 DEF BetweenOK, d
    <2> QED  BY <2>1, <2>2, <2>3
  <1>11. WithinOK(p)'
    <2>1. jstep' # "raised" => \A t \in Transactions(jdisk') : Closed(job[p].dir, t)'
      BY <1>1, <1>5, <1>7, <1>10 DEF Closed
    <2> QED  BY <1>5, <2>1 DEF WithinOK
  <1>12. BetweenOK(p)'
    BY <1>5 DEF BetweenOK
  <1>13. LiveOK'
    BY <1>1 DEF LiveOK, AccountsInv
  <1> QED  BY <1>3, <1>5, <1>9, <1>11, <1>12, <1>13, AssembleAcc DEF JobStep

LEMMA NextReserveAcc ==
  ASSUME IInv, RowsInv, AccountsInv, NEW p \in Proc,
         \/ ChainedReserve(p) \/ ArmsReserve(p) \/ PluginReserve(p)
         \/ PilotReserve(p) \/ AgentReserve(p)
  PROVE  AccountsInv'
  <1> DEFINE d == job[p].dir
  <1>1. job[p].pc \in {"next", "prepared"}
    BY DEF ChainedReserve, ArmsReserve, PluginReserve, NextReserve, PilotReserve, AgentReserve, At
  <1>2. Remaining(d) # {}
    <2>1. At(p, "prepared") => Remaining(d) # {}
      BY DEF IInv, JobOK, PreparedOK
    <2> QED
      BY <2>1 DEF ChainedReserve, ArmsReserve, PluginReserve, NextReserve, PilotReserve,
                  AgentReserve
  <1>3. {} \in Note /\ Import(d, NextCell(d)) \in Note
    <2>1. kind \in Kind /\ d \in Dir /\ FilesOK
      BY <1>1, Holder DEF IInv, FilesOK, Holding, Course
    <2> QED  BY <1>2, <2>1, NextCellLeft, ImportTyped
  <1>4. \/ Reserve(p, NextCell(d), {}) \/ Reserve(p, NextCell(d), Import(d, NextCell(d)))
        \/ (Exit(p) /\ UNCHANGED <<kind, checkpoint, sessions, live>>)
    BY DEF ChainedReserve, ArmsReserve, PluginReserve, NextReserve, PilotReserve, AgentReserve,
           Refuses, money, files
  <1> QED  BY <1>1, <1>2, <1>3, <1>4, ReserveAcc, ExitAcc

LEMMA AuthorizeAcc ==
  ASSUME IInv, AccountsInv, NEW p \in Proc, Authorize(p)
  PROVE  AccountsInv'
  <1>1. /\ At(p, "reserving") /\ JReady(p) /\ UNCHANGED <<kind, checkpoint, sessions, live>>
        /\ jlock = p /\ jstep = "idle"
    BY DEF Authorize, JReady, money, files
  <1>2. PICK t : /\ JAuthorize(p, t, Len(jmem), {})
                 /\ job' = [job EXCEPT ![p].pc = "authorizing", ![p].tx = t]
    BY DEF Authorize
  <1>3. jdisk' = jdisk /\ NoReserve
    BY <1>2 DEF JAuthorize, JAppend, JRefuse, NoReserve, EventOf
  <1>4. /\ job'[p].pc = "authorizing" /\ job'[p].dir = job[p].dir
        /\ \A q \in Proc : q # p => job'[q] = job[q]
    <2>1. job \in [Proc -> JobTyped] /\ job[p] \in JobTyped
      BY DEF IInv
    <2> DEFINE j == [job[p] EXCEPT !.pc = "authorizing", !.tx = t]
    <2>2. j.pc = "authorizing" /\ j.dir = job[p].dir
      BY <2>1 DEF JobTyped
    <2>3. job' = [job EXCEPT ![p] = j]
      BY <1>2
    <2> HIDE DEF j
    <2> QED  BY <2>1, <2>2, <2>3
  <1>5. LiveOK' /\ OrderOK'
    BY <1>1, <1>3, OrderKept DEF AccountsInv, LiveOK
  <1>6. BetweenOK(p)'
    BY <1>4 DEF BetweenOK
  <1>7. WithinOK(p)'
    <2>1. WithinOK(p)
      BY DEF AccountsInv
    <2> QED  BY <1>1, <1>3, <1>4, <2>1 DEF WithinOK, At, OnCell, Closed
  <1> QED  BY <1>1, <1>4, <1>5, <1>6, <1>7, AssembleAcc

LEMMA AbortAcc ==
  ASSUME IInv, AccountsInv, NEW p \in Proc, AuthorizeRaised(p) \/ Drift(p)
  PROVE  AccountsInv'
  <1>1. PICK t : Abort(p, t)
    BY DEF AuthorizeRaised, Drift
  <1>2. /\ jlock = p /\ jdisk' = jdisk /\ UNCHANGED <<kind, checkpoint, sessions, live>>
        /\ Goto(p, "aborting")
    BY <1>1 DEF Abort, JAbort, money, files
  <1>3. NoReserve
    BY <1>1 DEF Abort, JAbort, NoReserve, EventOf
  <1>4. JobStep(p) /\ job'[p].pc = "aborting"
    <2>1. "aborting" \in Course
      BY DEF Course
    <2> QED  BY <1>2, <2>1, JobGoto DEF IInv
  <1> QED  BY <1>2, <1>3, <1>4, QuietAcc DEF JobStep, Claiming, OnCell

\* From the authorization to the call of commit.
LEMMA CellAcc ==
  ASSUME IInv, RowsInv, AccountsInv, NEW p \in Proc,
         \/ StartSession(p) \/ Export(p) \/ LedgerAppend(p)
         \/ ChainedCommit(p) \/ ArmsCommit(p) \/ PluginCommit(p) \/ PilotCommit(p)
         \/ AgentCommit(p)
  PROVE  AccountsInv'
  <1>1. PICK pc \in {"running", "exported", "ledgered", "committing"} : Goto(p, pc)
    BY DEF StartSession, Export, LedgerAppend, ChainedCommit, ArmsCommit, PluginCommit,
           PilotCommit, AgentCommit, Commit
  <1>2. /\ job[p].pc \in {"authorizing"} \cup Paying
        /\ job[p].pc = "authorizing" => jstep = "idle"
        /\ UNCHANGED <<kind, checkpoint>> /\ (UNCHANGED <<sessions, live>> \/ StartSession(p))
    BY DEF StartSession, Export, LedgerAppend, ChainedCommit, ArmsCommit, PluginCommit,
           PilotCommit, AgentCommit, Commit, At, Paying, JReady, money, files
  <1>3. jdisk' = jdisk /\ NoReserve
    <2>1. UNCHANGED journalVars \/ Commit(p)
      BY DEF StartSession, Export, LedgerAppend, ChainedCommit, ArmsCommit, PluginCommit,
           PilotCommit, AgentCommit
    <2> QED  BY <2>1 DEF Commit, JCommit, JAppend, JRefuse, journalVars, NoReserve, EventOf
  <1>4. job[p].pc \in Holding /\ job[p].pc \in OnCell
    BY <1>2 DEF Holding, Course, Paying, OnCell
  <1>5. jlock = p /\ job[p].cell \in Run /\ jstep = "idle"
    <2>1. PayingTx(p)
      BY DEF RowsInv, TxOK
    <2> QED  BY <1>2, <1>4, <2>1, Holder DEF PayingTx
  <1>6. /\ job'[p].pc = pc /\ job'[p].dir = job[p].dir /\ job'[p].tx = job[p].tx
        /\ \A q \in Proc : q # p => job'[q] = job[q]
    <2>1. pc \in Course
      BY DEF Course
    <2> QED  BY <1>1, <2>1, JobGoto DEF JobStep, IInv
  <1>7. LiveOK'
    <2>1. CASE StartSession(p)
      <3>1. live' = live \cup {job[p].cell} /\ sessions' = [sessions EXCEPT ![job[p].cell] = @ + 1]
        BY <2>1 DEF StartSession
      <3>2. sessions \in [Run -> Nat] /\ LiveOK
        BY DEF IInv, SessionsOK, AccountsInv
      <3>3. \A c \in Run : /\ sessions[c] \in Nat /\ sessions'[c] >= sessions[c]
                           /\ c = job[p].cell => sessions'[c] >= 1
        BY <1>5, <3>1, <3>2
      <3>4. live' \subseteq Run
        BY <1>5, <3>1, <3>2 DEF LiveOK
      <3>5. ASSUME NEW c \in live'
            PROVE  sessions'[c] >= 1
        <4>1. CASE c = job[p].cell
          BY <1>5, <3>3, <4>1
        <4>2. CASE c # job[p].cell
          <5>1. c \in Run /\ sessions[c] >= 1
            BY <3>1, <3>2, <4>2 DEF LiveOK
          <5>2. sessions'[c] = sessions[c]
            BY <1>5, <3>1, <3>2, <4>2, <5>1
          <5> QED  BY <5>1, <5>2
        <4> QED  BY <4>1, <4>2
      <3> QED  BY <3>4, <3>5 DEF LiveOK
    <2> QED  BY <1>2, <2>1 DEF LiveOK, AccountsInv
  <1>8. OrderOK'
    BY <1>2, <1>3, OrderKept DEF AccountsInv
  <1>9. BetweenOK(p)'
    BY <1>6 DEF BetweenOK
  <1>10. WithinOK(p)'
    <2>1. WithinOK(p)
      BY DEF AccountsInv
    <2> QED  BY <1>2, <1>3, <1>4, <1>5, <1>6, <2>1 DEF WithinOK, Closed, Paying
  <1> QED  BY <1>5, <1>6, <1>7, <1>8, <1>9, <1>10, AssembleAcc

\* Rows that stay account for what they did.
LEMMA GrownCloses ==
  ASSUME NEW d, NEW t, jdisk' = jdisk,
         \A i \in DOMAIN checkpoint[d] :
            i \in DOMAIN checkpoint'[d] /\ checkpoint'[d][i] = checkpoint[d][i],
         \/ Closed(d, t)
         \/ \E i \in DOMAIN checkpoint'[d] : checkpoint'[d][i].tx = t /\ checkpoint'[d][i].scored
  PROVE  Closed(d, t)'
  BY DEF Closed

\* Its row is written, and accounts for it.
LEMMA WriteAcc ==
  ASSUME IInv, RowsInv, FreshInv, AccountsInv, NEW p \in Proc,
         \/ KeyedWrites(p) \/ ArmsInvalid(p)
         \/ PilotInitial(p) \/ PilotCheckpoint(p) \/ AgentCheckpoint(p)
  PROVE  AccountsInv'
  <1> DEFINE d == job[p].dir
  <1>1. job[p].pc \in Holding /\ job[p].pc \in {"load", "running", "committing"}
    BY DEF KeyedWrites, WriteRollouts, ArmsInvalid, PilotInitial, PilotCheckpoint, AgentCheckpoint,
           CellCheckpoint, At, Holding, Course
  <1>2. jlock = p /\ d \in Dir
    BY <1>1, Holder
  <1>3. UNCHANGED <<kind, jdisk, sessions, live>>
    BY DEF KeyedWrites, WriteRollouts, ArmsInvalid, PilotInitial, PilotCheckpoint, AgentCheckpoint,
           CellCheckpoint, Checkpoint, Exit, JClose, journalVars, money
  <1>4. LiveOK'
    BY <1>3 DEF LiveOK, AccountsInv
  <1>5. \E row : checkpoint' = [checkpoint EXCEPT ![d] = Append(@, row)]
    BY DEF KeyedWrites, WriteRollouts, ArmsInvalid, PilotInitial, PilotCheckpoint,
           AgentCheckpoint, CellCheckpoint, Checkpoint
  <1>6. PICK row : checkpoint' = [checkpoint EXCEPT ![d] = Append(@, row)]
    BY <1>5
  <1>7. /\ checkpoint[d] \in Seq(AnyRow) /\ checkpoint'[d] = Append(checkpoint[d], row)
        /\ \A e \in Dir : e # d => checkpoint'[e] = checkpoint[e]
    BY <1>2, <1>6 DEF RowsInv, RowsOK
  <1>8. /\ DOMAIN checkpoint'[d] = 1 .. Len(checkpoint[d]) + 1
        /\ DOMAIN checkpoint[d] = 1 .. Len(checkpoint[d]) /\ Len(checkpoint[d]) \in Nat
        /\ checkpoint'[d][Len(checkpoint[d]) + 1] = row
        /\ \A i \in DOMAIN checkpoint[d] : checkpoint'[d][i] = checkpoint[d][i]
    <2>1. \A s, r : s \in Seq(AnyRow) =>
            /\ DOMAIN Append(s, r) = 1 .. Len(s) + 1 /\ DOMAIN s = 1 .. Len(s)
            /\ Len(s) \in Nat /\ Append(s, r)[Len(s) + 1] = r
            /\ \A i \in DOMAIN s : Append(s, r)[i] = s[i]
      OBVIOUS
    <2> HIDE DEF d
    <2> QED  BY <1>7, <2>1
  <1>9. CASE KeyedWrites(p) \/ ArmsInvalid(p)
    <2>1. kind \notin Prefix
      BY <1>9 DEF KeyedWrites, ArmsInvalid, Prefix
    <2>2. OrderOK'
      BY <1>3, <2>1 DEF OrderOK
    <2>3. CASE Exit(p)
      <3>1. job'[p].pc = "idle" /\ \A q \in Proc : q # p => job'[q] = job[q]
        BY <2>3, IdleTyped, JobSet DEF Exit, JobStep, IInv
      <3>2. BetweenOK(p)' /\ WithinOK(p)'
        BY <3>1, NoClaim DEF Claiming, OnCell
      <3> QED  BY <1>2, <1>4, <2>2, <3>1, <3>2, AssembleAcc
    <2>4. CASE KeyedWrites(p) /\ ~Exit(p)
      <3>1. /\ At(p, "committing") /\ JReady(p) /\ Goto(p, "next") /\ UNCHANGED journalVars
        BY <2>4 DEF KeyedWrites, WriteRollouts
      <3>2. checkpoint' = [checkpoint EXCEPT ![d] = Append(@,
               Row(job[p].cell, job[p].tx, cost[job[p].cell], left[job[p].cell] = "scored", << >>))]
            /\ left[job[p].cell] = "scored"
        BY <2>4 DEF KeyedWrites, WriteRollouts, Row
      <3>3. \E i \in DOMAIN checkpoint'[d] :
               checkpoint'[d][i].tx = job[p].tx /\ checkpoint'[d][i].scored
        <4> DEFINE new == Row(job[p].cell, job[p].tx, cost[job[p].cell],
                              left[job[p].cell] = "scored", << >>)
        <4>1. new.tx = job[p].tx /\ new.scored
          BY <3>2 DEF Row
        <4>2. \A s : s \in Seq(AnyRow) => /\ Len(s) + 1 \in DOMAIN Append(s, new)
                                          /\ Append(s, new)[Len(s) + 1] = new
          OBVIOUS
        <4>3. checkpoint'[d] = Append(checkpoint[d], new)
          BY <1>2, <3>2 DEF RowsInv, RowsOK
        <4> HIDE DEF new, d
        <4> QED  BY <1>7, <4>1, <4>2, <4>3
      <3>4. "next" \in Course
        BY DEF Course
      <3>5. /\ job'[p].pc = "next" /\ job'[p].dir = d
            /\ \A q \in Proc : q # p => job'[q] = job[q]
        BY <3>1, <3>4, JobGoto DEF JobStep, IInv
      <3>6. \A t \in Transactions(jdisk) : t = job[p].tx \/ Closed(d, t)
        <4>1. WithinOK(p)
          BY DEF AccountsInv
        <4> QED  BY <3>1, <4>1 DEF WithinOK, At, OnCell, JReady
      <3>7. BetweenOK(p)'
        <4>1. \A t \in Transactions(jdisk') : Closed(job[p].dir, t)'
          <5> SUFFICES ASSUME NEW t \in Transactions(jdisk), NEW e, e = d
                       PROVE  Closed(e, t)'
            BY <1>3, <3>5 DEF Closed
          <5> HIDE DEF d
          <5> QED  BY <1>3, <1>8, <3>3, <3>6, GrownCloses
        <4> QED  BY <3>1, <4>1 DEF BetweenOK, AllClosed, JReady, journalVars
      <3>8. WithinOK(p)'
        BY <3>5 DEF WithinOK, OnCell
      <3> QED  BY <1>2, <1>4, <2>2, <3>5, <3>7, <3>8, AssembleAcc
    <2>5. ArmsInvalid(p) => Exit(p)
      BY DEF ArmsInvalid
    <2> QED  BY <1>9, <2>3, <2>4, <2>5
  <1>10. CASE PilotInitial(p) \/ PilotCheckpoint(p) \/ AgentCheckpoint(p)
    <2>1. PICK new : /\ Checkpoint(p, new) /\ new.scored
                     /\ \/ PilotInitial(p) /\ new.cell = 0
                        \/ At(p, "committing") /\ new.tx = job[p].tx
      BY <1>10 DEF PilotInitial, PilotCheckpoint, AgentCheckpoint, CellCheckpoint, Initial, Row
    <2>2. JReady(p) /\ kind \in Prefix /\ UNCHANGED journalVars /\ Goto(p, "syncing")
      BY <1>10, <2>1 DEF PilotInitial, PilotCheckpoint, AgentCheckpoint, CellCheckpoint,
           Checkpoint, Paired, Prefix
    <2>3. checkpoint'[d] = Append(checkpoint[d], new)
      BY <1>2, <2>1 DEF Checkpoint, RowsInv, RowsOK
    <2>4. checkpoint'[d][Len(checkpoint[d]) + 1] = new
          /\ Len(checkpoint[d]) + 1 \in DOMAIN checkpoint'[d]
      <3>1. \A s : s \in Seq(AnyRow) => /\ Len(s) + 1 \in DOMAIN Append(s, new)
                                        /\ Append(s, new)[Len(s) + 1] = new
        OBVIOUS
      <3> HIDE DEF d
      <3> QED  BY <1>7, <2>3, <3>1
    <2>5. /\ job'[p].pc = "syncing" /\ job'[p].dir = d
          /\ \A q \in Proc : q # p => job'[q] = job[q]
      <3>1. "syncing" \in Course
        BY DEF Course
      <3> QED  BY <2>2, <3>1, JobGoto DEF JobStep, IInv
    <2>6. OrderOK'
      <3>1. \A e \in Dir : \A i \in DOMAIN checkpoint'[e] : checkpoint'[e][i].scored
        <4> SUFFICES ASSUME NEW e \in Dir, NEW i \in DOMAIN checkpoint'[e]
                     PROVE  checkpoint'[e][i].scored
          OBVIOUS
        <4>1. CASE e # d
          BY <1>7, <2>2, <4>1 DEF AccountsInv, OrderOK
        <4>2. CASE e = d
          <5>1. i \in DOMAIN checkpoint[d] \/ i = Len(checkpoint[d]) + 1
            <6>1. \A n \in Nat : \A j \in 1 .. n + 1 : j \in 1 .. n \/ j = n + 1
              OBVIOUS
            <6>2. i \in 1 .. Len(checkpoint[d]) + 1
              BY <1>8, <4>2
            <6> HIDE DEF d
            <6> QED  BY <1>8, <6>1, <6>2
          <5>2. i \in DOMAIN checkpoint[d] => checkpoint[d][i].scored
            BY <1>2, <2>2 DEF AccountsInv, OrderOK
          <5>3. CASE i \in DOMAIN checkpoint[d]
            BY <1>8, <4>2, <5>2, <5>3
          <5>4. CASE i = Len(checkpoint[d]) + 1
            BY <1>8, <2>1, <2>4, <4>2, <5>4
          <5> QED  BY <5>1, <5>3, <5>4
        <4> QED  BY <4>1, <4>2
      <3> QED  BY <1>3, <2>2, <3>1 DEF AccountsInv, OrderOK, journalVars
    <2>7. BetweenOK(p)'
      <3>1. CASE PilotInitial(p) /\ new.cell = 0
        <4>1. Fresh(p)
          BY <3>1 DEF PilotInitial, Fresh, At
        <4>2. checkpoint[d] = << >>
          BY <4>1 DEF FreshInv, FreshOK
        <4>3. \A i \in DOMAIN checkpoint'[d] : checkpoint'[d][i].cell = 0
          <5>1. checkpoint'[d] = << new >>
            BY <2>3, <4>2
          <5> QED  BY <3>1, <5>1
        <4>4. Done(job[p].dir)' = {}
          BY <2>5, <4>3 DEF Done, Rows
        <4> QED  BY <1>3, <2>2, <4>4 DEF BetweenOK, JReady, journalVars
      <3>2. CASE At(p, "committing") /\ new.tx = job[p].tx
        <4>1. \A t \in Transactions(jdisk) : t = job[p].tx \/ Closed(d, t)
          <5>1. WithinOK(p)
            BY DEF AccountsInv
          <5> QED  BY <2>2, <3>2, <5>1 DEF WithinOK, At, OnCell, JReady
        <4>2. \A t \in Transactions(jdisk') : Closed(job[p].dir, t)'
          <5> SUFFICES ASSUME NEW t \in Transactions(jdisk), NEW e, e = d
                       PROVE  Closed(e, t)'
            BY <1>3, <2>5 DEF Closed
          <5> HIDE DEF d
          <5> QED  BY <1>3, <1>8, <2>1, <2>4, <3>2, <4>1, GrownCloses
        <4> QED  BY <2>2, <4>2 DEF BetweenOK, AllClosed, JReady, journalVars
      <3> QED  BY <2>1, <3>1, <3>2
    <2>8. WithinOK(p)'
      BY <2>5 DEF WithinOK, OnCell
    <2> QED  BY <1>2, <1>4, <2>5, <2>6, <2>7, <2>8, AssembleAcc
  <1> QED  BY <1>9, <1>10

-----------------------------------------------------------------------------
(* The append, the sessions and the machine                                  *)

\* What is appended changes no transaction but the one its holder works on, and a
\* reservation is accounted for.
LEMMA ReplaceWithin ==
  ASSUME IInv, RowsInv, AccountsInv, JReplace, jevent # Creation,
         UNCHANGED <<job, checkpoint>>, NEW q \in Proc
  PROVE  WithinOK(q)'
  <1>1. /\ jmem = jdisk /\ jstep = "replace" /\ jstep' = "sync" /\ Pending1
        /\ Sound(jdisk) /\ jdisk \in Seq(AnyEvent)
    BY JournalAssumption DEF IInv, JInv, JReplace, Sound
  <1>2. jevent \in AnyEvent /\ Admissible(jdisk, jevent) /\ jdisk' = Append(jdisk, jevent)
    BY <1>1 DEF Pending1, JReplace, Appended
  <1>3. jevent.action = "reserved" => jevent.tx = Len(jdisk) + 1
    BY <1>2 DEF Admissible
  <1>4. Len(jdisk) \in Nat /\ DOMAIN jdisk = 1 .. Len(jdisk)
    BY <1>1
  <1> SUFFICES ASSUME job[q].pc \in OnCell, NEW t \in Transactions(jdisk')
               PROVE  (job[q].pc # "reserving" /\ t = job[q].tx) \/ Closed(job[q].dir, t)'
    BY DEF WithinOK
  <1>5. \A u \in Transactions(jdisk) :
           (job[q].pc # "reserving" /\ u = job[q].tx) \/ Closed(job[q].dir, u)
    BY <1>1 DEF AccountsInv, WithinOK
  <1>6. CASE t = Len(jdisk) + 1 /\ jevent.action = "reserved"
    BY <1>1, <1>2, <1>3, <1>6, ReservedState DEF Closed
  <1>7. CASE t \in Transactions(jdisk) /\ t # jevent.tx
    <2>1. State(jdisk', t) = State(jdisk, t)
      BY <1>1, <1>2, <1>7, AppendState
    <2> QED  BY <1>5, <1>7, <2>1 DEF Closed
  <1>8. CASE t \in Transactions(jdisk) /\ t = jevent.tx
    <2>1. jevent.action # "reserved"
      BY <1>3, <1>4, <1>8 DEF Transactions
    <2>2. job[q].pc # "reserving"
      BY <1>1, <2>1 DEF IInv, JobOK, ReservingOK, At
    <2>3. job[q].pc \in {"authorizing", "committing"}
      BY <1>1, <2>2 DEF OnCell, RowsInv, TxOK, PayingTx, Paying
    <2>4. jevent.tx = job[q].tx
      BY <1>1, <2>3 DEF RowsInv, TxOK, AuthorizingTx, CommittingTx, At
    <2> QED  BY <1>8, <2>2, <2>4
  <1> QED  BY <1>1, <1>2, <1>6, <1>7, <1>8, AppendTransactions

LEMMA WorkAcc ==
  ASSUME IInv, RowsInv, AccountsInv, JournalWork
  PROVE  AccountsInv'
  <1>1. JWork /\ UNCHANGED <<kind, job, sessions, live, checkpoint>>
    BY DEF JournalWork, money, files
  <1>2. jstep # "idle" /\ jevent' = jevent
    BY <1>1 DEF JWork, JWrite, JReplace, JSync, JFail
  <1>3. LiveOK'
    BY <1>1 DEF LiveOK, AccountsInv
  <1>4. \A q \in Proc : BetweenOK(q)'
    BY <1>1, <1>2 DEF AccountsInv, BetweenOK
  <1>5. CASE jdisk' = jdisk /\ ~JReplace
    <2>1. jstep' \in {"raised", "idle"} \/ (jstep = "write" /\ jstep' = "replace")
      BY <1>1, <1>5 DEF JWork, JWrite, JSync, JFail
    <2>2. NoReserve
      BY <1>2, <2>1 DEF NoReserve
    <2>3. OrderOK'
      BY <1>1, <1>5, <2>2, OrderKept DEF AccountsInv
    <2>4. jstep = "raised" => FALSE
      BY <1>1 DEF JWork, JWrite, JReplace, JSync, JFail
    <2>5. \A q \in Proc : WithinOK(q)'
      BY <1>1, <1>5, <2>4 DEF AccountsInv, WithinOK, Closed
    <2> QED  BY <1>3, <1>4, <2>3, <2>5 DEF AccountsInv
  <1>6. CASE JReplace
    <2>1. /\ jmem = jdisk /\ jstep = "replace" /\ jstep' = "sync" /\ Pending1
          /\ jdisk \in Seq(AnyEvent)
      BY <1>6, JournalAssumption DEF IInv, JInv, JReplace, Sound
    <2>2. CASE jevent = Creation
      <3>1. jdisk' = jdisk
        BY <1>6, <2>1, <2>2 DEF JReplace, Appended
      <3>2. OrderOK'
        BY <1>1, <2>1, <3>1, OrderKept DEF AccountsInv, NoReserve
      <3>3. \A q \in Proc : WithinOK(q)'
        BY <1>1, <2>1, <3>1 DEF AccountsInv, WithinOK, Closed
      <3> QED  BY <1>3, <1>4, <3>2, <3>3 DEF AccountsInv
    <2>3. CASE jevent # Creation
      <3>1. jevent \in AnyEvent /\ jdisk' = Append(jdisk, jevent)
        BY <1>6, <2>1, <2>3 DEF Pending1, JReplace, Appended
      <3>2. OrderOK'
        <4>1. kind \in Prefix => FirstCellFirst(jdisk')
          BY <2>1, <3>1, AppendFirst DEF AccountsInv, OrderOK
        <4> QED  BY <1>1, <2>1, <4>1 DEF AccountsInv, OrderOK
      <3>3. \A q \in Proc : WithinOK(q)'
        BY <1>1, <1>6, <2>3, ReplaceWithin
      <3> QED  BY <1>3, <1>4, <3>2, <3>3 DEF AccountsInv
    <2> QED  BY <2>2, <2>3
  <1>7. JReplace \/ (jdisk' = jdisk /\ ~JReplace)
    BY <1>1 DEF JWork, JWrite, JSync, JFail
  <1> QED  BY <1>5, <1>6, <1>7

\* A power loss takes back rows and events from the end, and every session with them.
LEMMA PowerLossAcc ==
  ASSUME IInv, RowsInv, AccountsInv, PowerLoss
  PROVE  AccountsInv'
  <1>1. /\ JPowerLoss /\ job' = [p \in Proc |-> Idle] /\ live' = {} /\ kind' = kind
        /\ jstep' = "idle"
    BY DEF PowerLoss, JPowerLoss
  <1>2. \A q \in Proc : BetweenOK(q)' /\ WithinOK(q)'
    BY <1>1, NoClaim DEF Idle, Claiming, OnCell
  <1>3. PICK n \in Len(jsynced) .. Len(jdisk) : jdisk' = SubSeq(jdisk, 1, n)
    BY <1>1 DEF JPowerLoss
  <1>4. jdisk \in Seq(AnyEvent) /\ n \in 0 .. Len(jdisk)
    <2>1. Len(jsynced) \in Nat /\ jdisk \in Seq(AnyEvent)
      BY PrefixFacts DEF IInv, JInv, Sound
    <2> QED  BY <2>1
  <1>5. kind \in Prefix => FirstCellFirst(jdisk')
    BY <1>3, <1>4, PrefixFirst DEF AccountsInv, OrderOK
  <1>6. \A d \in Dir : \A i \in DOMAIN checkpoint'[d] :
           i \in DOMAIN checkpoint[d] /\ checkpoint'[d][i] = checkpoint[d][i]
    BY PowerLossFiles DEF RowsInv, RowsOK
  <1>7. OrderOK'
    BY <1>1, <1>5, <1>6 DEF AccountsInv, OrderOK
  <1>8. LiveOK'
    BY <1>1 DEF LiveOK
  <1> QED  BY <1>2, <1>7, <1>8 DEF AccountsInv

-----------------------------------------------------------------------------
(* The theorem                                                               *)

LEMMA AccInit == Init => AccountsInv
  <1> SUFFICES ASSUME Init
               PROVE  AccountsInv
    OBVIOUS
  <1>1. \A q \in Proc : job[q].pc = "idle"
    BY DEF Init, Idle
  <1>2. \A q \in Proc : BetweenOK(q) /\ WithinOK(q)
    BY <1>1 DEF BetweenOK, WithinOK, OnCell
  <1>3. OrderOK
    <2>1. DOMAIN << >> = {}
      OBVIOUS
    <2> QED  BY <2>1 DEF Init, JInit, OrderOK, FirstCellFirst
  <1> QED  BY <1>2, <1>3 DEF Init, AccountsInv, LiveOK

LEMMA StillAcc ==
  ASSUME AccountsInv, UNCHANGED <<jdisk, jstep, jevent, kind, job, sessions, checkpoint>>,
         live' \subseteq live
  PROVE  AccountsInv'
  <1>1. OrderOK'
    BY OrderKept DEF AccountsInv, NoReserve
  <1>2. \A q \in Proc : BetweenOK(q)' /\ WithinOK(q)'
    BY SameClaim DEF AccountsInv
  <1> QED  BY <1>1, <1>2 DEF AccountsInv, LiveOK

LEMMA AccStep == IInv /\ RowsInv /\ FreshInv /\ AccountsInv /\ [Next]_vars => AccountsInv'
  <1> SUFFICES ASSUME IInv, RowsInv, FreshInv, AccountsInv, [Next]_vars
               PROVE  AccountsInv'
    OBVIOUS
  <1>1. ASSUME NEW p \in Proc, RunnerStep(p)
        PROVE  AccountsInv'
    <2>1. CASE KeyedStep(p)
      BY <2>1, StartAcc, LoadAcc, NextReserveAcc, CellAcc, WriteAcc, LeaveAcc DEF KeyedStep
    <2>2. CASE PrefixStep(p)
      BY <2>2, StartAcc, LoadAcc, NextReserveAcc, BetweenAcc, CellAcc, WriteAcc, LeaveAcc
         DEF PrefixStep
    <2>3. CASE SessionKilled(p)
      BY <2>3, StillAcc DEF SessionKilled, journalVars, files
    <2> QED
      BY <1>1, <2>1, <2>2, <2>3, AuthorizeAcc, AbortAcc, CellAcc, LeaveAcc DEF RunnerStep
  <1>2. ASSUME NEW c \in Run, SessionEnds(c)
        PROVE  AccountsInv'
    BY <1>2, StillAcc DEF SessionEnds, journalVars, files
  <1>3. CASE InspectJournal
    BY <1>3, StillAcc DEF InspectJournal, JInspect, money, files
  <1>4. CASE UNCHANGED vars
    BY <1>4, StillAcc DEF vars, journalVars, money, files
  <1> QED  BY <1>1, <1>2, <1>3, <1>4, WorkAcc, PowerLossAcc DEF Next

LEMMA Accounts == Spec => [](IInv /\ RowsInv /\ FreshInv /\ AccountsInv)
  <1>1. Init => IInv /\ RowsInv /\ FreshInv /\ AccountsInv
    BY InitInv, InitRows, FreshInit, AccInit
  <1>2. IInv /\ RowsInv /\ FreshInv /\ AccountsInv /\ [Next]_vars
        => (IInv /\ RowsInv /\ FreshInv /\ AccountsInv)'
    BY StepInv, StepRows, FreshStep, AccStep
  <1> QED  BY <1>1, <1>2, PTL DEF Spec

\* No session starts while another runs, or while the journal holds an attempt without
\* a scored row in the directory of its runner, for whichever runner (validate_chains,
\* _require_no_orphan_budget_transactions, _load_resume, validate_memory_agent_resume).
THEOREM AttemptsAreAccountedFor == Spec => StopsEverything
  <1>1. ASSUME IInv, RowsInv, AccountsInv, NEW p \in Proc, StartSession(p)
        PROVE  live = {} /\ \A t \in Transactions(jdisk) : Accounted(p, t)
    <2>1. At(p, "authorizing") /\ JReady(p)
      BY <1>1 DEF StartSession
    <2>2. \A t \in Transactions(jdisk) : t = job[p].tx \/ Closed(job[p].dir, t)
      BY <1>1, <2>1 DEF AccountsInv, WithinOK, At, OnCell, JReady
    <2>3. \A t \in Transactions(jdisk) : Accounted(p, t)
      BY <2>2 DEF Accounted, Closed, Rows
    <2>4. job[p].dir \in Dir
      BY <1>1, <2>1, Holder DEF At, Holding, Course
    <2>5. ASSUME NEW c \in live
          PROVE  FALSE
      <3>1. c \in Run /\ Paid(jsynced, c)
        <4>1. c \in Run /\ sessions[c] >= 1 /\ sessions[c] \in Nat
          BY <1>1 DEF AccountsInv, LiveOK, IInv, SessionsOK
        <4> QED  BY <1>1, <4>1 DEF IInv, SessionsOK
      <3>2. Sound(jdisk) /\ \A i \in DOMAIN jsynced : i \in DOMAIN jdisk /\ jsynced[i] = jdisk[i]
        BY <1>1, PrefixFacts DEF IInv, JInv
      <3>3. PICK i \in DOMAIN jdisk : jdisk[i].action = "request_authorized" /\ jdisk[i].run = c
        BY <3>1, <3>2 DEF Paid
      <3> DEFINE u == jdisk[i].tx
      <3>4. /\ u \in Transactions(jdisk)
            /\ State(jdisk, u) \in {"request_authorized", "committed"}
        BY <3>2, <3>3, StateFacts
      <3>5. jdisk[u].run = c
        BY <3>2, <3>3 DEF Sound, TxEarlier
      <3> HIDE DEF u
      <3>6. CASE u = job[p].tx
        <4>1. jdisk[u].run = job[p].cell
          BY <1>1, <2>1, <3>6 DEF RowsInv, TxOK, AuthorizingTx, Known, JReady
        <4>2. sessions[job[p].cell] = 0
          BY <1>1, <2>1 DEF IInv, JobOK, AuthorizingOK, JReady
        <4> QED  BY <1>1, <3>5, <4>1, <4>2 DEF AccountsInv, LiveOK
      <3>7. CASE Closed(job[p].dir, u)
        <4>1. PICK k \in DOMAIN checkpoint[job[p].dir] :
                 checkpoint[job[p].dir][k].tx = u /\ checkpoint[job[p].dir][k].scored
          BY <3>4, <3>7 DEF Closed
        <4> DEFINE r == checkpoint[job[p].dir][k]
        <4>2. RowTrue(r)
          BY <1>1, <2>4 DEF RowsInv, RowsOK
        <4>3. u # 0
          BY <3>2, <3>4 DEF Transactions, Sound
        <4>4. r.cell \notin live /\ Committed(jsynced, u, r.cell, cost[r.cell])
          BY <4>1, <4>2, <4>3 DEF RowTrue
        <4>5. jdisk[u].run = r.cell
          BY <3>2, <4>4 DEF Committed
        <4> QED  BY <3>5, <4>4, <4>5
      <3> QED  BY <2>2, <3>4, <3>6, <3>7
    <2> QED  BY <2>3, <2>5
  <1>2. IInv /\ RowsInv /\ FreshInv /\ AccountsInv =>
          [\A p \in Proc : StartSession(p) =>
              live = {} /\ \A t \in Transactions(jdisk) : Accounted(p, t)]_vars
    BY <1>1
  <1> QED  BY Accounts, <1>2, PTL DEF StopsEverything

-----------------------------------------------------------------------------
(* The chain.  What an attempt starts from is fixed when its cell is         *)
(* reserved: the attempt before it is done, and its archive is written only  *)
(* while its own session is followed, which is over.                         *)

LedgerTyped == ledger \in [Dir -> Seq([cell : Run, tx : Int, from : Note, to : Note,
                                       failed : BOOLEAN])]

\* The session of cell c was started.
Begun(c) == c \in Run /\ sessions[c] >= 1

\* Cell c has the first place of the schedule, or the one before it was started.
Follows(c) == c # 1 => Begun(c - 1)

\* Both ends of a row are the archives, and neither archive is still to be written.
LinkOK(d, row) ==
    /\ row.from = Import(d, row.cell) /\ Follows(row.cell)
    /\ row.to = archive[d][row.cell] /\ Begun(row.cell)

LedgerOK == \A d \in Dir : \A i \in DOMAIN ledger[d] :
    ~ledger[d][i].failed => LinkOK(d, ledger[d][i])

\* The store of an attempt is what it imported, and is left behind by its session.
StoreOK(p) ==
    /\ At(p, "exported") => kind = "chained"
    /\ kind = "chained" /\ job[p].pc \in OnCell =>
          job[p].store = Import(job[p].dir, job[p].cell) /\ Follows(job[p].cell)
    /\ kind = "chained" /\ job[p].pc \in {"running", "exported"} => Begun(job[p].cell)

\* While a session is followed, it does not count yet and neither does the next.
AheadOK(p) == kind = "chained" /\ At(p, "running") =>
    \A d \in Dir : \A i \in DOMAIN ledger[d] :
        ~ledger[d][i].failed => ledger[d][i].cell \notin {job[p].cell, job[p].cell + 1}

ChainInv == LedgerTyped /\ LedgerOK /\ \A p \in Proc : StoreOK(p) /\ AheadOK(p)

\* Sessions are started, never taken back.
Grown == sessions \in [Run -> Nat] /\ sessions' \in [Run -> Nat]
         /\ \A c \in Run : sessions'[c] >= sessions[c]

LEMMA BegunKept ==
  ASSUME Grown, NEW c, Begun(c)
  PROVE  Begun(c)'
  <1>1. c \in Run /\ sessions[c] >= 1
    BY DEF Begun
  <1>2. sessions[c] \in Nat /\ sessions'[c] \in Nat /\ sessions'[c] >= sessions[c]
    BY <1>1 DEF Grown
  <1>3. sessions'[c] >= 1
    BY <1>1, <1>2
  <1> QED  BY <1>1, <1>3 DEF Begun

LEMMA FollowsKept ==
  ASSUME Grown, NEW c, Follows(c)
  PROVE  Follows(c)'
  <1>1. Begun(c - 1) => Begun(c - 1)'
    BY BegunKept
  <1> QED  BY <1>1 DEF Follows

LEMMA LinksKept ==
  ASSUME LedgerOK, Grown, UNCHANGED <<ledger, archive>>
  PROVE  LedgerOK'
  <1> SUFFICES ASSUME NEW d \in Dir, NEW i \in DOMAIN ledger[d], ~ledger[d][i].failed
               PROVE  LinkOK(d, ledger[d][i])'
    BY DEF LedgerOK
  <1>1. LinkOK(d, ledger[d][i])
    BY DEF LedgerOK
  <1> DEFINE row == ledger[d][i]
  <1>2. row' = row /\ Follows(row.cell) /\ Begun(row.cell)
    BY <1>1 DEF LinkOK
  <1> HIDE DEF row
  <1>3. Follows(row.cell)' /\ Begun(row.cell)'
    BY <1>2, FollowsKept, BegunKept DEF Follows, Begun
  <1> QED  BY <1>1, <1>2, <1>3 DEF LinkOK, Import, row

\* p moves; neither the ledger nor the archives do.
LEMMA ChainMoves ==
  ASSUME ChainInv, NEW p \in Proc, \A q \in Proc : q # p => job'[q] = job[q], Grown,
         UNCHANGED <<kind, ledger, archive>>, StoreOK(p)', AheadOK(p)'
  PROVE  ChainInv'
  <1>1. LedgerTyped' /\ LedgerOK'
    BY LinksKept DEF ChainInv, LedgerTyped
  <1>2. ASSUME NEW q \in Proc, q # p
        PROVE  StoreOK(q)' /\ AheadOK(q)'
    <2>1. StoreOK(q) /\ AheadOK(q) /\ job'[q] = job[q]
      BY <1>2 DEF ChainInv
    <2>2. (Follows(job[q].cell) => Follows(job[q].cell)')
          /\ (Begun(job[q].cell) => Begun(job[q].cell)')
      BY <2>1, FollowsKept, BegunKept DEF Follows, Begun
    <2> QED  BY <2>1, <2>2 DEF StoreOK, AheadOK, At, Import
  <1> QED  BY <1>1, <1>2 DEF ChainInv

LEMMA NoChain ==
  ASSUME NEW p \in Proc, job'[p].pc \notin OnCell
  PROVE  StoreOK(p)' /\ AheadOK(p)'
  BY DEF StoreOK, AheadOK, At, OnCell

\* It works on no cell then.
LEMMA ChainQuiet ==
  ASSUME IInv, ChainInv, NEW p \in Proc, Moves(p), job'[p].pc \notin OnCell,
         UNCHANGED <<kind, sessions, ledger, archive>>
  PROVE  ChainInv'
  <1>1. Grown
    BY DEF Grown, IInv, SessionsOK
  <1> QED  BY <1>1, NoChain, ChainMoves DEF Moves

\* It goes on with its cell.
LEMMA ChainGoes ==
  ASSUME IInv, ChainInv, NEW p \in Proc, job[p].pc \in OnCell, Grown,
         \A q \in Proc : q # p => job'[q] = job[q],
         job'[p].pc \notin {"exported", "running"},
         job'[p].cell = job[p].cell, job'[p].dir = job[p].dir, job'[p].store = job[p].store,
         UNCHANGED <<kind, ledger, archive>>
  PROVE  ChainInv'
  <1>1. StoreOK(p)'
    <2>1. Follows(job[p].cell) => Follows(job[p].cell)'
      BY FollowsKept
    <2> QED  BY <2>1 DEF ChainInv, StoreOK, At, Import, Follows
  <1>2. AheadOK(p)'
    BY DEF AheadOK, At
  <1> QED  BY <1>1, <1>2, ChainMoves

LEMMA GotoStore ==
  ASSUME IInv, NEW p \in Proc, NEW pc \in Course, Goto(p, pc)
  PROVE  /\ \A q \in Proc : q # p => job'[q] = job[q]
         /\ job'[p].pc = pc /\ job'[p].cell = job[p].cell /\ job'[p].dir = job[p].dir
         /\ job'[p].tx = job[p].tx /\ job'[p].store = job[p].store
  BY DEF IInv, JobTyped, Goto

LEMMA ChainExits ==
  ASSUME IInv, ChainInv, NEW p \in Proc, Exit(p), UNCHANGED <<kind, sessions, ledger, archive>>
  PROVE  ChainInv'
  <1>1. job'[p].pc = "idle"
    BY IdleTyped, JobSet DEF Exit, IInv
  <1> QED  BY <1>1, ExitMoves, ChainQuiet DEF OnCell

\* Every step that leaves no cell to work on.
LEMMA ChainOutside ==
  ASSUME IInv, ChainInv, NEW p \in Proc,
         \/ Aborted(p) \/ Raised(p) \/ Finish(p) \/ Crash(p) \/ PluginRefuses(p)
         \/ Unusable(p) \/ PilotPauses(p) \/ PilotUnprepared(p) \/ PilotRefuses(p)
         \/ AgentUnprepared(p) \/ AgentRefuses(p)
         \/ ChainedLoad(p) \/ ArmsLoad(p) \/ PluginLoad(p)
         \/ PilotLoad(p) \/ BlockLoad(p) \/ AgentLoad(p) \/ AgentFresh(p)
         \/ Prepare(p) \/ Sync(p)
         \/ KeyedWrites(p) \/ ArmsInvalid(p)
         \/ PilotInitial(p) \/ PilotCheckpoint(p) \/ AgentCheckpoint(p)
  PROVE  ChainInv'
  <1>1. \/ Exit(p)
        \/ \E pc \in {"next", "prepared", "syncing"} : Goto(p, pc) /\ UNCHANGED journalVars
    BY DEF Aborted, Raised, Finish, Crash, PluginRefuses, Unusable, PilotPauses,
       PilotUnprepared, PilotRefuses, AgentUnprepared, AgentRefuses, Refuses, ChainedLoad,
       ArmsLoad, PluginLoad, Loaded, PilotLoad, BlockLoad, AgentLoad, Resumed, AgentFresh,
       Prepare, Sync, KeyedWrites, WriteRollouts, ArmsInvalid, PilotInitial, PilotCheckpoint,
       AgentCheckpoint, CellCheckpoint, Checkpoint
  <1>2. UNCHANGED <<kind, sessions, ledger, archive>>
    BY DEF Aborted, Raised, Finish, Crash, PluginRefuses, Unusable, PilotPauses,
       PilotUnprepared, PilotRefuses, AgentUnprepared, AgentRefuses, Refuses, ChainedLoad,
       ArmsLoad, PluginLoad, Loaded, PilotLoad, BlockLoad, AgentLoad, Resumed, AgentFresh,
       Prepare, Sync, KeyedWrites, WriteRollouts, ArmsInvalid, PilotInitial, PilotCheckpoint,
       AgentCheckpoint, CellCheckpoint, Checkpoint, money, files
  <1>3. ASSUME NEW pc \in {"next", "prepared", "syncing"}, Goto(p, pc), UNCHANGED journalVars
        PROVE  ChainInv'
    <2>1. pc \in Course \ OnTx /\ pc \notin OnCell
      BY DEF Course, OnTx, Paying, OnCell
    <2>2. job'[p].pc = pc
      BY <1>3, <2>1, GotoStore
    <2> QED  BY <1>2, <1>3, <2>1, <2>2, GotoMoves, ChainQuiet
  <1> QED  BY <1>1, <1>2, <1>3, ChainExits

LEMMA ChainStarts ==
  ASSUME IInv, ChainInv, NEW p \in Proc,
         PilotOpen(p) \/ \E d \in Dir : \/ PilotStart(p, d) \/ BlockStart(p, d)
                                        \/ KeyedStart(p, d) \/ AgentStart(p, d)
  PROVE  ChainInv'
  <1>1. UNCHANGED <<kind, sessions, ledger, archive>>
    BY Zenon DEF PilotOpen, PilotStart, BlockStart, KeyedStart, AgentStart, money, files
  <1>2. Moves(p) /\ job'[p].pc \in {"opening", "load"}
    BY StartMoves
  <1> QED  BY <1>1, <1>2, ChainQuiet DEF OnCell

LEMMA ChainAborts ==
  ASSUME IInv, ChainInv, NEW p \in Proc, AuthorizeRaised(p) \/ Drift(p)
  PROVE  ChainInv'
  <1>1. \E t : Abort(p, t)
    BY DEF AuthorizeRaised, Drift
  <1>2. Goto(p, "aborting") /\ UNCHANGED <<kind, sessions, ledger, archive>>
    BY <1>1 DEF Abort, money, files
  <1>3. "aborting" \in Course
    BY DEF Course
  <1>4. job'[p].pc = "aborting" /\ \A q \in Proc : q # p => job'[q] = job[q]
    BY <1>2, <1>3, GotoStore
  <1>5. Grown
    BY <1>2 DEF Grown, IInv, SessionsOK
  <1> QED  BY <1>2, <1>4, <1>5, NoChain, ChainMoves DEF OnCell

\* Its cell is reserved with what the attempt before it left.
LEMMA ChainReserves ==
  ASSUME IInv, RowsInv, OrderOK, ChainInv, NEW p \in Proc,
         \/ ChainedReserve(p) \/ ArmsReserve(p) \/ PluginReserve(p)
         \/ PilotReserve(p) \/ AgentReserve(p)
  PROVE  ChainInv'
  <1> DEFINE d == job[p].dir
             c == NextCell(d)
  <1>1. job[p].pc \in {"next", "prepared"}
    BY DEF ChainedReserve, ArmsReserve, PluginReserve, NextReserve, PilotReserve, AgentReserve, At
  <1>2. Remaining(d) # {}
    <2>1. At(p, "prepared") => Remaining(d) # {}
      BY DEF IInv, JobOK, PreparedOK
    <2> QED
      BY <2>1 DEF ChainedReserve, ArmsReserve, PluginReserve, NextReserve, PilotReserve,
                  AgentReserve
  <1>3. \/ Exit(p) /\ UNCHANGED <<kind, sessions, ledger, archive>>
        \/ \E note : Reserve(p, c, note) /\ (kind = "chained" => note = Import(d, c))
    BY DEF ChainedReserve, ArmsReserve, PluginReserve, NextReserve, PilotReserve, AgentReserve,
           Paired, Refuses, money, files
  <1>4. ASSUME NEW note, Reserve(p, c, note), kind = "chained" => note = Import(d, c)
        PROVE  ChainInv'
    <2>1. c \in Run /\ c # 1 => c - 1 \in Done(d)
      <3>1. c \in Run /\ \A x \in 1 .. c - 1 : x \in Done(d)
        BY <1>2, NextCellLeft DEF IInv, FilesOK
      <3>2. c \in Nat \ {0}
        BY <3>1
      <3> HIDE DEF c, d
      <3> QED  BY <3>1, <3>2
    <2>2. d \in Dir
      BY <1>1, Holder DEF Holding, Course
    <2>3. Follows(c)
      <3>1. c \in Run
        BY <1>2, NextCellLeft DEF IInv, FilesOK
      <3> HIDE DEF c, d
      <3> QED  BY <2>1, <2>2, <3>1, DonePaid DEF Follows, Begun
    <2>4. /\ job' = [job EXCEPT ![p].pc = "reserving", ![p].cell = c, ![p].store = note]
          /\ UNCHANGED <<kind, sessions, ledger, archive>>
      BY <1>4 DEF Reserve, money, files
    <2> DEFINE j == [job[p] EXCEPT !.pc = "reserving", !.cell = c, !.store = note]
    <2>5. job \in [Proc -> JobTyped] /\ job[p] \in JobTyped
      BY DEF IInv
    <2>6. /\ job' = [job EXCEPT ![p] = j] /\ j.pc = "reserving" /\ j.cell = c
          /\ j.dir = d /\ j.store = note
      BY <2>4, <2>5 DEF JobTyped
    <2> HIDE DEF c, j
    <2>7. job'[p] = j /\ \A q \in Proc : q # p => job'[q] = job[q]
      BY <2>5, <2>6
    <2> HIDE DEF d
    <2>8. StoreOK(p)'
      BY <1>4, <2>3, <2>4, <2>6, <2>7 DEF StoreOK, At, Import, Follows, Begun
    <2>9. AheadOK(p)'
      BY <2>6, <2>7 DEF AheadOK, At
    <2>10. Grown
      BY <2>4 DEF Grown, IInv, SessionsOK
    <2> QED  BY <2>4, <2>7, <2>8, <2>9, <2>10, ChainMoves
  <1> QED  BY <1>3, <1>4, ChainExits

\* It is authorized, or committed.
LEMMA ChainAuthorizes ==
  ASSUME IInv, ChainInv, NEW p \in Proc,
         \/ Authorize(p) \/ ChainedCommit(p) \/ ArmsCommit(p) \/ PluginCommit(p)
         \/ PilotCommit(p) \/ AgentCommit(p)
  PROVE  ChainInv'
  <1>1. job[p].pc \in OnCell /\ UNCHANGED <<kind, sessions, ledger, archive>>
    BY DEF Authorize, ChainedCommit, ArmsCommit, PluginCommit, PilotCommit, AgentCommit, Commit,
           At, OnCell, money, files
  <1>2. Grown
    BY <1>1 DEF Grown, IInv, SessionsOK
  <1>3. CASE Authorize(p)
    <2>1. PICK t : job' = [job EXCEPT ![p].pc = "authorizing", ![p].tx = t]
      BY <1>3 DEF Authorize
    <2> DEFINE j == [job[p] EXCEPT !.pc = "authorizing", !.tx = t]
    <2>2. job \in [Proc -> JobTyped] /\ job[p] \in JobTyped
      BY DEF IInv
    <2>3. /\ job' = [job EXCEPT ![p] = j] /\ j.pc = "authorizing" /\ j.cell = job[p].cell
          /\ j.dir = job[p].dir /\ j.store = job[p].store
      BY <2>1, <2>2 DEF JobTyped
    <2> HIDE DEF j
    <2>4. job'[p] = j /\ \A q \in Proc : q # p => job'[q] = job[q]
      BY <2>2, <2>3
    <2> QED  BY <1>1, <1>2, <2>3, <2>4, ChainGoes
  <1>4. CASE Goto(p, "committing")
    <2>1. "committing" \in Course
      BY DEF Course
    <2>2. /\ \A q \in Proc : q # p => job'[q] = job[q]
          /\ job'[p].pc = "committing" /\ job'[p].cell = job[p].cell
          /\ job'[p].dir = job[p].dir /\ job'[p].store = job[p].store
      BY <1>4, <2>1, GotoStore
    <2> QED  BY <1>1, <1>2, <2>2, ChainGoes
  <1> QED
    BY <1>3, <1>4 DEF ChainedCommit, ArmsCommit, PluginCommit, PilotCommit, AgentCommit, Commit

\* Its session starts, for the first time: no attempt was made after it.
LEMMA ChainSession ==
  ASSUME IInv, ChainInv, NEW p \in Proc, StartSession(p)
  PROVE  ChainInv'
  <1>1. /\ At(p, "authorizing") /\ jstep = "idle" /\ Goto(p, "running")
        /\ UNCHANGED <<kind, ledger, archive>>
        /\ sessions' = [sessions EXCEPT ![job[p].cell] = @ + 1]
    BY DEF StartSession, JReady, files
  <1>2. job[p].pc \in OnCell /\ job[p].cell \in Run
    BY <1>1, Holder DEF At, Holding, Course, OnCell
  <1>3. sessions[job[p].cell] = 0
    BY <1>1 DEF IInv, JobOK, AuthorizingOK, At
  <1>4. Grown
    <2>1. sessions \in [Run -> Nat]
      BY DEF IInv, SessionsOK
    <2>2. sessions' \in [Run -> Nat]
      <3> DEFINE n == sessions[job[p].cell] + 1
      <3>1. n \in Nat /\ sessions' = [sessions EXCEPT ![job[p].cell] = n]
        <4>1. sessions[job[p].cell] \in Nat
          BY <1>2, <2>1
        <4> QED  BY <1>1, <4>1
      <3> HIDE DEF n
      <3> QED  BY <1>2, <2>1, <3>1
    <2>3. \A c \in Run : sessions[c] \in Nat /\ sessions'[c] \in {sessions[c], sessions[c] + 1}
      BY <1>1, <1>2, <2>1
    <2>4. \A c \in Run : sessions'[c] >= sessions[c]
      BY <2>3
    <2> QED  BY <2>1, <2>2, <2>4 DEF Grown
  <1>5. /\ \A q \in Proc : q # p => job'[q] = job[q]
        /\ job'[p].pc = "running" /\ job'[p].cell = job[p].cell
        /\ job'[p].dir = job[p].dir /\ job'[p].store = job[p].store
    <2>1. "running" \in Course
      BY DEF Course
    <2> QED  BY <1>1, <2>1, GotoStore
  <1>6. StoreOK(p)'
    <2>1. Follows(job[p].cell) => Follows(job[p].cell)'
      BY <1>4, <1>5, FollowsKept
    <2>2. sessions'[job[p].cell] = 1
      BY <1>1, <1>2, <1>3 DEF IInv, SessionsOK
    <2>3. Begun(job[p].cell)'
      BY <1>2, <1>5, <2>2 DEF Begun
    <2> QED  BY <1>1, <1>2, <1>5, <2>1, <2>3 DEF ChainInv, StoreOK, At, Import, Follows, Begun
  <1>7. AheadOK(p)'
    <2> SUFFICES ASSUME NEW d \in Dir, NEW i \in DOMAIN ledger[d], ~ledger[d][i].failed,
                        ledger[d][i].cell \in {job[p].cell, job[p].cell + 1}
                 PROVE  FALSE
      BY <1>1, <1>5 DEF AheadOK
    <2>1. Follows(ledger[d][i].cell) /\ Begun(ledger[d][i].cell)
      BY DEF ChainInv, LedgerOK, LinkOK
    <2>2. CASE ledger[d][i].cell = job[p].cell
      BY <1>3, <2>1, <2>2 DEF Begun
    <2>3. CASE ledger[d][i].cell = job[p].cell + 1
      <3>1. job[p].cell \in Nat \ {0}
        BY <1>2
      <3>2. ledger[d][i].cell # 1 /\ ledger[d][i].cell - 1 = job[p].cell
        BY <2>3, <3>1
      <3> QED  BY <1>3, <2>1, <3>2 DEF Follows, Begun
    <2> QED  BY <2>2, <2>3
  <1> QED  BY <1>1, <1>4, <1>5, <1>6, <1>7, ChainMoves

\* Who follows a session holds the journal, and nobody else works on a cell.
LEMMA AloneOnCell ==
  ASSUME IInv, NEW p \in Proc, job[p].pc \in OnCell,
         NEW q \in Proc, q # p, job'[q] = job[q]
  PROVE  StoreOK(q)' /\ AheadOK(q)'
  <1>1. job[p].pc \in Holding
    BY DEF OnCell, Holding, Course
  <1>2. job[q].pc \notin Holding
    BY <1>1 DEF IInv, JobOK
  <1>3. job'[q].pc \notin OnCell
    BY <1>2 DEF OnCell, Holding, Course
  <1> QED  BY <1>3, NoChain

\* Its store is archived: no row that counts relies on what was there.
LEMMA ChainExport ==
  ASSUME IInv, ChainInv, NEW p \in Proc, Export(p)
  PROVE  ChainInv'
  <1> DEFINE d == job[p].dir
             c == job[p].cell
  <1>1. /\ kind = "chained" /\ At(p, "running") /\ Goto(p, "exported")
        /\ UNCHANGED <<kind, sessions, ledger>>
    BY DEF Export, money
  <1>2. job[p].pc \in OnCell /\ c \in Run /\ d \in Dir
    BY <1>1, Holder DEF At, Holding, Course, OnCell
  <1>3. PICK store : archive' = [archive EXCEPT ![d][c] = store]
    BY DEF Export
  <1>4. archive \in [Dir -> [Run -> Note]]
    BY DEF IInv, FilesOK
  <1>5. ASSUME NEW e \in Dir, NEW x \in Run, ~(e = d /\ x = c)
        PROVE  archive'[e][x] = archive[e][x]
    <2> HIDE DEF c, d
    <2> QED  BY <1>2, <1>3, <1>4, <1>5
  <1>6. LedgerTyped'
    BY <1>1 DEF ChainInv, LedgerTyped
  <1>7. LedgerOK'
    <2> SUFFICES ASSUME NEW e \in Dir, NEW i \in DOMAIN ledger[e], ~ledger[e][i].failed
                 PROVE  LinkOK(e, ledger[e][i])'
      BY <1>1 DEF LedgerOK
    <2> DEFINE r == ledger[e][i]
    <2>1. LinkOK(e, r) /\ r.cell # c /\ r.cell # c + 1
      BY <1>1 DEF ChainInv, LedgerOK, AheadOK
    <2>2. r.cell \in Run
      <3> DEFINE T == [cell : Run, tx : Int, from : Note, to : Note, failed : BOOLEAN]
      <3>1. ledger[e] \in Seq(T)
        BY DEF ChainInv, LedgerTyped
      <3>2. \A t \in T : t.cell \in Run
        OBVIOUS
      <3> HIDE DEF T
      <3>3. r \in T
        BY <3>1
      <3> QED  BY <3>2, <3>3
    <2>3. r' = r
      BY <1>1
    <2>4. r.cell # 1 => archive'[e][r.cell - 1] = archive[e][r.cell - 1]
      <3> SUFFICES ASSUME r.cell # 1
                   PROVE  archive'[e][r.cell - 1] = archive[e][r.cell - 1]
        OBVIOUS
      <3>1. r.cell - 1 \in Run
        BY <2>1 DEF LinkOK, Follows, Begun
      <3>2. r.cell \in Nat /\ c \in Nat
        BY <1>2, <2>2
      <3> HIDE DEF c, d, r
      <3>3. r.cell - 1 # c
        BY <2>1, <3>2
      <3> QED  BY <1>5, <3>1, <3>3
    <2>5. archive'[e][r.cell] = archive[e][r.cell]
      <3> HIDE DEF c, d, r
      <3> QED  BY <1>5, <2>1, <2>2
    <2> HIDE DEF r
    <2>6. LinkOK(e, r)'
      BY <1>1, <2>1, <2>3, <2>4, <2>5 DEF LinkOK, Import, Follows, Begun
    <2> QED  BY <2>3, <2>6 DEF r
  <1>8. /\ \A q \in Proc : q # p => job'[q] = job[q]
        /\ job'[p].pc = "exported" /\ job'[p].cell = c /\ job'[p].dir = d
        /\ job'[p].store = job[p].store
    <2>1. "exported" \in Course
      BY DEF Course
    <2> QED  BY <1>1, <2>1, GotoStore
  <1>9. StoreOK(p)' /\ AheadOK(p)'
    <2>1. job[p].store = Import(d, c) /\ Follows(c) /\ Begun(c)
      BY <1>1, <1>2 DEF ChainInv, StoreOK, At
    <2>2. c # 1 => archive'[d][c - 1] = archive[d][c - 1]
      <3> SUFFICES ASSUME c # 1
                   PROVE  archive'[d][c - 1] = archive[d][c - 1]
        OBVIOUS
      <3>1. c - 1 \in Run /\ c \in Nat
        BY <1>2, <2>1 DEF Follows, Begun
      <3> HIDE DEF c, d
      <3> QED  BY <1>2, <1>5, <3>1
    <2>3. StoreOK(p)'
      BY <1>1, <1>8, <2>1, <2>2 DEF StoreOK, Import, Follows, Begun
    <2> QED  BY <1>8, <2>3 DEF AheadOK, At
  <1>10. \A q \in Proc : StoreOK(q)' /\ AheadOK(q)'
    BY <1>2, <1>8, <1>9, AloneOnCell
  <1> QED  BY <1>6, <1>7, <1>10 DEF ChainInv

\* A row is added to the ledger of one directory.
LEMMA LedgerGrows ==
  ASSUME NEW T, NEW l \in [Dir -> Seq(T)], NEW d \in Dir, NEW row \in T, NEW m,
         m = [l EXCEPT ![d] = Append(@, row)]
  PROVE  /\ m \in [Dir -> Seq(T)]
         /\ \A e \in Dir : \A i \in DOMAIN m[e] :
               (i \in DOMAIN l[e] /\ m[e][i] = l[e][i]) \/ (e = d /\ m[e][i] = row)
  <1> DEFINE s == l[d]
             n == Append(s, row)
  <1>1. /\ n \in Seq(T)
        /\ \A i \in DOMAIN n : (i \in DOMAIN s /\ n[i] = s[i]) \/ n[i] = row
    <2>1. s \in Seq(T)
      OBVIOUS
    <2> HIDE DEF s
    <2> QED  BY <2>1
  <1>2. m = [l EXCEPT ![d] = n]
    OBVIOUS
  <1> HIDE DEF n
  <1>3. m \in [Dir -> Seq(T)]
    BY <1>1, <1>2
  <1>4. m[d] = n /\ \A e \in Dir : e # d => m[e] = l[e]
    BY <1>2
  <1> QED  BY <1>1, <1>3, <1>4

\* What links the rows of the ledgers is the archives and the sessions alone.
LEMMA LinksAre ==
  ASSUME UNCHANGED <<sessions, archive>>,
         \A e \in Dir : \A i \in DOMAIN ledger'[e] :
            ~ledger'[e][i].failed => LinkOK(e, ledger'[e][i])
  PROVE  LedgerOK'
  BY DEF LedgerOK, LinkOK, Import, Follows, Begun

\* An attempt is recorded, one that counts with what it started from.
LEMMA ChainRecords ==
  ASSUME IInv, ChainInv, NEW p \in Proc, job[p].pc \in OnCell,
         NEW row \in [cell : Run, tx : Int, from : Note, to : Note, failed : BOOLEAN],
         ledger' = [ledger EXCEPT ![job[p].dir] = Append(@, row)],
         UNCHANGED <<kind, sessions, archive>>,
         ~row.failed => LinkOK(job[p].dir, row),
         \A q \in Proc : q # p => job'[q] = job[q], StoreOK(p)', AheadOK(p)'
  PROVE  ChainInv'
  <1> DEFINE T == [cell : Run, tx : Int, from : Note, to : Note, failed : BOOLEAN]
             d == job[p].dir
  <1>1. d \in Dir
    BY Holder DEF OnCell, Holding, Course
  <1>2. ledger \in [Dir -> Seq(T)]
    BY DEF ChainInv, LedgerTyped
  <1>3. row \in T /\ ledger' = [ledger EXCEPT ![d] = Append(@, row)]
    OBVIOUS
  <1> HIDE DEF T, d
  <1>4. /\ ledger' \in [Dir -> Seq(T)]
        /\ \A e \in Dir : \A i \in DOMAIN ledger'[e] :
              \/ i \in DOMAIN ledger[e] /\ ledger'[e][i] = ledger[e][i]
              \/ e = d /\ ledger'[e][i] = row
    BY <1>1, <1>2, <1>3, LedgerGrows
  <1>5. LedgerOK'
    <2>1. ASSUME NEW e \in Dir, NEW i \in DOMAIN ledger'[e], ~ledger'[e][i].failed
          PROVE  LinkOK(e, ledger'[e][i])
      <3>1. CASE i \in DOMAIN ledger[e] /\ ledger'[e][i] = ledger[e][i]
        BY <2>1, <3>1 DEF ChainInv, LedgerOK
      <3>2. CASE e = d /\ ledger'[e][i] = row
        BY <2>1, <3>2 DEF d
      <3> QED  BY <1>4, <3>1, <3>2
    <2> QED  BY <2>1, LinksAre
  <1>6. \A q \in Proc : StoreOK(q)' /\ AheadOK(q)'
    BY AloneOnCell
  <1> QED  BY <1>4, <1>5, <1>6 DEF ChainInv, LedgerTyped, T

LEMMA ChainAppends ==
  ASSUME IInv, ChainInv, NEW p \in Proc, LedgerAppend(p) \/ ChainedFails(p)
  PROVE  ChainInv'
  <1> DEFINE d == job[p].dir
             c == job[p].cell
  <1>1. job[p].pc \in OnCell /\ UNCHANGED <<kind, sessions, archive>>
    BY DEF LedgerAppend, ChainedFails, At, OnCell, money
  <1>2. /\ c \in Run /\ d \in Dir /\ archive[d][c] \in Note /\ job[p].store \in Note
        /\ job[p].tx \in Int
    <2>1. c \in Run /\ d \in Dir
      BY <1>1, Holder DEF OnCell, Holding, Course
    <2>2. job[p] \in JobTyped /\ archive \in [Dir -> [Run -> Note]]
      BY DEF IInv, FilesOK
    <2>3. job[p].store \in Note /\ job[p].tx \in Int
      BY <2>2 DEF JobTyped
    <2> HIDE DEF c, d
    <2>4. archive[d] \in [Run -> Note]
      BY <2>1, <2>2
    <2>5. archive[d][c] \in Note
      BY <2>1, <2>4
    <2> QED  BY <2>1, <2>3, <2>5
  <1>3. CASE LedgerAppend(p)
    <2> DEFINE row == LedgerRow(c, job[p].tx, job[p].store, archive[d][c])
    <2>1. row \in [cell : Run, tx : Int, from : Note, to : Note, failed : BOOLEAN]
      BY <1>2 DEF LedgerRow
    <2>2. ledger' = [ledger EXCEPT ![d] = Append(@, row)] /\ At(p, "exported")
          /\ Goto(p, "ledgered")
      BY <1>3 DEF LedgerAppend
    <2>3. kind = "chained" /\ job[p].store = Import(d, c) /\ Follows(c) /\ Begun(c)
      BY <1>1, <2>2 DEF ChainInv, StoreOK, At
    <2>4. row.cell = c /\ row.from = job[p].store /\ row.to = archive[d][c] /\ ~row.failed
      BY DEF LedgerRow
    <2>5. /\ \A q \in Proc : q # p => job'[q] = job[q]
          /\ job'[p].pc = "ledgered" /\ job'[p].cell = c /\ job'[p].dir = d
          /\ job'[p].store = job[p].store
      <3>1. "ledgered" \in Course
        BY DEF Course
      <3> QED  BY <2>2, <3>1, GotoStore
    <2>6. StoreOK(p)' /\ AheadOK(p)'
      BY <1>1, <2>3, <2>5 DEF StoreOK, AheadOK, At, Import, Follows, Begun
    <2>7. LinkOK(d, row)
      BY <2>2, <2>3, <2>4 DEF LinkOK
    <2> HIDE DEF row
    <2> QED  BY <1>1, <2>1, <2>2, <2>5, <2>6, <2>7, ChainRecords
  <1>4. CASE ChainedFails(p)
    <2> DEFINE row == FailedAttempt(c, job[p].tx, job[p].store)
    <2>1. row \in [cell : Run, tx : Int, from : Note, to : Note, failed : BOOLEAN] /\ row.failed
      BY <1>2 DEF FailedAttempt, NoArchive
    <2>2. ledger' = [ledger EXCEPT ![d] = Append(@, row)] /\ Exit(p)
      BY <1>4 DEF ChainedFails
    <2>3. job'[p].pc = "idle" /\ \A q \in Proc : q # p => job'[q] = job[q]
      BY <2>2, IdleTyped, JobSet DEF Exit, JobStep, IInv
    <2>4. StoreOK(p)' /\ AheadOK(p)'
      BY <2>3, NoChain DEF OnCell
    <2> HIDE DEF row
    <2> QED  BY <1>1, <2>1, <2>2, <2>3, <2>4, ChainRecords
  <1> QED  BY <1>3, <1>4

\* A ledger may be gone after a power loss.
LEMMA ChainPowerLoss ==
  ASSUME IInv, ChainInv, PowerLoss
  PROVE  ChainInv'
  <1>1. /\ job' = [p \in Proc |-> Idle] /\ UNCHANGED <<kind, sessions, archive>>
        /\ ledger' \in [Dir -> {ledger[d] : d \in Dir} \cup {<< >>}]
        /\ \A d \in Dir : ledger'[d] \in {ledger[d], << >>}
    BY DEF PowerLoss
  <1>2. LedgerTyped'
    <2> DEFINE T == [cell : Run, tx : Int, from : Note, to : Note, failed : BOOLEAN]
    <2>1. ledger \in [Dir -> Seq(T)]
      BY DEF ChainInv, LedgerTyped
    <2>2. << >> \in Seq(T)
      OBVIOUS
    <2> HIDE DEF T
    <2>3. ledger' \in [Dir -> Seq(T)]
      BY <1>1, <2>1, <2>2
    <2> QED  BY <2>3 DEF LedgerTyped, T
  <1>3. LedgerOK'
    <2> SUFFICES ASSUME NEW d \in Dir, NEW i \in DOMAIN ledger'[d], ~ledger'[d][i].failed
                 PROVE  LinkOK(d, ledger'[d][i])
      BY <1>1 DEF LedgerOK, LinkOK, Import, Follows, Begun
    <2>1. ledger'[d] = ledger[d]
      <3>1. DOMAIN << >> = {}
        OBVIOUS
      <3> QED  BY <1>1, <3>1
    <2> QED  BY <2>1 DEF ChainInv, LedgerOK
  <1>4. \A q \in Proc : StoreOK(q)' /\ AheadOK(q)'
    BY <1>1, NoChain DEF Idle, OnCell
  <1> QED  BY <1>2, <1>3, <1>4 DEF ChainInv

LEMMA ChainStill ==
  ASSUME ChainInv, UNCHANGED <<kind, job, sessions, ledger, archive>>
  PROVE  ChainInv'
  <1>1. LedgerTyped' /\ LedgerOK'
    BY DEF ChainInv, LedgerTyped, LedgerOK, LinkOK, Import, Follows, Begun
  <1>2. \A q \in Proc : StoreOK(q)' /\ AheadOK(q)'
    BY DEF ChainInv, StoreOK, AheadOK, At, Import, Follows, Begun
  <1> QED  BY <1>1, <1>2 DEF ChainInv

LEMMA ChainInit == Init => ChainInv
  <1> SUFFICES ASSUME Init
               PROVE  ChainInv
    OBVIOUS
  <1>1. \A q \in Proc : job[q].pc = "idle"
    BY DEF Init, Idle
  <1>2. << >> \in Seq([cell : Run, tx : Int, from : Note, to : Note, failed : BOOLEAN])
        /\ DOMAIN << >> = {}
    OBVIOUS
  <1>3. LedgerTyped /\ LedgerOK
    BY <1>2 DEF Init, LedgerTyped, LedgerOK
  <1> QED  BY <1>1, <1>3 DEF ChainInv, StoreOK, AheadOK, At, OnCell

LEMMA ChainStep == IInv /\ RowsInv /\ AccountsInv /\ ChainInv /\ [Next]_vars => ChainInv'
  <1> SUFFICES ASSUME IInv, RowsInv, OrderOK, ChainInv, [Next]_vars
               PROVE  ChainInv'
    BY DEF AccountsInv
  <1>1. ASSUME NEW p \in Proc, RunnerStep(p)
        PROVE  ChainInv'
    <2>1. CASE KeyedStep(p)
      BY <2>1, ChainStarts, ChainOutside, ChainReserves, ChainAuthorizes, ChainExport,
         ChainAppends DEF KeyedStep
    <2>2. CASE PrefixStep(p)
      BY <2>2, ChainStarts, ChainOutside, ChainReserves, ChainAuthorizes DEF PrefixStep
    <2>3. CASE SessionKilled(p)
      BY <2>3, ChainStill DEF SessionKilled, files
    <2> QED
      BY <1>1, <2>1, <2>2, <2>3, ChainAuthorizes, ChainAborts, ChainSession, ChainOutside
         DEF RunnerStep
  <1>2. ASSUME NEW c \in Run, SessionEnds(c)
        PROVE  ChainInv'
    BY <1>2, ChainStill DEF SessionEnds, files
  <1>3. CASE JournalWork \/ InspectJournal \/ UNCHANGED vars
    BY <1>3, ChainStill DEF JournalWork, InspectJournal, vars, money, files
  <1> QED  BY <1>1, <1>2, <1>3, ChainPowerLoss DEF Next

\* An attempt of a chain that counts was given exactly the store the attempt before it
\* left, and the archive its row names is the one it left itself (export_store, the
\* import of the previous row's archive, validate_chains).
THEOREM AttemptsAreLinked == Spec => []ChainLinked
  <1>1. ChainInv => ChainLinked
    BY DEF ChainInv, LedgerOK, LinkOK, Import, ChainLinked
  <1>2. Spec => []ChainInv
    BY ChainInit, ChainStep, Accounts, PTL DEF Spec
  <1> QED  BY <1>1, <1>2, PTL

-----------------------------------------------------------------------------
(* What the provider may have charged (SpendCovered).  Every cell with a     *)
(* session has an authorized transaction of its own in the journal, which    *)
(* counts at the maximum until it is committed; a commit, on the disk or on  *)
(* its way there, says what the session of its cell cost, which no longer    *)
(* changes; and what replay accepts keeps to the authority.                  *)

\* Event e settles what the session of its cell cost.
Priced(e) ==
    /\ e.run \in Run /\ e.run \notin live
    /\ sessions[e.run] >= 1 /\ e.cost = cost[e.run]

SpendInv ==
    /\ cost \in [Run -> 0 .. MaxCost]
    /\ \A c \in Run : sessions[c] = 0 => cost[c] = 0
    /\ \A i \in DOMAIN jdisk : jdisk[i].action = "committed" => Priced(jdisk[i])
    /\ jstep \in {"write", "replace"} /\ jevent.action = "committed" => Priced(jevent)

\* No append of a commit begins.
NoCommit == jstep' \in {"write", "replace"} /\ jevent'.action = "committed" =>
    jstep \in {"write", "replace"} /\ jevent' = jevent

LEMMA SpendKept ==
  ASSUME SpendInv, UNCHANGED <<jdisk, sessions, cost>>, live' \subseteq live, NoCommit
  PROVE  SpendInv'
  BY DEF SpendInv, Priced, NoCommit

\* A call of the journal that is no commit.
LEMMA CallsKeep ==
  ASSUME IInv, NEW p \in Proc,
         \/ UNCHANGED journalVars \/ JOpen(p) \/ JClose(p)
         \/ \E c, note : JReserve(p, c, note)
         \/ \E t, n, note : JAuthorize(p, t, n, note) \/ JAbort(p, t, note)
  PROVE  jdisk' = jdisk /\ NoCommit
  <1>1. ASSUME NEW e, e.action # "committed", JAppend(p, e)
        PROVE  jdisk' = jdisk /\ NoCommit
    BY <1>1, AppendShape DEF NoCommit
  <1>2. CASE JRefuse(p)
    BY <1>2, RefuseShape DEF NoCommit
  <1>3. CASE UNCHANGED journalVars \/ JOpen(p) \/ JClose(p)
    BY <1>3 DEF journalVars, JOpen, JClose, Creation, NoCommit
  <1>4. ASSUME NEW c, NEW note, JReserve(p, c, note)
        PROVE  jdisk' = jdisk /\ NoCommit
    <2>1. EventOf("reserved", Len(jmem) + 1, c, Unsettled, note).action # "committed"
      BY DEF EventOf
    <2> QED  BY <1>1, <1>2, <1>3, <1>4, <2>1 DEF JReserve
  <1>5. ASSUME NEW t, NEW n, NEW note, JAuthorize(p, t, n, note)
        PROVE  jdisk' = jdisk /\ NoCommit
    <2>1. EventOf("request_authorized", t, jmem[t].run, Unsettled, note).action # "committed"
      BY DEF EventOf
    <2> QED  BY <1>1, <1>2, <1>5, <2>1 DEF JAuthorize
  <1>6. ASSUME NEW t, NEW note, JAbort(p, t, note)
        PROVE  jdisk' = jdisk /\ NoCommit
    <2>1. jevent'.action = "aborted_pre_request"
      BY <1>6 DEF JAbort, EventOf
    <2> QED  BY <1>6, <2>1 DEF JAbort, NoCommit
  <1> QED  BY <1>3, <1>4, <1>5, <1>6

\* The steps of a runner that neither start a session nor commit what one cost.
LEMMA RunnerSpends ==
  ASSUME IInv, SpendInv, NEW p \in Proc, RunnerStep(p), ~StartSession(p), ~Commits(p)
  PROVE  SpendInv'
  <1>1. UNCHANGED <<sessions, cost>> /\ live' \subseteq live
    <2>1. CASE KeyedStep(p)
      <3>1. UNCHANGED <<sessions, cost, live>>
        BY <2>1, Zenon DEF KeyedStep, Commits, KeyedStart, ChainedLoad, ArmsLoad, PluginLoad,
           Loaded, ChainedReserve, ArmsReserve, PluginReserve, NextReserve, Reserve, Export,
           LedgerAppend, ChainedFails, ArmsInvalid, PluginRefuses, KeyedWrites, WriteRollouts,
           money
      <3> QED  BY <3>1
    <2>2. CASE PrefixStep(p)
      <3>1. UNCHANGED <<sessions, cost, live>>
        BY <2>2, Zenon DEF PrefixStep, Commits, Sync, Prepare, Unusable, Refuses, PilotStart,
           BlockStart, AgentStart, PilotOpen, PilotInitial, PilotLoad, BlockLoad, Resumed,
           PilotPauses, PilotUnprepared, PilotReserve, Reserve, PilotRefuses, PilotCheckpoint,
           AgentFresh, AgentLoad, AgentUnprepared, AgentReserve, AgentRefuses,
           AgentCheckpoint, CellCheckpoint, Checkpoint, money
      <3> QED  BY <3>1
    <2>3. CASE ~KeyedStep(p) /\ ~PrefixStep(p)
      BY <2>3 DEF RunnerStep, Authorize, AuthorizeRaised, Drift, Abort, Aborted, Raised,
         SessionKilled, Finish, Crash, money
    <2> QED  BY <2>1, <2>2, <2>3
  <1>2. \/ Exit(p) \/ UNCHANGED journalVars \/ JOpen(p)
        \/ \E c, note : JReserve(p, c, note)
        \/ \E t, n, note : JAuthorize(p, t, n, note) \/ JAbort(p, t, note)
    BY Zenon DEF RunnerStep, KeyedStep, PrefixStep, Commits, Authorize, AuthorizeRaised, Drift,
       Aborted, Raised, SessionKilled, Finish, Crash, KeyedStart, ChainedLoad, ArmsLoad, PluginLoad,
       Loaded, ChainedReserve, ArmsReserve, PluginReserve, NextReserve, Reserve, Abort, Export,
       LedgerAppend, ChainedFails, ArmsInvalid, PluginRefuses, KeyedWrites, WriteRollouts, Sync,
       Prepare, Unusable, Refuses, PilotStart, BlockStart, AgentStart, PilotOpen, PilotInitial,
       PilotLoad, BlockLoad, Resumed, PilotPauses, PilotUnprepared, PilotReserve, PilotRefuses,
       PilotCheckpoint, AgentFresh, AgentLoad, AgentUnprepared, AgentReserve, AgentRefuses,
       AgentCheckpoint, CellCheckpoint, Checkpoint
  <1>3. jdisk' = jdisk /\ NoCommit
    BY <1>2, CallsKeep DEF Exit
  <1> QED  BY <1>1, <1>3, SpendKept

\* A session starts: nothing was committed for its cell.
LEMMA StartSpends ==
  ASSUME IInv, SpendInv, NEW p \in Proc, StartSession(p)
  PROVE  SpendInv'
  <1> DEFINE c == job[p].cell
  <1>1. /\ At(p, "authorizing") /\ jstep = "idle" /\ UNCHANGED journalVars
        /\ sessions' = [sessions EXCEPT ![c] = @ + 1] /\ live' = live \cup {c}
        /\ cost' = [cost EXCEPT ![c] = MaxCost]
    BY DEF StartSession, JReady
  <1>2. c \in Run /\ sessions[c] = 0 /\ sessions \in [Run -> Nat]
    BY <1>1 DEF IInv, JobOK, AuthorizingOK, SessionsOK, At, OnCell
  <1>3. /\ cost' \in [Run -> 0 .. MaxCost] /\ sessions'[c] = 1
        /\ \A x \in Run : x # c => sessions'[x] = sessions[x] /\ cost'[x] = cost[x]
    BY <1>1, <1>2 DEF SpendInv
  <1>4. \A e : Priced(e) => Priced(e)'
    BY <1>1, <1>2, <1>3 DEF Priced
  <1> QED  BY <1>1, <1>3, <1>4 DEF SpendInv, journalVars

\* What a session cost is committed once it is over.
LEMMA CommitSpends ==
  ASSUME IInv, RowsInv, SpendInv, NEW p \in Proc, Commits(p)
  PROVE  SpendInv'
  <1>1. /\ UNCHANGED <<jdisk, sessions, cost, live>> /\ job[p].pc \in Paying
        /\ job[p].cell \in Run \ live
        /\ jevent' = EventOf("committed", job[p].tx, jdisk[job[p].tx].run,
                             cost[job[p].cell], {})
    BY CommitShape
  <1>2. jdisk[job[p].tx].run = job[p].cell /\ sessions[job[p].cell] >= 1
    BY <1>1 DEF RowsInv, TxOK, PayingTx, Known
  <1>3. /\ jevent'.run \in Run \ live' /\ sessions'[jevent'.run] >= 1
        /\ jevent'.cost = cost'[jevent'.run]
    BY <1>1, <1>2 DEF EventOf
  <1> QED  BY <1>1, <1>3 DEF SpendInv, Priced

\* It ends: no commit says yet what it cost.
LEMMA EndSpends ==
  ASSUME LiveOK, SpendInv, NEW c \in Run, SessionEnds(c)
  PROVE  SpendInv'
  <1>1. /\ c \in live /\ live' = live \ {c} /\ UNCHANGED <<journalVars, sessions>>
        /\ \E amount \in 0 .. MaxCost : cost' = [cost EXCEPT ![c] = amount]
    BY DEF SessionEnds
  <1>2. cost' \in [Run -> 0 .. MaxCost] /\ \A x \in Run : x # c => cost'[x] = cost[x]
    BY <1>1 DEF SpendInv
  <1>3. \A e : Priced(e) => Priced(e)'
    BY <1>1, <1>2 DEF Priced
  <1>4. \A x \in Run : sessions'[x] = 0 => cost'[x] = 0
    BY <1>1, <1>2 DEF LiveOK, SpendInv
  <1> QED  BY <1>1, <1>2, <1>3, <1>4 DEF SpendInv, journalVars

\* The append moves on.
LEMMA WorkSpends ==
  ASSUME IInv, SpendInv, JournalWork
  PROVE  SpendInv'
  <1>1. JWork /\ UNCHANGED <<sessions, cost, live>>
    BY DEF JournalWork, money
  <1>2. CASE JWrite \/ JSync \/ JFail
    BY <1>1, <1>2, SpendKept DEF JWrite, JSync, JFail, NoCommit
  <1>3. CASE JReplace
    <2>1. /\ jmem = jdisk /\ Pending1 /\ jdisk \in Seq(AnyEvent)
          /\ jstep = "replace" /\ jstep' = "sync"
      BY <1>3, JournalAssumption DEF IInv, JInv, JReplace, Sound
    <2>2. CASE jevent = Creation
      BY <1>1, <1>3, <2>1, <2>2, SpendKept DEF JReplace, Appended, NoCommit
    <2>3. CASE jevent # Creation
      <3>1. jevent \in AnyEvent /\ jdisk' = Append(jdisk, jevent)
        BY <1>3, <2>1, <2>3 DEF Pending1, JReplace, Appended
      <3>2. \A i \in DOMAIN jdisk' : \/ i \in DOMAIN jdisk /\ jdisk'[i] = jdisk[i]
                                     \/ jdisk'[i] = jevent
        BY <2>1, <3>1
      <3> QED  BY <1>1, <2>1, <3>2 DEF SpendInv, Priced
    <2> QED  BY <2>2, <2>3
  <1> QED  BY <1>1, <1>2, <1>3 DEF JWork

LEMMA PowerLossSpends ==
  ASSUME IInv, SpendInv, PowerLoss
  PROVE  SpendInv'
  <1>1. JPowerLoss /\ live' = {} /\ UNCHANGED <<sessions, cost>> /\ jstep' = "idle"
    BY DEF PowerLoss, JPowerLoss
  <1>2. \A i \in DOMAIN jdisk' : i \in DOMAIN jdisk /\ jdisk'[i] = jdisk[i]
    <2>1. Sound(jdisk) /\ IsPrefixOf(jsynced, jdisk)
      BY DEF IInv, JInv
    <2>2. PICK n \in Len(jsynced) .. Len(jdisk) : jdisk' = SubSeq(jdisk, 1, n)
      BY <1>1 DEF JPowerLoss
    <2>3. n \in 0 .. Len(jdisk) /\ jdisk \in Seq(AnyEvent)
      BY <2>1, <2>2, PrefixFacts DEF Sound
    <2> QED  BY <2>2, <2>3
  <1> QED  BY <1>1, <1>2 DEF SpendInv, Priced

LEMMA SpendInit == Init => SpendInv
  <1>1. DOMAIN << >> = {}
    OBVIOUS
  <1> QED  BY <1>1 DEF Init, JInit, SpendInv

LEMMA SpendStep == IInv /\ RowsInv /\ AccountsInv /\ SpendInv /\ [Next]_vars => SpendInv'
  <1> SUFFICES ASSUME IInv, RowsInv, LiveOK, SpendInv, [Next]_vars
               PROVE  SpendInv'
    BY DEF AccountsInv
  <1>1. ASSUME NEW p \in Proc, RunnerStep(p)
        PROVE  SpendInv'
    BY <1>1, RunnerSpends, StartSpends, CommitSpends
  <1>2. CASE InspectJournal
    BY <1>2, SpendKept DEF InspectJournal, JInspect, money, NoCommit
  <1>3. CASE UNCHANGED vars
    BY <1>3, SpendKept DEF vars, journalVars, money, NoCommit
  <1> QED  BY <1>1, <1>2, <1>3, EndSpends, WorkSpends, PowerLossSpends DEF Next

LEMMA Spends == Spec => []SpendInv
  BY SpendInit, SpendStep, Accounts, PTL DEF Spec

\* The transaction of the journal that pays for cell c.
Payment(c) == CHOOSE t \in Transactions(jsynced) :
    jsynced[t].run = c /\ State(jsynced, t) \in {"request_authorized", "committed"}

LEMMA CellPaid ==
  ASSUME IInv, SpendInv, NEW c \in Run, sessions[c] >= 1
  PROVE  /\ Payment(c) \in Transactions(jsynced) /\ jsynced[Payment(c)].run = c
         /\ cost[c] <= Charge(jsynced, Payment(c))
  <1> DEFINE d == jsynced
             t == Payment(c)
  <1>1. /\ Sound(d) /\ Replays(d)
        /\ \A i \in DOMAIN d : i \in DOMAIN jdisk /\ jdisk[i] = d[i]
    BY SyncedSound, PrefixFacts DEF IInv, JInv
  <1>2. PICK i \in DOMAIN d : d[i].action = "request_authorized" /\ d[i].run = c
    BY DEF IInv, SessionsOK, Paid
  <1>3. /\ d[i].tx \in Transactions(d) /\ d[d[i].tx].run = c
        /\ State(d, d[i].tx) \in {"request_authorized", "committed"}
    BY <1>1, <1>2, StateFacts DEF Sound, TxEarlier
  <1>4. /\ t \in Transactions(d) /\ d[t].run = c
        /\ State(d, t) \in {"request_authorized", "committed"}
    BY <1>3 DEF Payment
  <1>5. cost[c] \in 0 .. MaxCost
    BY DEF SpendInv
  <1> HIDE DEF t
  <1>6. CASE State(d, t) = "request_authorized"
    <2>1. Charge(d, t) = MaxCost
      BY <1>1, <1>6, ChargeFacts
    <2> QED  BY <1>4, <1>5, <2>1, JournalAssumption DEF t
  <1>7. CASE State(d, t) = "committed"
    <2>1. PICK k \in DOMAIN d : d[k].tx = t /\ d[k].action = "committed"
      BY <1>7 DEF State, Has
    <2>2. Charge(d, t) = d[k].cost /\ d[k].run = c
      BY <1>1, <1>4, <2>1, ChargeFacts DEF Sound, TxEarlier
    <2>3. d[k].cost = cost[c]
      BY <1>1, <2>1, <2>2 DEF SpendInv, Priced
    <2> QED  BY <1>4, <1>5, <2>2, <2>3 DEF t
  <1> QED  BY <1>4, <1>6, <1>7

\* What the cells cost in all is covered, and so within the authority.
LEMMA SpendAccounted == IInv /\ SpendInv => SpendCovered /\ SumOver(cost, Run) <= Total
  <1> SUFFICES ASSUME IInv, SpendInv
               PROVE  SpendCovered /\ SumOver(cost, Run) <= Total
    OBVIOUS
  <1> DEFINE T == Transactions(jsynced)
             S == {c \in Run : sessions[c] >= 1}
             w == [t \in T |-> Charge(jsynced, t)]
             f == [c \in S |-> Payment(c)]
  <1>1. Sound(jsynced) /\ Replays(jsynced) /\ jsynced \in Seq(AnyEvent)
    BY SyncedSound DEF IInv, Sound
  <1>2. IsFiniteSet(Run) /\ IsFiniteSet(S) /\ IsFiniteSet(T)
    BY <1>1, TransactionsFinite, FS_Subset, RunnerAssumption
  <1>3. Exposure(jsynced) = SumOver(w, T) /\ Exposure(jsynced) <= Total
    BY <1>1, ExposureIs, ReplaysWithin
  <1>4. \A t \in T : w[t] \in Nat
    BY <1>1, ChargeFacts
  <1>5. \A c \in Run : cost[c] \in Nat /\ (c \notin S => cost[c] = 0)
    <2> SUFFICES ASSUME NEW c \in Run
                 PROVE  cost[c] \in Nat /\ (c \notin S => cost[c] = 0)
      OBVIOUS
    <2>1. cost[c] \in 0 .. MaxCost /\ sessions[c] \in Nat
      BY DEF SpendInv, IInv, SessionsOK
    <2>2. cost[c] \in Nat
      BY <2>1, JournalAssumption
    <2>3. ASSUME c \notin S
          PROVE  sessions[c] = 0
      BY <2>1, <2>3
    <2> QED  BY <2>2, <2>3 DEF SpendInv
  <1>6. \A c \in S : f[c] \in T /\ cost[c] <= w[f[c]] /\ jsynced[f[c]].run = c
    BY CellPaid
  <1>7. SumOver(cost, S) <= SumOver(w, T)
    <2>1. \A x, y \in S : f[x] = f[y] => x = y
      <3> SUFFICES ASSUME NEW x \in S, NEW y \in S, f[x] = f[y]
                   PROVE  x = y
        OBVIOUS
      <3>1. jsynced[f[x]].run = x /\ jsynced[f[y]].run = y
        BY <1>6
      <3> HIDE DEF f, S, T, w
      <3> QED  BY <3>1
    <2>2. \A c \in S : cost[c] \in Nat
      BY <1>5
    <2> HIDE DEF S, T, w, f
    <2> QED  BY <1>2, <1>4, <1>6, <2>1, <2>2, SumCovered
  <1>8. SumOver(cost, Run) = SumOver(cost, S)
    <2>1. Run \cap S = S
      OBVIOUS
    <2> HIDE DEF S
    <2>2. SumOver(cost, Run) = SumOver(cost, Run \cap S)
      BY <1>2, <1>5, SumOfWorth
    <2> QED  BY <2>1, <2>2
  <1>9. MapThenSumSet(LAMBDA c : cost[c], Run) = SumOver(cost, Run)
    BY DEF SumOver
  <1>10. SumOver(cost, S) \in Nat /\ SumOver(w, T) \in Nat
    <2>1. \A c \in S : cost[c] \in Nat
      BY <1>5
    <2> HIDE DEF S, T, w, f
    <2> QED  BY <1>2, <1>4, <2>1, SumTyped
  <1> HIDE DEF S, T, w, f
  <1> QED  BY <1>3, <1>7, <1>8, <1>9, <1>10 DEF SpendCovered

\* What the provider may have charged is in the journal, also after a power loss, and
\* within what its authority allows (reserve and authorize_request before the child
\* process of a cell is spawned, an attempt counted at its maximum until commit).
THEOREM SpendIsCovered == Spec => []SpendCovered
  BY SpendAccounted, Spends, Invariance, PTL

-----------------------------------------------------------------------------
(* Types.  What is left is the journal, what a runner remembers and the form *)
(* of the files.  A store is a set of attempts, never NoArchive: what an     *)
(* attempt imports is the archive of a cell that is done, and a cell of a    *)
(* chain is done only after its archive was written.                         *)

JobFits(p) ==
    /\ job[p].tx \in 0 .. MaxRevision + 1 /\ (job[p].pc \in OnTx => job[p].tx >= 1)
    /\ job[p].store \subseteq Run

\* A chained runner beyond the export of its cell's store.
ArchivedOK(p) == kind = "chained" /\ job[p].pc \in {"exported", "ledgered", "committing"} =>
    archive[job[p].dir][job[p].cell] \subseteq Run

RowsArchived == kind = "chained" =>
    \A d \in Dir : \A i \in DOMAIN checkpoint[d] :
        checkpoint[d][i].cell # 0 => archive[d][checkpoint[d][i].cell] \subseteq Run

CheckpointTyped ==
    /\ checkpoint \in [Dir -> Seq(RowType)] /\ kept \in [Dir -> Nat]
    /\ \A d \in Dir : kept[d] <= Len(checkpoint[d])

FilesTyped ==
    /\ left \in [Run -> Left] /\ opened \subseteq Dir /\ artifacts \in [Dir -> SUBSET Run]
    /\ archive \in [Dir -> [Run -> (SUBSET Run) \cup {NoArchive}]]
    /\ ledger \in [Dir -> Seq(LedgerType)]

TypesInv ==
    /\ JTypes /\ CheckpointTyped /\ FilesTyped /\ RowsArchived
    /\ \A p \in Proc : JobFits(p) /\ ArchivedOK(p)

\* Which step of a runner writes which file, and which moves it how.
Reserves(p) ==
    \/ ChainedReserve(p) \/ ArmsReserve(p) \/ PluginReserve(p)
    \/ PilotReserve(p) \/ AgentReserve(p)
Writes(p) ==
    \/ KeyedWrites(p) \/ ArmsInvalid(p)
    \/ PilotInitial(p) \/ PilotCheckpoint(p) \/ AgentCheckpoint(p)
Opens(p) == \E d \in Dir : PilotStart(p, d) \/ BlockStart(p, d)

LEMMA WhoWrites ==
  ASSUME NEW p \in Proc, RunnerStep(p)
  PROVE  /\ kind' = kind
         /\ Writes(p) \/ checkpoint' = checkpoint
         /\ Sync(p) \/ kept' = kept
         /\ LedgerAppend(p) \/ ChainedFails(p) \/ ledger' = ledger
         /\ Export(p) \/ archive' = archive
         /\ Opens(p) \/ AgentFresh(p) \/ opened' = opened
         /\ Prepare(p) \/ artifacts' = artifacts
         /\ SessionKilled(p) \/ left' = left
  <1>1. CASE KeyedStep(p)
    BY <1>1, Zenon DEF KeyedStep, Writes, KeyedStart, ChainedLoad, ArmsLoad, PluginLoad, Loaded,
       ChainedReserve, ArmsReserve, PluginReserve, NextReserve, Reserve, Export, LedgerAppend,
       ChainedFails, ChainedCommit, ArmsCommit, PluginCommit, Commit, ArmsInvalid,
       PluginRefuses, KeyedWrites, WriteRollouts, money, files
  <1>2. CASE PrefixStep(p)
    BY <1>2, Zenon DEF PrefixStep, Writes, Opens, Sync, Prepare, Unusable, Refuses, PilotStart,
       BlockStart, AgentStart, PilotOpen, PilotInitial, PilotLoad, BlockLoad, Resumed,
       PilotPauses, PilotUnprepared, PilotReserve, Reserve, PilotCommit, Commit, PilotRefuses,
       PilotCheckpoint, AgentFresh, AgentLoad, AgentUnprepared, AgentReserve, AgentCommit,
       AgentRefuses, AgentCheckpoint, CellCheckpoint, Checkpoint, money, files
  <1>3. CASE ~KeyedStep(p) /\ ~PrefixStep(p)
    BY <1>3, Zenon DEF RunnerStep, Authorize, AuthorizeRaised, Drift, Abort, Aborted, Raised,
       StartSession, SessionKilled, Finish, Crash, money, files
  <1> QED  BY <1>1, <1>2, <1>3

\* What an attempt imports is a set of attempts.
LEMMA ImportsAttempts ==
  ASSUME IInv, CheckpointTyped, RowsArchived, kind = "chained", NEW d \in Dir,
         Remaining(d) # {}
  PROVE  Import(d, NextCell(d)) \subseteq Run
  <1> DEFINE c == NextCell(d)
  <1>1. c \in Run /\ \A x \in 1 .. c - 1 : x \in Done(d)
    BY NextCellLeft DEF IInv, FilesOK
  <1> HIDE DEF c
  <1>2. CASE c = 1
    BY <1>2 DEF Import, c
  <1>3. CASE c # 1
    <2>1. c \in Nat \ {0}
      BY <1>1
    <2>2. c - 1 \in Done(d) /\ c - 1 # 0
      BY <1>1, <1>3, <2>1
    <2>3. PICK i \in DOMAIN checkpoint[d] : checkpoint[d][i].cell = c - 1
      BY <2>2 DEF Done, Rows
    <2>4. archive[d][c - 1] \subseteq Run
      BY <2>2, <2>3 DEF RowsArchived
    <2> QED  BY <1>3, <2>4 DEF Import, c
  <1> QED  BY <1>2, <1>3

\* A cell is reserved with what it imports, or the runner leaves.
LEMMA ReservesHow ==
  ASSUME IInv, CheckpointTyped, RowsArchived, NEW p \in Proc, Reserves(p)
  PROVE  Exit(p) \/ \E c \in Run, note \in SUBSET Run : Reserve(p, c, note)
  <1> DEFINE d == job[p].dir
  <1>1. job[p].pc \in Holding
    BY DEF Reserves, ChainedReserve, ArmsReserve, PluginReserve, NextReserve, PilotReserve,
           AgentReserve, At, Holding, Course
  <1>2. Remaining(d) # {}
    <2>1. At(p, "prepared") => Remaining(d) # {}
      BY DEF IInv, JobOK, PreparedOK
    <2> QED
      BY <2>1 DEF Reserves, ChainedReserve, ArmsReserve, PluginReserve, NextReserve,
                  PilotReserve, AgentReserve
  <1>3. d \in Dir /\ NextCell(d) \in Run
    BY <1>1, <1>2, Holder, NextCellLeft DEF IInv, FilesOK
  <1>4. kind = "chained" => Import(d, NextCell(d)) \in SUBSET Run
    BY <1>2, <1>3, ImportsAttempts
  <1>5. \/ Reserve(p, NextCell(d), {}) \/ Exit(p)
        \/ kind = "chained" /\ Reserve(p, NextCell(d), Import(d, NextCell(d)))
    BY DEF Reserves, ChainedReserve, ArmsReserve, PluginReserve, NextReserve, PilotReserve,
           AgentReserve, Refuses
  <1>6. {} \in SUBSET Run
    OBVIOUS
  <1> HIDE DEF d
  <1> QED  BY <1>3, <1>4, <1>5, <1>6

\* Every call of a runner is one the journal offers.
LEMMA RunnerCalls ==
  ASSUME IInv, CheckpointTyped, RowsArchived, NEW p \in Proc, RunnerStep(p)
  PROVE  JCall(p)
  <1>0. {} \in Note /\ SUBSET Run \subseteq Note
    OBVIOUS
  <1>1. \/ Exit(p) \/ UNCHANGED journalVars \/ JOpen(p) \/ Reserves(p) \/ Commits(p)
        \/ (\E t, n : JAuthorize(p, t, n, {})) \/ \E t : JAbort(p, t, {})
    BY Zenon DEF RunnerStep, KeyedStep, PrefixStep, Commits, Reserves, Authorize, AuthorizeRaised,
       Drift, Aborted, Raised, StartSession, SessionKilled, Finish, Crash, KeyedStart,
       ChainedLoad, ArmsLoad, PluginLoad, Loaded, Abort, Export, LedgerAppend, ChainedFails,
       ArmsInvalid, PluginRefuses, KeyedWrites, WriteRollouts, Sync, Prepare, Unusable, Refuses,
       PilotStart, BlockStart, AgentStart, PilotOpen, PilotInitial, PilotLoad, BlockLoad,
       Resumed, PilotPauses, PilotUnprepared, PilotRefuses, PilotCheckpoint, AgentFresh,
       AgentLoad, AgentUnprepared, AgentRefuses, AgentCheckpoint, CellCheckpoint, Checkpoint
  <1>2. Exit(p) => JCall(p)
    BY DEF Exit, JCall
  <1>3. CASE Reserves(p)
    <2>1. ASSUME NEW c \in Run, NEW note \in SUBSET Run, Reserve(p, c, note)
          PROVE  JCall(p)
      BY <1>0, <2>1 DEF Reserve, JCall
    <2> QED  BY <1>2, <1>3, <2>1, ReservesHow
  <1>4. CASE Commits(p)
    <2>1. JCommit(p, job[p].tx, cost[job[p].cell], {}) /\ job[p].pc \in OnCell
      BY <1>4 DEF Commits, ChainedCommit, ArmsCommit, PluginCommit, PilotCommit, AgentCommit,
                  Commit, At, OnCell
    <2>2. job[p].cell \in Run
      BY <2>1, Holder DEF OnCell, Holding, Course
    <2>3. cost[job[p].cell] \in Int
      BY <2>2 DEF IInv, SessionsOK
    <2> QED  BY <1>0, <2>1, <2>3 DEF JCall
  <1>5. UNCHANGED journalVars \/ JOpen(p) => JCall(p)
    BY DEF JCall
  <1>6. (\E t, n : JAuthorize(p, t, n, {})) \/ (\E t : JAbort(p, t, {})) => JCall(p)
    BY <1>0 DEF JCall
  <1> QED  BY <1>1, <1>2, <1>3, <1>4, <1>5, <1>6

\* The journal keeps its types.
LEMMA JournalTypes ==
  ASSUME IInv, IInv', JTypes, CheckpointTyped, RowsArchived, [Next]_vars
  PROVE  JTypes'
  <1>1. ASSUME NEW p \in Proc, RunnerStep(p)
        PROVE  JTypes'
    BY <1>1, RunnerCalls, JCallTyped DEF IInv
  <1>2. CASE JournalWork
    BY <1>2, JWorkTyped DEF JournalWork, IInv
  <1>3. CASE PowerLoss
    BY <1>3, JPowerLossTyped DEF PowerLoss, IInv
  <1>4. CASE InspectJournal
    BY <1>4, JInspectTyped DEF InspectJournal
  <1>5. (\E c \in Run : SessionEnds(c)) \/ UNCHANGED vars => UNCHANGED journalVars
    BY DEF SessionEnds, vars
  <1>6. UNCHANGED journalVars => JTypes'
    BY DEF JTypes, JTypeOK, journalVars
  <1> QED  BY <1>1, <1>2, <1>3, <1>4, <1>5, <1>6 DEF Next

\* How a step moves its runner.
Far == {"exported", "ledgered", "committing"}

Starts(p, d, pc) ==
    \/ \E resume \in BOOLEAN : Starting(p, d, pc, resume)
    \/ job' = [job EXCEPT ![p] = [Idle EXCEPT !.pc = pc, !.dir = d]]
GoesOn(p, pc) ==
    /\ Goto(p, pc) /\ job[p].pc \in OnTx /\ (At(p, "authorizing") => StartSession(p))
    /\ kind = "chained" /\ pc \in Far => Export(p) \/ job[p].pc \in Far

LEMMA WhoMoves ==
  ASSUME NEW p \in Proc, RunnerStep(p)
  PROVE  \/ UNCHANGED job \/ Exit(p) \/ Reserves(p) \/ Authorize(p)
         \/ \E pc \in Course \ OnCell : Goto(p, pc)
         \/ \E pc \in OnTx : GoesOn(p, pc)
         \/ \E d \in Dir, pc \in {"opening", "load"} : Starts(p, d, pc)
  <1> USE DEF OnTx, Paying, Far, At
  <1>0. {"next", "prepared", "syncing", "aborting", "load"} \subseteq Course \ OnCell
    BY DEF Course, OnCell
  <1>1. CASE Reserves(p) \/ Authorize(p)
    BY <1>1
  <1>2. CASE Commits(p)
    <2>1. /\ Goto(p, "committing") /\ job[p].pc \in Paying
          /\ kind = "chained" => job[p].pc \in Far
      BY <1>2 DEF Commits, ChainedCommit, ArmsCommit, PluginCommit, PilotCommit, AgentCommit,
                  Commit, Paired
    <2> QED  BY <2>1 DEF GoesOn
  <1>3. CASE StartSession(p) \/ Export(p) \/ LedgerAppend(p)
    BY <1>3 DEF StartSession, Export, LedgerAppend, GoesOn
  <1>4. CASE Opens(p) \/ \E d \in Dir : KeyedStart(p, d) \/ AgentStart(p, d)
    <2>1. \E d \in Dir, pc \in {"opening", "load"} : Starts(p, d, pc)
      BY <1>4, Zenon DEF Opens, PilotStart, BlockStart, KeyedStart, AgentStart, Starts
    <2> QED  BY <2>1
  <1>5. \/ Reserves(p) \/ Authorize(p) \/ Commits(p) \/ StartSession(p) \/ Export(p)
        \/ LedgerAppend(p) \/ Opens(p) \/ (\E d \in Dir : KeyedStart(p, d) \/ AgentStart(p, d))
        \/ UNCHANGED job \/ Exit(p)
        \/ \E pc \in {"next", "prepared", "syncing", "aborting", "load"} : Goto(p, pc)
    BY DEF RunnerStep, KeyedStep, PrefixStep, Commits, Reserves, Opens, AuthorizeRaised,
       Drift, Aborted, Raised, SessionKilled, Finish, Crash,
       ChainedLoad, ArmsLoad, PluginLoad, Loaded, Abort, ChainedFails,
       ArmsInvalid, PluginRefuses, KeyedWrites, WriteRollouts, Sync, Prepare, Unusable, Refuses,
       PilotOpen, PilotInitial, PilotLoad, BlockLoad,
       Resumed, PilotPauses, PilotUnprepared, PilotRefuses, PilotCheckpoint, AgentFresh,
       AgentLoad, AgentUnprepared, AgentRefuses, AgentCheckpoint, CellCheckpoint, Checkpoint
  <1> QED  BY <1>0, <1>1, <1>2, <1>3, <1>4, <1>5

\* One runner moves: the others are what they were, and it fits.
LEMMA StartFits ==
  ASSUME IInv, NEW p \in Proc, NEW pc \in {"opening", "load"}, NEW d \in Dir, Starts(p, d, pc)
  PROVE  /\ \A q \in Proc : q # p => job'[q] = job[q]
         /\ job'[p].pc = pc /\ job'[p].tx = 0 /\ job'[p].store = {}
  <1>1. ASSUME NEW resume \in BOOLEAN, Starting(p, d, pc, resume)
        PROVE  /\ \A q \in Proc : q # p => job'[q] = job[q]
               /\ job'[p].pc = pc /\ job'[p].tx = 0 /\ job'[p].store = {}
    <2> DEFINE j == [Idle EXCEPT !.pc = pc, !.dir = d, !.resume = resume]
    <2>1. job' = [job EXCEPT ![p] = j] /\ job \in [Proc -> JobTyped]
      BY <1>1 DEF Starting, IInv
    <2>2. j.pc = pc /\ j.tx = 0 /\ j.store = {}
      BY DEF Idle
    <2> HIDE DEF j
    <2> QED  BY <2>1, <2>2
  <1>2. CASE job' = [job EXCEPT ![p] = [Idle EXCEPT !.pc = pc, !.dir = d]]
    <2> DEFINE j == [Idle EXCEPT !.pc = pc, !.dir = d]
    <2>1. job' = [job EXCEPT ![p] = j] /\ job \in [Proc -> JobTyped]
      BY <1>2 DEF IInv
    <2>2. j.pc = pc /\ j.tx = 0 /\ j.store = {}
      BY DEF Idle
    <2> HIDE DEF j
    <2> QED  BY <2>1, <2>2
  <1> QED  BY <1>1, <1>2 DEF Starts

LEMMA ReserveFits ==
  ASSUME IInv, NEW p \in Proc, NEW c \in Run, NEW note \in SUBSET Run, Reserve(p, c, note)
  PROVE  /\ \A q \in Proc : q # p => job'[q] = job[q]
         /\ job'[p].pc = "reserving" /\ job'[p].tx = job[p].tx /\ job'[p].store = note
  <1> DEFINE j == [job[p] EXCEPT !.pc = "reserving", !.cell = c, !.store = note]
  <1>1. job \in [Proc -> JobTyped] /\ job[p] \in JobTyped
    BY DEF IInv
  <1>2. job' = [job EXCEPT ![p] = j]
    BY DEF Reserve
  <1>3. j.pc = "reserving" /\ j.tx = job[p].tx /\ j.store = note
    BY <1>1 DEF JobTyped
  <1> HIDE DEF j
  <1> QED  BY <1>1, <1>2, <1>3

LEMMA AuthorizeFits ==
  ASSUME IInv, JTypes, NEW p \in Proc, Authorize(p)
  PROVE  /\ \A q \in Proc : q # p => job'[q] = job[q]
         /\ job'[p].pc = "authorizing" /\ job'[p].tx \in 1 .. MaxRevision
         /\ job'[p].store = job[p].store
  <1>1. PICK t \in Live(jmem, job[p].cell) :
          job' = [job EXCEPT ![p].pc = "authorizing", ![p].tx = t]
    BY DEF Authorize
  <1>2. t \in 1 .. MaxRevision
    BY TransactionTyped DEF Live, JTypes, JTypeOK
  <1> DEFINE j == [job[p] EXCEPT !.pc = "authorizing", !.tx = t]
  <1>3. job \in [Proc -> JobTyped] /\ job[p] \in JobTyped
    BY DEF IInv
  <1>4. job' = [job EXCEPT ![p] = j]
    BY <1>1
  <1>5. j.pc = "authorizing" /\ j.tx = t /\ j.store = job[p].store
    BY <1>3 DEF JobTyped
  <1> HIDE DEF j
  <1> QED  BY <1>2, <1>3, <1>4, <1>5

LEMMA ExitFits ==
  ASSUME IInv, NEW p \in Proc, Exit(p)
  PROVE  /\ \A q \in Proc : q # p => job'[q] = job[q]
         /\ job'[p].pc = "idle" /\ job'[p].tx = 0 /\ job'[p].store = {}
  BY DEF IInv, Exit, Idle

LEMMA JobsFit ==
  ASSUME IInv, TypesInv, NEW p \in Proc, RunnerStep(p)
  PROVE  \A q \in Proc : JobFits(q)'
  <1>0. /\ JTypes /\ CheckpointTyped /\ RowsArchived /\ MaxRevision \in Nat
        /\ \A q \in Proc : JobFits(q)
    BY DEF TypesInv
  <1>1. ASSUME \A q \in Proc : q # p => job'[q] = job[q],
               job'[p].tx \in 0 .. MaxRevision + 1, job'[p].store \subseteq Run,
               job'[p].pc \in OnTx => job'[p].tx >= 1
        PROVE  \A q \in Proc : JobFits(q)'
    BY <1>0, <1>1 DEF JobFits
  <1>2. UNCHANGED job => \A q \in Proc : JobFits(q)'
    BY <1>0 DEF JobFits
  <1>3. CASE Exit(p)
    BY <1>0, <1>1, <1>3, ExitFits DEF OnTx, Paying
  <1>4. CASE Reserves(p)
    <2>1. ASSUME NEW c \in Run, NEW note \in SUBSET Run, Reserve(p, c, note)
          PROVE  \A q \in Proc : JobFits(q)'
      <3>1. /\ \A q \in Proc : q # p => job'[q] = job[q]
            /\ job'[p].pc = "reserving" /\ job'[p].tx = job[p].tx /\ job'[p].store = note
        BY <2>1, ReserveFits
      <3> QED  BY <1>0, <1>1, <3>1 DEF JobFits, OnTx, Paying
    <2> QED  BY <1>0, <1>3, <1>4, <2>1, ReservesHow
  <1>5. CASE Authorize(p)
    <2>1. /\ \A q \in Proc : q # p => job'[q] = job[q]
          /\ job'[p].tx \in 1 .. MaxRevision /\ job'[p].store = job[p].store
      BY <1>0, <1>5, AuthorizeFits
    <2> QED  BY <1>0, <1>1, <2>1 DEF JobFits
  <1>6. ASSUME NEW pc \in Course, Goto(p, pc), pc \in OnTx => job[p].pc \in OnTx
        PROVE  \A q \in Proc : JobFits(q)'
    <2>1. /\ \A q \in Proc : q # p => job'[q] = job[q]
          /\ job'[p].pc = pc /\ job'[p].tx = job[p].tx /\ job'[p].store = job[p].store
      BY <1>6, GotoStore
    <2> QED  BY <1>0, <1>1, <1>6, <2>1 DEF JobFits
  <1>7. ASSUME NEW pc \in {"opening", "load"}, NEW d \in Dir, Starts(p, d, pc)
        PROVE  \A q \in Proc : JobFits(q)'
    <2>1. /\ \A q \in Proc : q # p => job'[q] = job[q]
          /\ job'[p].pc = pc /\ job'[p].tx = 0 /\ job'[p].store = {}
      BY <1>7, StartFits
    <2>2. 0 \in 0 .. MaxRevision + 1 /\ pc \notin OnTx
      BY <1>0 DEF OnTx, Paying
    <2> QED  BY <1>1, <2>1, <2>2
  <1>8. OnTx \subseteq Course
    BY DEF OnTx, Paying, Course
  <1>9. ASSUME NEW pc \in OnTx, GoesOn(p, pc)
        PROVE  \A q \in Proc : JobFits(q)'
    BY <1>6, <1>8, <1>9 DEF GoesOn
  <1>10. ASSUME NEW pc \in Course \ OnCell, Goto(p, pc)
         PROVE  \A q \in Proc : JobFits(q)'
    <2>1. pc \notin OnTx
      BY DEF OnTx, Paying, OnCell
    <2> QED  BY <1>6, <1>10, <2>1
  <1> QED  BY <1>2, <1>3, <1>4, <1>5, <1>7, <1>9, <1>10, WhoMoves

\* What a chained runner exports is a set of attempts, and stays one.
LEMMA ArchivesKept ==
  ASSUME IInv, FilesTyped, NEW p \in Proc, RunnerStep(p), JobFits(p)
  PROVE  /\ archive' \in [Dir -> [Run -> (SUBSET Run) \cup {NoArchive}]]
         /\ \A d \in Dir, c \in Run : archive[d][c] \subseteq Run => archive'[d][c] \subseteq Run
         /\ Export(p) => archive'[job[p].dir][job[p].cell] \subseteq Run
  <1> DEFINE Store == (SUBSET Run) \cup {NoArchive}
             d == job[p].dir
             c == job[p].cell
  <1>1. archive \in [Dir -> [Run -> Store]]
    BY DEF FilesTyped
  <1>2. CASE Export(p)
    <2>1. d \in Dir /\ c \in Run
      BY <1>2, Holder DEF Export, At, Holding, Course, OnCell
    <2>2. PICK store \in SUBSET (job[p].store \cup {c}) :
            archive' = [archive EXCEPT ![d][c] = store]
      BY <1>2 DEF Export
    <2>3. store \in SUBSET Run /\ store \in Store
      BY <2>1, <2>2 DEF JobFits
    <2> DEFINE a == [archive[d] EXCEPT ![c] = store]
    <2>4. archive[d] \in [Run -> Store]
      BY <1>1, <2>1
    <2> HIDE DEF Store, d, c
    <2>5. a \in [Run -> Store] /\ a[c] = store /\ \A x \in Run : x # c => a[x] = archive[d][x]
      BY <2>1, <2>3, <2>4
    <2>6. archive' = [archive EXCEPT ![d] = a]
      BY <2>2
    <2> HIDE DEF a
    <2>7. /\ archive' \in [Dir -> [Run -> Store]] /\ archive'[d] = a
          /\ \A e \in Dir : e # d => archive'[e] = archive[e]
      BY <1>1, <2>1, <2>5, <2>6
    <2>8. \A e \in Dir, x \in Run : archive[e][x] \subseteq Run => archive'[e][x] \subseteq Run
      BY <2>3, <2>5, <2>7
    <2> QED  BY <2>3, <2>5, <2>7, <2>8 DEF Store, d, c
  <1>3. CASE archive' = archive /\ ~Export(p)
    BY <1>1, <1>3
  <1> QED  BY <1>2, <1>3, WhoWrites

LEMMA ArchivesStay ==
  ASSUME IInv, TypesInv, NEW p \in Proc, RunnerStep(p)
  PROVE  \A q \in Proc : ArchivedOK(q)'
  <1>0. FilesTyped /\ JobFits(p) /\ (\A q \in Proc : ArchivedOK(q)) /\ kind' = kind
    BY WhoWrites DEF TypesInv
  <1>1. /\ \A d \in Dir, c \in Run : archive[d][c] \subseteq Run => archive'[d][c] \subseteq Run
        /\ Export(p) => archive'[job[p].dir][job[p].cell] \subseteq Run
    BY <1>0, ArchivesKept
  <1>2. ASSUME NEW q \in Proc, job'[q].pc \in Far => job[q].pc \in Far /\
               job'[q].dir = job[q].dir /\ job'[q].cell = job[q].cell
        PROVE  ArchivedOK(q)'
    <2>1. job[q].pc \in Far => job[q].dir \in Dir /\ job[q].cell \in Run
      BY Holder DEF Far, Holding, Course, OnCell
    <2> QED  BY <1>0, <1>1, <1>2, <2>1 DEF ArchivedOK, Far
  <1>3. ASSUME \A q \in Proc : q # p => job'[q] = job[q]
        PROVE  \A q \in Proc : q # p => ArchivedOK(q)'
    BY <1>2, <1>3
  <1>4. UNCHANGED job => \A q \in Proc : ArchivedOK(q)'
    BY <1>2
  <1>5. ASSUME \A q \in Proc : q # p => job'[q] = job[q], job'[p].pc \notin Far
        PROVE  \A q \in Proc : ArchivedOK(q)'
    BY <1>2, <1>5
  <1>6. CASE Exit(p)
    BY <1>5, <1>6, ExitFits DEF Far
  <1>7. CASE Reserves(p)
    <2>1. ASSUME NEW c \in Run, NEW note \in SUBSET Run, Reserve(p, c, note)
          PROVE  \A q \in Proc : ArchivedOK(q)'
      BY <1>5, <2>1, ReserveFits DEF Far
    <2> QED  BY <1>6, <1>7, <2>1, ReservesHow DEF TypesInv
  <1>8. CASE Authorize(p)
    BY <1>5, <1>8, AuthorizeFits DEF Far, TypesInv
  <1>9. ASSUME NEW pc \in Course, Goto(p, pc),
               kind = "chained" /\ pc \in Far => Export(p) \/ job[p].pc \in Far
        PROVE  \A q \in Proc : ArchivedOK(q)'
    <2>1. /\ \A q \in Proc : q # p => job'[q] = job[q]
          /\ job'[p].pc = pc /\ job'[p].cell = job[p].cell /\ job'[p].dir = job[p].dir
      BY <1>9, GotoStore
    <2>2. CASE kind = "chained" /\ pc \in Far /\ Export(p)
      BY <1>1, <1>3, <2>1, <2>2 DEF ArchivedOK
    <2>3. CASE kind # "chained"
      BY <1>0, <2>3 DEF ArchivedOK
    <2>4. CASE pc \notin Far
      BY <1>5, <2>1, <2>4
    <2>5. CASE job[p].pc \in Far
      BY <1>2, <1>3, <2>1, <2>5
    <2> QED  BY <1>9, <2>2, <2>3, <2>4, <2>5
  <1>10. ASSUME NEW pc \in {"opening", "load"}, NEW d \in Dir, Starts(p, d, pc)
         PROVE  \A q \in Proc : ArchivedOK(q)'
    <2>1. (\A q \in Proc : q # p => job'[q] = job[q]) /\ job'[p].pc = pc
      BY <1>10, StartFits
    <2> QED  BY <1>5, <2>1 DEF Far
  <1>11. OnTx \subseteq Course /\ Far \subseteq OnTx
    BY DEF OnTx, Paying, Course, Far
  <1>12. ASSUME NEW pc \in OnTx, GoesOn(p, pc)
         PROVE  \A q \in Proc : ArchivedOK(q)'
    BY <1>9, <1>11, <1>12 DEF GoesOn
  <1>13. ASSUME NEW pc \in Course \ OnCell, Goto(p, pc)
         PROVE  \A q \in Proc : ArchivedOK(q)'
    <2>1. pc \notin Far
      BY DEF Far, OnCell
    <2> QED  BY <1>9, <1>13, <2>1
  <1> QED  BY <1>4, <1>6, <1>7, <1>8, <1>10, <1>12, <1>13, WhoMoves

\* A row that is written has its type, and in a chain its archive is written too.
LEMMA RowIs ==
  ASSUME NEW c \in Run \cup {0}, NEW t \in 0 .. MaxRevision + 1, NEW amount \in 0 .. MaxCost,
         NEW scored \in BOOLEAN, NEW head \in Seq(Event)
  PROVE  Row(c, t, amount, scored, head) \in RowType /\ Row(c, t, amount, scored, head).cell = c
  BY DEF Row, RowType

LEMMA WritesRow ==
  ASSUME IInv, SpendInv, TypesInv, NEW p \in Proc, Writes(p)
  PROVE  /\ job[p].dir \in Dir /\ UNCHANGED <<kept, archive>>
         /\ \E row \in RowType :
               /\ checkpoint' = [checkpoint EXCEPT ![job[p].dir] = Append(@, row)]
               /\ kind = "chained" /\ row.cell # 0 => archive[job[p].dir][row.cell] \subseteq Run
  <1> DEFINE c == job[p].cell
             t == job[p].tx
             d == job[p].dir
             amount == cost[c]
             Wrote(row) == checkpoint' = [checkpoint EXCEPT ![d] = Append(@, row)]
  <1>1. d \in Dir /\ UNCHANGED <<kept, archive>>
    <2>1. job[p].pc \in Holding
      BY DEF Writes, KeyedWrites, WriteRollouts, ArmsInvalid, PilotInitial, PilotCheckpoint,
             AgentCheckpoint, CellCheckpoint, At, Holding, Course
    <2>2. UNCHANGED <<kept, archive>>
      BY DEF Writes, KeyedWrites, WriteRollouts, ArmsInvalid, PilotInitial, PilotCheckpoint,
             AgentCheckpoint, CellCheckpoint, Checkpoint
    <2> QED  BY <2>1, <2>2, Holder
  <1>2. /\ jmem \in Seq(Event) /\ << >> \in Seq(Event) /\ t \in 0 .. MaxRevision + 1
        /\ 0 \in 0 .. MaxRevision + 1 /\ 0 \in 0 .. MaxCost
    BY DEF TypesInv, JTypes, JTypeOK, JobFits
  <1>3. CASE PilotInitial(p)
    <2>1. Wrote(Row(0, 0, 0, TRUE, jmem)) /\ kind # "chained"
      BY <1>3 DEF PilotInitial, Checkpoint, Initial, Paired
    <2>2. Row(0, 0, 0, TRUE, jmem) \in RowType
      BY <1>2, RowIs
    <2> QED  BY <1>1, <2>1, <2>2
  <1>4. CASE KeyedWrites(p) \/ ArmsInvalid(p) \/ PilotCheckpoint(p) \/ AgentCheckpoint(p)
    <2>1. job[p].pc \in OnCell
      BY <1>4 DEF KeyedWrites, WriteRollouts, ArmsInvalid, PilotCheckpoint, AgentCheckpoint,
                  CellCheckpoint, At, OnCell
    <2>2. c \in Run /\ amount \in 0 .. MaxCost
      BY <2>1, Holder DEF SpendInv, OnCell, Holding, Course
    <2>3. \/ \E scored \in BOOLEAN : Wrote(Row(c, t, amount, scored, << >>))
          \/ Wrote(Row(c, t, amount, TRUE, jmem))
      BY <1>4 DEF KeyedWrites, WriteRollouts, ArmsInvalid, PilotCheckpoint, AgentCheckpoint,
                  CellCheckpoint, Checkpoint
    <2>4. PICK scored \in BOOLEAN, head \in Seq(Event) : Wrote(Row(c, t, amount, scored, head))
      BY <1>2, <2>3
    <2>5. kind = "chained" => archive[d][c] \subseteq Run
      <3>1. kind = "chained" => At(p, "committing")
        BY <1>4 DEF KeyedWrites, WriteRollouts, ArmsInvalid, PilotCheckpoint, AgentCheckpoint,
                    Paired
      <3> QED  BY <3>1 DEF TypesInv, ArchivedOK, At
    <2> DEFINE row == Row(c, t, amount, scored, head)
    <2>6. row \in RowType /\ row.cell = c
      <3>1. c \in Run \cup {0}
        BY <2>2
      <3> HIDE DEF c, t, amount
      <3> QED  BY <1>2, <2>2, <3>1, RowIs
    <2>7. Wrote(row)
      BY <2>4
    <2> HIDE DEF row, c, d
    <2> QED  BY <1>1, <2>5, <2>6, <2>7 DEF d
  <1> QED  BY <1>3, <1>4 DEF Writes

\* The checkpoints keep their types, and what they call done is archived.
LEMMA CheckpointStep ==
  ASSUME IInv, SpendInv, TypesInv, NEW p \in Proc, RunnerStep(p)
  PROVE  CheckpointTyped' /\ RowsArchived'
  <1> DEFINE d == job[p].dir
  <1>0. /\ checkpoint \in [Dir -> Seq(RowType)] /\ kept \in [Dir -> Nat]
        /\ \A e \in Dir : kept[e] <= Len(checkpoint[e])
        /\ FilesTyped /\ JobFits(p) /\ RowsArchived /\ kind' = kind
    BY WhoWrites DEF TypesInv, CheckpointTyped
  <1>1. \A e \in Dir, c \in Run : archive[e][c] \subseteq Run => archive'[e][c] \subseteq Run
    BY <1>0, ArchivesKept
  <1>2. \A e \in Dir : \A i \in DOMAIN checkpoint[e] : checkpoint[e][i].cell \in Run \cup {0}
    <2>1. \A r \in RowType : r.cell \in Run \cup {0}
      BY DEF RowType
    <2>2. \A e \in Dir : \A i \in DOMAIN checkpoint[e] : checkpoint[e][i] \in RowType
      BY <1>0
    <2> QED  BY <2>1, <2>2
  <1>3. CASE Writes(p)
    <2>1. PICK row \in RowType :
            /\ checkpoint' = [checkpoint EXCEPT ![d] = Append(@, row)]
            /\ kind = "chained" /\ row.cell # 0 => archive[d][row.cell] \subseteq Run
      BY <1>3, WritesRow
    <2>2. d \in Dir /\ UNCHANGED <<kept, archive>>
      BY <1>3, WritesRow
    <2> DEFINE s == checkpoint[d]
               n == Append(s, row)
    <2> HIDE DEF d
    <2>3. /\ checkpoint' \in [Dir -> Seq(RowType)]
          /\ \A e \in Dir : \A i \in DOMAIN checkpoint'[e] :
                \/ i \in DOMAIN checkpoint[e] /\ checkpoint'[e][i] = checkpoint[e][i]
                \/ e = d /\ checkpoint'[e][i] = row
      BY <1>0, <2>1, <2>2, LedgerGrows
    <2>4. \A e \in Dir : Len(checkpoint[e]) <= Len(checkpoint'[e])
      <3>1. checkpoint'[d] = n /\ \A e \in Dir : e # d => checkpoint'[e] = checkpoint[e]
        BY <1>0, <2>1, <2>2
      <3>2. s \in Seq(RowType)
        BY <1>0, <2>2
      <3> HIDE DEF s
      <3>3. Len(s) <= Len(n) /\ Len(s) \in Nat
        BY <3>2
      <3>4. \A e \in Dir : Len(checkpoint[e]) \in Nat
        BY <1>0
      <3> QED  BY <3>1, <3>3, <3>4 DEF s
    <2>5. \A e \in Dir : Len(checkpoint[e]) \in Nat /\ Len(checkpoint'[e]) \in Nat
                         /\ kept[e] \in Nat
      BY <1>0, <2>3
    <2>6. CheckpointTyped'
      BY <1>0, <2>2, <2>3, <2>4, <2>5 DEF CheckpointTyped
    <2>7. RowsArchived'
      BY <1>0, <2>1, <2>2, <2>3 DEF RowsArchived
    <2> QED  BY <2>6, <2>7
  <1>4. CASE checkpoint' = checkpoint
    <2>1. RowsArchived'
      BY <1>0, <1>1, <1>2, <1>4 DEF RowsArchived
    <2>2. CASE kept' = kept
      BY <1>0, <1>4, <2>1, <2>2 DEF CheckpointTyped
    <2>3. CASE Sync(p)
      <3>1. d \in Dir
        BY <2>3, Holder DEF Sync, At, Holding, Course
      <3>2. kept' = [kept EXCEPT ![d] = Len(checkpoint[d])]
        BY <2>3 DEF Sync
      <3> HIDE DEF d
      <3>3. \A e \in Dir : Len(checkpoint[e]) \in Nat
        BY <1>0
      <3>4. kept' \in [Dir -> Nat] /\ \A e \in Dir : kept'[e] <= Len(checkpoint[e])
        BY <1>0, <3>1, <3>2, <3>3
      <3> QED  BY <1>0, <1>4, <2>1, <3>4 DEF CheckpointTyped
    <2> QED  BY <2>1, <2>2, <2>3, WhoWrites
  <1> QED  BY <1>3, <1>4, WhoWrites

\* The other files.
LEMMA RecordStep ==
  ASSUME IInv, TypesInv, NEW p \in Proc, LedgerAppend(p) \/ ChainedFails(p)
  PROVE  ledger' \in [Dir -> Seq(LedgerType)]
  <1> DEFINE c == job[p].cell
             d == job[p].dir
             t == job[p].tx
             from == job[p].store
  <1>1. job[p].pc \in OnTx
    BY DEF LedgerAppend, ChainedFails, At, OnTx, Paying
  <1>2. c \in Run /\ d \in Dir
    BY <1>1, Holder DEF OnTx, Paying, OnCell, Holding, Course
  <1>3. t \in 1 .. MaxRevision + 1 /\ from \in SUBSET Run
    BY <1>1 DEF TypesInv, JobFits
  <1>4. /\ archive[d][c] \in (SUBSET Run) \cup {NoArchive}
        /\ NoArchive \in (SUBSET Run) \cup {NoArchive}
    <2> DEFINE Store == (SUBSET Run) \cup {NoArchive}
    <2>1. archive \in [Dir -> [Run -> Store]] /\ NoArchive \in Store
      BY DEF TypesInv, FilesTyped
    <2> HIDE DEF c, d, Store
    <2>2. archive[d] \in [Run -> Store]
      BY <1>2, <2>1
    <2>3. archive[d][c] \in Store
      BY <1>2, <2>2
    <2> QED  BY <2>1, <2>3 DEF Store
  <1>5. ledger \in [Dir -> Seq(LedgerType)]
    BY DEF TypesInv, FilesTyped
  <1>6. \/ ledger' = [ledger EXCEPT ![d] = Append(@, LedgerRow(c, t, from, archive[d][c]))]
        \/ ledger' = [ledger EXCEPT ![d] = Append(@, FailedAttempt(c, t, from))]
    BY DEF LedgerAppend, ChainedFails
  <1> DEFINE to == archive[d][c]
  <1> HIDE DEF t, from, to
  <1>7. LedgerRow(c, t, from, to) \in LedgerType /\ FailedAttempt(c, t, from) \in LedgerType
    <2> HIDE DEF c, d
    <2>1. to \in (SUBSET Run) \cup {NoArchive}
      BY <1>4 DEF to, c, d
    <2> QED  BY <1>2, <1>3, <1>4, <2>1 DEF LedgerRow, FailedAttempt, LedgerType
  <1> HIDE DEF c, d
  <1>8. CASE ledger' = [ledger EXCEPT ![d] = Append(@, LedgerRow(c, t, from, to))]
    BY <1>2, <1>5, <1>7, <1>8, LedgerGrows
  <1>9. CASE ledger' = [ledger EXCEPT ![d] = Append(@, FailedAttempt(c, t, from))]
    BY <1>2, <1>5, <1>7, <1>9, LedgerGrows
  <1> QED  BY <1>6, <1>8, <1>9 DEF to

LEMMA FilesStep ==
  ASSUME IInv, TypesInv, NEW p \in Proc, RunnerStep(p)
  PROVE  FilesTyped'
  <1>0. FilesTyped /\ JobFits(p)
    BY DEF TypesInv
  <1>1. archive' \in [Dir -> [Run -> (SUBSET Run) \cup {NoArchive}]]
    BY <1>0, ArchivesKept
  <1>2. ledger' \in [Dir -> Seq(LedgerType)]
    BY <1>0, RecordStep, WhoWrites DEF FilesTyped
  <1>3. left' \in [Run -> Left]
    BY <1>0, WhoWrites DEF FilesTyped, SessionKilled, Left
  <1>4. opened' \subseteq Dir
    <2>1. AgentFresh(p) => job[p].dir \in Dir
      BY Holder DEF AgentFresh, At, Holding, Course
    <2> QED  BY <1>0, <2>1, WhoWrites DEF FilesTyped, Opens, PilotStart, BlockStart, AgentFresh
  <1>5. artifacts' \in [Dir -> SUBSET Run]
    <2>1. CASE Prepare(p)
      <3> DEFINE d == job[p].dir
                 c == NextCell(d)
      <3>1. d \in Dir /\ c \in Run
        <4>1. d \in Dir /\ Remaining(d) # {}
          BY <2>1, Holder DEF Prepare, At, Holding, Course
        <4> QED  BY <4>1, NextCellLeft DEF IInv, FilesOK
      <3>2. artifacts' = artifacts \/ artifacts' = [artifacts EXCEPT ![d] = @ \cup {c}]
        BY <2>1 DEF Prepare
      <3> HIDE DEF d, c
      <3> QED  BY <1>0, <3>1, <3>2 DEF FilesTyped
    <2> QED  BY <1>0, <2>1, WhoWrites DEF FilesTyped
  <1> QED  BY <1>1, <1>2, <1>3, <1>4, <1>5 DEF FilesTyped

\* The power loss.
LEMMA PowerLossTypes ==
  ASSUME IInv, TypesInv, JTypes', PowerLoss
  PROVE  TypesInv'
  <1>1. /\ checkpoint \in [Dir -> Seq(RowType)] /\ kept \in [Dir -> Nat] /\ FilesTyped
    BY DEF TypesInv, CheckpointTyped
  <1>2. /\ checkpoint' \in [Dir -> Seq(RowType)] /\ kept' \in [Dir -> Nat]
        /\ \A d \in Dir : kept'[d] = Len(checkpoint'[d])
        /\ \A d \in Dir : \A i \in DOMAIN checkpoint'[d] :
              i \in DOMAIN checkpoint[d] /\ checkpoint'[d][i] = checkpoint[d][i]
    BY <1>1, PowerLossFiles
  <1>3. CheckpointTyped'
    <2>1. \A d \in Dir : kept'[d] \in Nat
      BY <1>2
    <2> QED  BY <1>2, <2>1 DEF CheckpointTyped
  <1>4. RowsArchived'
    BY <1>2 DEF PowerLoss, TypesInv, RowsArchived
  <1>5. FilesTyped'
    <2>1. ledger' \in [Dir -> Seq(LedgerType)]
      <3>1. << >> \in Seq(LedgerType)
        OBVIOUS
      <3> QED  BY <1>1, <3>1 DEF PowerLoss, FilesTyped
    <2>2. left' \in [Run -> Left]
      BY <1>1 DEF PowerLoss, FilesTyped, Left
    <2> QED  BY <1>1, <2>1, <2>2 DEF PowerLoss, FilesTyped
  <1>6. \A p \in Proc : JobFits(p)' /\ ArchivedOK(p)'
    <2>1. \A p \in Proc : job'[p] = Idle
      BY DEF PowerLoss
    <2>2. Idle.tx = 0 /\ Idle.pc = "idle" /\ Idle.store = {}
      BY DEF Idle
    <2>3. 0 \in 0 .. MaxRevision + 1
      OBVIOUS
    <2> QED  BY <2>1, <2>2, <2>3 DEF JobFits, ArchivedOK, OnTx, Paying
  <1> QED  BY <1>3, <1>4, <1>5, <1>6 DEF TypesInv

LEMMA TypesInit == Init => TypesInv
  <1> SUFFICES ASSUME Init
               PROVE  TypesInv
    OBVIOUS
  <1>1. JTypes
    BY JInitTyped DEF Init
  <1>2. << >> \in Seq(RowType) /\ << >> \in Seq(LedgerType) /\ Len(<< >>) = 0 /\ DOMAIN << >> = {}
    OBVIOUS
  <1>3. CheckpointTyped /\ RowsArchived
    BY <1>2 DEF Init, CheckpointTyped, RowsArchived
  <1>4. FilesTyped
    <2> DEFINE Store == (SUBSET Run) \cup {NoArchive}
    <2>1. NoArchive \in Store
      OBVIOUS
    <2> HIDE DEF Store
    <2>2. archive \in [Dir -> [Run -> Store]]
      BY <2>1 DEF Init
    <2>3. left \in [Run -> Left]
      BY DEF Init, Left
    <2>4. opened \subseteq Dir /\ artifacts \in [Dir -> SUBSET Run]
      BY DEF Init
    <2>5. ledger \in [Dir -> Seq(LedgerType)]
      BY <1>2 DEF Init
    <2> QED  BY <2>2, <2>3, <2>4, <2>5 DEF FilesTyped, Store
  <1>5. \A p \in Proc : JobFits(p) /\ ArchivedOK(p)
    <2>1. \A p \in Proc : job[p] = Idle
      BY DEF Init
    <2>2. Idle.tx = 0 /\ Idle.pc = "idle" /\ Idle.store = {}
      BY DEF Idle
    <2>3. 0 \in 0 .. MaxRevision + 1
      OBVIOUS
    <2> QED  BY <2>1, <2>2, <2>3 DEF JobFits, ArchivedOK, OnTx, Paying
  <1> QED  BY <1>1, <1>3, <1>4, <1>5 DEF TypesInv

LEMMA TypesStep == IInv /\ IInv' /\ SpendInv /\ TypesInv /\ [Next]_vars => TypesInv'
  <1> SUFFICES ASSUME IInv, IInv', SpendInv, TypesInv, [Next]_vars
               PROVE  TypesInv'
    OBVIOUS
  <1>1. JTypes'
    BY JournalTypes DEF TypesInv
  <1>2. ASSUME NEW p \in Proc, RunnerStep(p)
        PROVE  TypesInv'
    BY <1>1, <1>2, CheckpointStep, FilesStep, JobsFit, ArchivesStay DEF TypesInv
  <1>3. ASSUME UNCHANGED <<kind, job, files>>, left' \in [Run -> Left]
        PROVE  TypesInv'
    <2>1. CheckpointTyped' /\ RowsArchived' /\ FilesTyped'
      BY <1>3 DEF TypesInv, CheckpointTyped, RowsArchived, FilesTyped, files
    <2>2. \A p \in Proc : JobFits(p)' /\ ArchivedOK(p)'
      BY <1>3 DEF TypesInv, JobFits, ArchivedOK, files
    <2> QED  BY <1>1, <2>1, <2>2 DEF TypesInv
  <1>4. ASSUME NEW c \in Run, SessionEnds(c)
        PROVE  TypesInv'
    <2>1. left' \in [Run -> Left]
      BY <1>4 DEF SessionEnds, TypesInv, FilesTyped, Left
    <2> QED  BY <1>3, <1>4, <2>1 DEF SessionEnds
  <1>5. CASE JournalWork \/ InspectJournal \/ UNCHANGED vars
    BY <1>3, <1>5 DEF JournalWork, InspectJournal, vars, money, TypesInv, FilesTyped
  <1> QED  BY <1>1, <1>2, <1>4, <1>5, PowerLossTypes DEF Next

LEMMA Types == Spec => []TypesInv
  BY TypesInit, TypesStep, Invariance, Spends, PTL DEF Spec

\* A runner's memory, its directories and the journal keep their types; a power loss never
\* leaves fewer checkpoint rows than were synced, and what an attempt starts from is
\* always a set of attempts (export_store before write_rollouts; _replace_private_file).
THEOREM TypesHold == Spec => []TypeOK
  <1>1. IInv /\ AccountsInv /\ SpendInv /\ TypesInv => TypeOK
    <2> SUFFICES ASSUME IInv, LiveOK, SpendInv, TypesInv
                 PROVE  TypeOK
      BY DEF AccountsInv
    <2>1. job \in [Proc -> [pc : Course, dir : Dir \cup {NoDir}, resume : BOOLEAN,
                            cell : Run \cup {0}, tx : 0 .. MaxRevision + 1,
                            store : SUBSET Run]]
      <3>1. \A p \in Proc : job[p] \in JobTyped /\ JobFits(p)
        BY DEF IInv, TypesInv
      <3>2. \A p \in Proc : job[p] \in [pc : Course, dir : Dir \cup {NoDir}, resume : BOOLEAN,
                                        cell : Run \cup {0}, tx : 0 .. MaxRevision + 1,
                                        store : SUBSET Run]
        BY <3>1 DEF JobTyped, JobFits
      <3> QED  BY <3>2 DEF IInv
    <2>2. live \subseteq Run /\ cost \in [Run -> 0 .. MaxCost] /\ sessions \in [Run -> Nat]
          /\ kind \in Kind
      BY DEF LiveOK, SpendInv, IInv, SessionsOK, FilesOK
    <2> QED
      BY <2>1, <2>2 DEF TypesInv, JTypes, CheckpointTyped, FilesTyped, TypeOK
  <1> QED  BY <1>1, Types, Invariance, Accounts, Spends, PTL

-----------------------------------------------------------------------------
(* The ledger (LedgerKept).                                                  *)

\* Only the calls of a runner, the append in progress and a power loss touch what is
\* durable, and none takes anything back.
LEMMA StepSyncs ==
  ASSUME IInv, TypesInv, [Next]_vars
  PROVE  SyncedKept
  <1>1. ASSUME NEW p \in Proc, RunnerStep(p)
        PROVE  SyncedKept
    BY <1>1, RunnerCalls, JCallKeeps DEF TypesInv
  <1>2. CASE JournalWork \/ PowerLoss
    BY <1>2, JWorkInv, JPowerLossInv DEF JournalWork, PowerLoss, IInv
  <1>3. InspectJournal \/ (\E c \in Run : SessionEnds(c)) \/ UNCHANGED vars
        => jsynced' = jsynced
    BY DEF InspectJournal, JInspect, SessionEnds, vars, journalVars
  <1>4. jsynced' = jsynced => SyncedKept
    BY DEF SyncedKept
  <1> QED  BY <1>1, <1>2, <1>3, <1>4 DEF Next

\* The journal of the paid runners, too, implements the ledger it promises: whatever
\* dies or loses power, a durable entry only advances, a cell has one live entry and what
\* is exposed stays within the authority (replay in memory_budget_journal.py).
THEOREM RunnersKeepLedger == Spec => LedgerKept
  <1>1. Init => Ledger!Init
    BY LedgerInit DEF Init
  <1>2. IInv /\ TypesInv /\ IInv' /\ [Next]_vars => [Ledger!Next]_Entries
    BY StepSyncs, LedgerStep DEF IInv
  <1> QED  BY Invariance, Types, <1>1, <1>2, PTL DEF Spec, LedgerKept, Ledger!Spec

-----------------------------------------------------------------------------
(* The schedule (ScheduleKept).  Under the lock, the cell a runner works on  *)
(* is the first its directory does not have, and once its session has        *)
(* started no later cell has one.  What is left over from earlier runs is    *)
(* accounted for in the directory of the runner that goes on, so every cell  *)
(* with a session counts there, except the one that is worked on.            *)

\* The cell of a runner is the first that is left.
CourseOK(p) == job[p].pc \in OnCell =>
    /\ job[p].cell \notin Done(job[p].dir)
    /\ \A x \in Run : x < job[p].cell => x \in Done(job[p].dir)

\* No later cell has a session.
LastOK(p) == job[p].pc \in OnTx \ {"authorizing"} =>
    \A x \in Run : x > job[p].cell => sessions[x] = 0

\* The sessions were started in the order of the cells, one at a time.
InOrder ==
    /\ \A c, x \in Run : x < c /\ sessions[c] >= 1 => sessions[x] >= 1
    /\ \A c, x \in live : c = x

CourseInv == InOrder /\ \A p \in Proc : CourseOK(p) /\ LastOK(p)

\* A cell with a session counts for the runner that works on a cell, or is that cell.
LEMMA CountsOrHere ==
  ASSUME IInv, RowsInv, AccountsInv, NEW p \in Proc, job[p].pc \in OnTx, jstep # "raised",
         NEW c \in Run, sessions[c] >= 1, c # job[p].cell
  PROVE  c \in Counting(job[p].dir)
  <1> DEFINE d == job[p].dir
  <1>1. job[p].pc \in OnCell /\ job[p].pc # "reserving" /\ d \in Dir
    BY Holder DEF OnTx, Paying, OnCell, Holding, Course
  <1>2. Known(p)
    BY <1>1 DEF RowsInv, TxOK, AuthorizingTx, PayingTx, CommittingTx, OnTx, Paying, At
  <1>3. \A t \in Transactions(jdisk) : t = job[p].tx \/ Closed(d, t)
    BY <1>1 DEF AccountsInv, WithinOK
  <1>4. Sound(jdisk) /\ \A i \in DOMAIN jsynced : i \in DOMAIN jdisk /\ jsynced[i] = jdisk[i]
    BY PrefixFacts DEF IInv, JInv
  <1>5. Paid(jsynced, c)
    BY DEF IInv, SessionsOK
  <1>6. PICK i \in DOMAIN jdisk : jdisk[i].action = "request_authorized" /\ jdisk[i].run = c
    BY <1>4, <1>5 DEF Paid
  <1> DEFINE u == jdisk[i].tx
  <1>7. u \in Transactions(jdisk) /\ State(jdisk, u) \in {"request_authorized", "committed"}
    BY <1>4, <1>6, StateFacts
  <1>8. jdisk[u].run = c
    BY <1>4, <1>6 DEF Sound, TxEarlier
  <1> HIDE DEF u
  <1>9. u # job[p].tx
    BY <1>2, <1>8 DEF Known
  <1>10. PICK k \in DOMAIN checkpoint[d] : checkpoint[d][k].tx = u /\ checkpoint[d][k].scored
    BY <1>3, <1>7, <1>9 DEF Closed
  <1> DEFINE r == checkpoint[d][k]
  <1>11. RowTrue(r)
    BY <1>1 DEF RowsInv, RowsOK
  <1>12. u # 0
    BY <1>4, <1>7 DEF Transactions, Sound
  <1>13. r.cell # 0 /\ Committed(jsynced, u, r.cell, cost[r.cell])
    BY <1>10, <1>11, <1>12 DEF RowTrue
  <1>14. r.cell = c
    BY <1>4, <1>8, <1>13 DEF Committed
  <1> QED  BY <1>10, <1>13, <1>14 DEF Counting, Rows

\* What counts had its session, which is over.
LEMMA CountingOver ==
  ASSUME RowsInv, NEW d \in Dir, NEW c \in Counting(d)
  PROVE  c \in Run /\ c \in Done(d) /\ sessions[c] >= 1 /\ c \notin live
  <1>1. PICK i \in DOMAIN checkpoint[d] : checkpoint[d][i].cell = c /\ c # 0
    BY DEF Counting, Rows
  <1>2. RowTrue(checkpoint[d][i]) /\ checkpoint[d][i] \in AnyRow
    BY DEF RowsInv, RowsOK
  <1>3. c \in Done(d)
    BY <1>1 DEF Done, Rows
  <1> QED  BY <1>1, <1>2, <1>3 DEF RowTrue, AnyRow

\* What is done has had its session.
LEMMA DoneBegun ==
  ASSUME RowsInv, NEW d \in Dir, NEW c \in Done(d)
  PROVE  c \in Run /\ sessions[c] >= 1
  <1>1. PICK i \in DOMAIN checkpoint[d] : checkpoint[d][i].cell = c /\ c # 0
    BY DEF Done, Rows
  <1>2. RowTrue(checkpoint[d][i]) /\ checkpoint[d][i] \in AnyRow
    BY DEF RowsInv, RowsOK
  <1> QED  BY <1>1, <1>2 DEF RowTrue, AnyRow

\* Who works on a cell has all the earlier ones, and only those, in its directory.
LEMMA Behind ==
  ASSUME IInv, RowsInv, AccountsInv, NEW p \in Proc, CourseOK(p), job[p].pc \in OnTx,
         jstep # "raised", \A x \in Run : x > job[p].cell => sessions[x] = 0
  PROVE  /\ job[p].cell \in Run /\ job[p].dir \in Dir
         /\ Counting(job[p].dir) = {x \in Run : x < job[p].cell}
         /\ \A x \in Run : x < job[p].cell => sessions[x] = 1
         /\ live \subseteq {job[p].cell}
  <1> DEFINE d == job[p].dir
             c == job[p].cell
  <1>1. job[p].pc \in OnCell /\ d \in Dir /\ c \in Run
    BY Holder DEF OnTx, Paying, OnCell, Holding, Course
  <1>2. /\ sessions \in [Run -> Nat] /\ \A x \in Run : sessions[x] <= 1
        /\ live \subseteq Run /\ \A x \in live : sessions[x] >= 1
    BY DEF IInv, SessionsOK, AccountsInv, LiveOK
  <1>3. c \notin Done(d) /\ \A x \in Run : x < c => x \in Done(d)
    BY <1>1 DEF CourseOK
  <1>4. \A x \in Run : x \in Int
    BY RunnerAssumption
  <1> HIDE DEF c, d
  <1>5. ASSUME NEW x \in Run, x < c
        PROVE  sessions[x] = 1 /\ x \in Counting(d)
    <2>1. sessions[x] >= 1
      BY <1>1, <1>3, <1>5, DoneBegun
    <2>2. x # c
      BY <1>1, <1>4, <1>5
    <2>3. sessions[x] = 1
      BY <1>2, <2>1
    <2> QED  BY <2>1, <2>2, <2>3, CountsOrHere DEF c, d
  <1>6. ASSUME NEW x \in Run, sessions[x] >= 1
        PROVE  ~(x > c)
    BY <1>6 DEF c
  <1>7. ASSUME NEW x \in Counting(d)
        PROVE  x \in Run /\ x < c
    <2>1. x \in Run /\ x \in Done(d) /\ sessions[x] >= 1
      BY <1>1, CountingOver
    <2>2. x # c /\ ~(x > c)
      BY <1>3, <1>6, <2>1
    <2> QED  BY <1>1, <1>4, <2>1, <2>2
  <1>8. ASSUME NEW x \in live
        PROVE  x = c
    <2>1. x \in Run /\ sessions[x] >= 1
      BY <1>2
    <2>2. x \notin Counting(d)
      BY <1>1, CountingOver
    <2> QED  BY <2>1, <2>2, CountsOrHere DEF c, d
  <1> QED  BY <1>1, <1>5, <1>7, <1>8 DEF c, d

\* Which steps start or stop a session.
LEMMA WhoRuns ==
  ASSUME NEW p \in Proc, RunnerStep(p)
  PROVE  StartSession(p) \/ SessionKilled(p) \/ UNCHANGED <<sessions, cost, live>>
  <1>1. CASE KeyedStep(p)
    BY <1>1, Zenon DEF KeyedStep, KeyedStart, ChainedLoad, ArmsLoad, PluginLoad, Loaded,
       ChainedReserve, ArmsReserve, PluginReserve, NextReserve, Reserve, Export, LedgerAppend,
       ChainedFails, ChainedCommit, ArmsCommit, PluginCommit, Commit, ArmsInvalid,
       PluginRefuses, KeyedWrites, WriteRollouts, money
  <1>2. CASE PrefixStep(p)
    BY <1>2, Zenon DEF PrefixStep, Sync, Prepare, Unusable, Refuses, PilotStart,
       BlockStart, AgentStart, PilotOpen, PilotInitial, PilotLoad, BlockLoad, Resumed,
       PilotPauses, PilotUnprepared, PilotReserve, Reserve, PilotCommit, Commit, PilotRefuses,
       PilotCheckpoint, AgentFresh, AgentLoad, AgentUnprepared, AgentReserve, AgentCommit,
       AgentRefuses, AgentCheckpoint, CellCheckpoint, Checkpoint, money
  <1>3. CASE ~KeyedStep(p) /\ ~PrefixStep(p)
    BY <1>3, Zenon DEF RunnerStep, Authorize, AuthorizeRaised, Drift, Abort, Aborted, Raised,
       Finish, Crash, money
  <1> QED  BY <1>1, <1>2, <1>3

\* A row that counts is written once the commit of its cell is over; whoever writes a
\* row leaves the cell.
LEMMA WhoCounts ==
  ASSUME IInv, NEW p \in Proc, Writes(p)
  PROVE  /\ job[p].dir \in Dir /\ jlock = p /\ kind' = kind
         /\ UNCHANGED <<sessions, cost, live>>
         /\ \A q \in Proc : q # p => job'[q] = job[q]
         /\ job'[p].pc \notin OnCell
         /\ \E row :
               /\ checkpoint' = [checkpoint EXCEPT ![job[p].dir] = Append(@, row)]
               /\ row.scored /\ row.cell # 0 =>
                     At(p, "committing") /\ jstep = "idle" /\ row.cell = job[p].cell
  <1> DEFINE c == job[p].cell
             t == job[p].tx
             d == job[p].dir
             Wrote(row) == checkpoint' = [checkpoint EXCEPT ![d] = Append(@, row)]
  <1>1. job[p].pc \in Holding
    BY DEF Writes, KeyedWrites, WriteRollouts, ArmsInvalid, PilotInitial, PilotCheckpoint,
           AgentCheckpoint, CellCheckpoint, At, Holding, Course
  <1>2. d \in Dir /\ jlock = p
    BY <1>1, Holder
  <1>3. UNCHANGED <<sessions, cost, live>> /\ kind' = kind
    BY DEF Writes, KeyedWrites, WriteRollouts, ArmsInvalid, PilotInitial, PilotCheckpoint,
           AgentCheckpoint, CellCheckpoint, Checkpoint, money
  <1>4. Exit(p) \/ Goto(p, "next") \/ Goto(p, "syncing")
    BY DEF Writes, KeyedWrites, WriteRollouts, ArmsInvalid, PilotInitial, PilotCheckpoint,
           AgentCheckpoint, CellCheckpoint, Checkpoint
  <1>5. (\A q \in Proc : q # p => job'[q] = job[q]) /\ job'[p].pc \notin OnCell
    <2>1. "next" \in Course /\ "syncing" \in Course
      BY DEF Course
    <2> QED  BY <1>4, <2>1, ExitFits, GotoStore DEF OnCell
  <1>6. CASE PilotInitial(p)
    <2>1. Wrote(Row(0, 0, 0, TRUE, jmem)) /\ Row(0, 0, 0, TRUE, jmem).cell = 0
      BY <1>6 DEF PilotInitial, Checkpoint, Initial, Row
    <2> QED  BY <1>2, <1>3, <1>5, <2>1
  <1>7. CASE ArmsInvalid(p)
    <2>1. Wrote(Row(c, t, cost[c], FALSE, << >>)) /\ ~Row(c, t, cost[c], FALSE, << >>).scored
      BY <1>7 DEF ArmsInvalid, Row
    <2> QED  BY <1>2, <1>3, <1>5, <2>1
  <1>8. CASE KeyedWrites(p) \/ PilotCheckpoint(p) \/ AgentCheckpoint(p)
    <2>1. At(p, "committing") /\ jstep = "idle"
      BY <1>8 DEF KeyedWrites, WriteRollouts, PilotCheckpoint, AgentCheckpoint, CellCheckpoint,
                  JReady
    <2>2. PICK scored, head : Wrote(Row(c, t, cost[c], scored, head))
      BY <1>8 DEF KeyedWrites, WriteRollouts, PilotCheckpoint, AgentCheckpoint, CellCheckpoint,
                  Checkpoint
    <2> DEFINE row == Row(c, t, cost[c], scored, head)
    <2>3. row.cell = c
      BY DEF Row
    <2>4. Wrote(row)
      BY <2>2
    <2> HIDE DEF row
    <2> QED  BY <1>2, <1>3, <1>5, <2>1, <2>3, <2>4
  <1> QED  BY <1>6, <1>7, <1>8 DEF Writes

\* What counts after a row was written.
LEMMA CountsMore ==
  ASSUME RowsInv, NEW d \in Dir, NEW row,
         checkpoint' = [checkpoint EXCEPT ![d] = Append(@, row)]
  PROVE  /\ \A e \in Dir : e # d => Counting(e)' = Counting(e)
         /\ row.scored /\ row.cell # 0 => Counting(d)' = Counting(d) \cup {row.cell}
         /\ ~(row.scored /\ row.cell # 0) => Counting(d)' = Counting(d)
  <1> DEFINE s == checkpoint[d]
  <1>1. checkpoint \in [Dir -> Seq(AnyRow)]
    BY DEF RowsInv, RowsOK
  <1>2. checkpoint'[d] = Append(s, row) /\ \A e \in Dir : e # d => checkpoint'[e] = checkpoint[e]
    BY <1>1
  <1>3. /\ DOMAIN Append(s, row) = 1 .. Len(s) + 1 /\ DOMAIN s = 1 .. Len(s) /\ Len(s) \in Nat
        /\ Append(s, row)[Len(s) + 1] = row /\ \A i \in DOMAIN s : Append(s, row)[i] = s[i]
    <2>1. s \in Seq(AnyRow)
      BY <1>1
    <2> HIDE DEF s
    <2> QED  BY <2>1
  <1>4. Rows(d)' = Rows(d) \cup {row}
    <2>1. /\ DOMAIN checkpoint'[d] = DOMAIN s \cup {Len(s) + 1}
          /\ checkpoint'[d][Len(s) + 1] = row
          /\ \A i \in DOMAIN s : checkpoint'[d][i] = s[i]
      BY <1>2, <1>3
    <2> QED  BY <2>1 DEF Rows
  <1>5. \A e \in Dir : e # d => Rows(e)' = Rows(e)
    BY <1>2 DEF Rows
  <1> QED  BY <1>4, <1>5, Zenon DEF Counting

\* A runner that starts a session has the schedule behind it up to its cell.
LEMMA StartsNext ==
  ASSUME IInv, RowsInv, AccountsInv, CourseInv, NEW p \in Proc, StartSession(p)
  PROVE  /\ job[p].cell \in Run /\ job[p].dir \in Dir /\ live = {} /\ jlock = p
         /\ \A x \in Run : sessions[x] = IF x < job[p].cell THEN 1 ELSE 0
         /\ Counting(job[p].dir) = {x \in Run : x < job[p].cell}
  <1> DEFINE c == job[p].cell
  <1>1. /\ At(p, "authorizing") /\ jstep = "idle" /\ jlock = p /\ job[p].pc \in OnTx
        /\ CourseOK(p) /\ InOrder /\ AuthorizingOK(p) /\ c \in Run
    BY Holder DEF StartSession, JReady, At, OnTx, CourseInv, IInv, JobOK, Holding, Course, OnCell
  <1>2. sessions[c] = 0
    BY <1>1 DEF AuthorizingOK
  <1>3. /\ sessions \in [Run -> Nat] /\ live \subseteq Run /\ \A x \in live : sessions[x] >= 1
    BY DEF IInv, SessionsOK, AccountsInv, LiveOK
  <1>4. \A x \in Run : x \in Int
    BY RunnerAssumption
  <1> HIDE DEF c
  <1>5. ASSUME NEW x \in Run, x > c
        PROVE  sessions[x] = 0
    <2>1. c < x /\ sessions[x] \in Nat
      BY <1>1, <1>3, <1>4, <1>5
    <2>2. ~(sessions[x] >= 1)
      BY <1>1, <1>2, <2>1 DEF InOrder
    <2> QED  BY <2>1, <2>2
  <1>6. /\ job[p].dir \in Dir /\ Counting(job[p].dir) = {x \in Run : x < c}
        /\ \A x \in Run : x < c => sessions[x] = 1
        /\ live \subseteq {c}
    BY <1>1, <1>5, Behind DEF c
  <1>7. live = {}
    BY <1>2, <1>3, <1>6
  <1>8. ASSUME NEW x \in Run
        PROVE  sessions[x] = IF x < c THEN 1 ELSE 0
    BY <1>1, <1>2, <1>4, <1>5, <1>6
  <1> QED  BY <1>1, <1>6, <1>7, <1>8 DEF c

\* How the jobs of a step look, for what is claimed here.
Same(q) == job'[q].cell = job[q].cell /\ job'[q].dir = job[q].dir

LEMMA FirstLeft ==
  ASSUME IInv, NEW p \in Proc, Reserves(p)
  PROVE  \/ Exit(p)
         \/ /\ job'[p].pc = "reserving" /\ job'[p].dir = job[p].dir
            /\ \A q \in Proc : q # p => job'[q] = job[q]
            /\ job'[p].cell \in Run /\ job'[p].cell \notin Done(job[p].dir)
            /\ \A x \in Run : x < job'[p].cell => x \in Done(job[p].dir)
  <1> DEFINE d == job[p].dir
  <1>1. Remaining(d) # {}
    <2>1. At(p, "prepared") => Remaining(d) # {}
      BY DEF IInv, JobOK, PreparedOK
    <2> QED
      BY <2>1 DEF Reserves, ChainedReserve, ArmsReserve, PluginReserve, NextReserve,
                  PilotReserve, AgentReserve
  <1>2. Exit(p) \/ \E note : Reserve(p, NextCell(d), note)
    BY DEF Reserves, ChainedReserve, ArmsReserve, PluginReserve, NextReserve, PilotReserve,
           AgentReserve, Refuses
  <1>3. /\ NextCell(d) \in Run /\ NextCell(d) \notin Done(d)
        /\ \A x \in 1 .. NextCell(d) - 1 : x \in Done(d)
    BY <1>1, NextCellLeft DEF IInv, FilesOK
  <1> DEFINE c == NextCell(d)
  <1> HIDE DEF c
  <1>4. ASSUME NEW x \in Run, x < c
        PROVE  x \in Done(d)
    <2>1. x \in Nat \ {0} /\ c \in Nat \ {0}
      BY <1>3, RunnerAssumption DEF c
    <2>2. x \in 1 .. c - 1
      BY <1>4, <2>1
    <2> QED  BY <1>3, <2>2 DEF c
  <1>5. ASSUME NEW note, Reserve(p, c, note)
        PROVE  /\ job'[p].pc = "reserving" /\ job'[p].dir = d /\ job'[p].cell = c
               /\ \A q \in Proc : q # p => job'[q] = job[q]
    <2> DEFINE j == [job[p] EXCEPT !.pc = "reserving", !.cell = c, !.store = note]
    <2>1. job \in [Proc -> JobTyped] /\ job[p] \in JobTyped
      BY DEF IInv
    <2>2. job' = [job EXCEPT ![p] = j]
      BY <1>5 DEF Reserve
    <2>3. j.pc = "reserving" /\ j.dir = d /\ j.cell = c
      BY <2>1 DEF JobTyped
    <2> HIDE DEF j
    <2> QED  BY <2>1, <2>2, <2>3
  <1> HIDE DEF d
  <1> QED  BY <1>2, <1>3, <1>4, <1>5 DEF c, d

LEMMA SameCell ==
  ASSUME IInv, NEW p \in Proc, Authorize(p)
  PROVE  /\ \A q \in Proc : q # p => job'[q] = job[q]
         /\ job'[p].pc = "authorizing" /\ Same(p) /\ job[p].pc = "reserving"
  <1>1. PICK t : job' = [job EXCEPT ![p].pc = "authorizing", ![p].tx = t]
    BY DEF Authorize
  <1> DEFINE j == [job[p] EXCEPT !.pc = "authorizing", !.tx = t]
  <1>2. job \in [Proc -> JobTyped] /\ job[p] \in JobTyped
    BY DEF IInv
  <1>3. job' = [job EXCEPT ![p] = j]
    BY <1>1
  <1>4. j.pc = "authorizing" /\ j.cell = job[p].cell /\ j.dir = job[p].dir
    BY <1>2 DEF JobTyped
  <1> HIDE DEF j
  <1> QED  BY <1>2, <1>3, <1>4 DEF Same, Authorize, At

\* How a step of a runner moves it along its cell.
LEMMA AlongCell ==
  ASSUME IInv, NEW p \in Proc, RunnerStep(p)
  PROVE  /\ \A q \in Proc : q # p => job'[q] = job[q]
         /\ \/ job'[p].pc \notin OnCell
            \/ /\ job'[p].pc = "reserving" /\ job'[p].dir = job[p].dir
               /\ job'[p].cell \in Run /\ job'[p].cell \notin Done(job[p].dir)
               /\ \A x \in Run : x < job'[p].cell => x \in Done(job[p].dir)
            \/ /\ job[p].pc \in OnCell /\ Same(p)
               /\ \/ job'[p].pc \notin OnTx \ {"authorizing"}
                  \/ job[p].pc \in OnTx \ {"authorizing"}
                  \/ StartSession(p)
  <1>1. CASE UNCHANGED job
    BY <1>1 DEF Same
  <1>2. CASE Exit(p)
    BY <1>2, ExitFits DEF OnCell
  <1>3. CASE Reserves(p)
    BY <1>2, <1>3, FirstLeft
  <1>4. CASE Authorize(p)
    BY <1>4, SameCell DEF OnCell, OnTx
  <1>5. ASSUME NEW pc \in Course \ OnCell, Goto(p, pc)
        PROVE  (\A q \in Proc : q # p => job'[q] = job[q]) /\ job'[p].pc \notin OnCell
    BY <1>5, GotoStore
  <1>6. ASSUME NEW pc \in OnTx, GoesOn(p, pc)
        PROVE  /\ \A q \in Proc : q # p => job'[q] = job[q]
               /\ job[p].pc \in OnCell /\ Same(p)
               /\ job[p].pc \in OnTx \ {"authorizing"} \/ StartSession(p)
    <2>1. pc \in Course /\ OnTx \subseteq OnCell
      BY DEF OnTx, Paying, OnCell, Course
    <2> QED  BY <1>6, <2>1, GotoStore DEF GoesOn, Same, At
  <1>7. ASSUME NEW pc \in {"opening", "load"}, NEW d \in Dir, Starts(p, d, pc)
        PROVE  (\A q \in Proc : q # p => job'[q] = job[q]) /\ job'[p].pc \notin OnCell
    BY <1>7, StartFits DEF OnCell
  <1> QED  BY <1>1, <1>2, <1>3, <1>4, <1>5, <1>6, <1>7, WhoMoves

\* A step of a runner keeps the order of the schedule.
LEMMA CourseRuns ==
  ASSUME IInv, RowsInv, AccountsInv, CourseInv, NEW p \in Proc, RunnerStep(p)
  PROVE  CourseInv'
  <1>1. /\ InOrder /\ \A q \in Proc : CourseOK(q) /\ LastOK(q)
        /\ \A q \in Proc : q # p => job'[q] = job[q]
    BY AlongCell DEF CourseInv
  <1>2. OnTx \subseteq OnCell /\ OnCell \subseteq Holding
    BY DEF OnTx, Paying, OnCell, Holding, Course
  <1>3. \/ checkpoint' = checkpoint
        \/ jlock = p /\ job'[p].pc \notin OnCell
    BY WhoWrites, WhoCounts
  <1>4. \/ UNCHANGED sessions /\ live' \subseteq live
        \/ StartSession(p)
    BY WhoRuns DEF SessionKilled
  <1>5. ASSUME StartSession(p)
        PROVE  /\ jlock = p /\ job[p].cell \in Run /\ live' = {job[p].cell}
               /\ sessions' = [sessions EXCEPT ![job[p].cell] = @ + 1]
               /\ sessions \in [Run -> Nat] /\ checkpoint' = checkpoint
               /\ \A x \in Run : sessions[x] = IF x < job[p].cell THEN 1 ELSE 0
    BY <1>5, StartsNext DEF StartSession, IInv, SessionsOK, files
  <1>6. \A x \in Run : x \in Int
    BY RunnerAssumption
  <1>7. InOrder'
    <2>1. CASE StartSession(p)
      <3> DEFINE c == job[p].cell
      <3>1. /\ c \in Run /\ live' = {c} /\ sessions' = [sessions EXCEPT ![c] = @ + 1]
            /\ sessions \in [Run -> Nat]
            /\ \A x \in Run : sessions[x] = IF x < c THEN 1 ELSE 0
        BY <1>5, <2>1
      <3> HIDE DEF c
      <3>2. ASSUME NEW x \in Run
            PROVE  sessions'[x] = IF x <= c THEN 1 ELSE 0
        BY <1>6, <3>1
      <3>3. \A y, x \in Run : x < y /\ sessions'[y] >= 1 => sessions'[x] >= 1
        BY <1>6, <3>1, <3>2
      <3> QED  BY <3>1, <3>3 DEF InOrder
    <2>2. CASE UNCHANGED sessions /\ live' \subseteq live
      BY <1>1, <2>2 DEF InOrder
    <2> QED  BY <1>4, <2>1, <2>2
  <1>8. ASSUME NEW q \in Proc, q # p
        PROVE  CourseOK(q)' /\ LastOK(q)'
    <2>1. CASE jlock = p
      <3>1. job[q].pc \notin Holding
        BY <1>8, <2>1 DEF IInv, JobOK
      <3> QED  BY <1>1, <1>2, <1>8, <3>1 DEF CourseOK, LastOK
    <2>2. CASE jlock # p
      <3>1. checkpoint' = checkpoint /\ UNCHANGED sessions /\ job'[q] = job[q]
        BY <1>1, <1>3, <1>4, <1>5, <1>8, <2>2
      <3>2. \A e : Done(e)' = Done(e)
        BY <3>1 DEF Done, Rows
      <3>3. CourseOK(q)'
        BY <1>1, <3>1, <3>2 DEF CourseOK
      <3>4. LastOK(q)'
        BY <1>1, <3>1 DEF LastOK
      <3> QED  BY <3>3, <3>4
    <2> QED  BY <2>1, <2>2
  <1>9. CourseOK(p)'
    <2>1. CASE job'[p].pc \notin OnCell
      BY <2>1 DEF CourseOK
    <2>2. CASE job'[p].pc \in OnCell
      <3>1. checkpoint' = checkpoint
        BY <1>3, <2>2
      <3>2. \A e : Done(e)' = Done(e)
        BY <3>1 DEF Done, Rows
      <3>3. \/ job[p].pc \in OnCell /\ Same(p)
            \/ /\ job'[p].dir = job[p].dir /\ job'[p].cell \notin Done(job[p].dir)
               /\ \A x \in Run : x < job'[p].cell => x \in Done(job[p].dir)
        BY <2>2, AlongCell
      <3> QED  BY <1>1, <3>2, <3>3 DEF CourseOK, Same
    <2> QED  BY <2>1, <2>2
  <1>10. LastOK(p)'
    <2>1. CASE StartSession(p)
      <3>1. job'[p].cell = job[p].cell
        BY <2>1, AlongCell, GotoStore DEF StartSession, Course
      <3> DEFINE c == job[p].cell
      <3>2. /\ c \in Run /\ sessions' = [sessions EXCEPT ![c] = @ + 1]
            /\ sessions \in [Run -> Nat]
            /\ \A x \in Run : sessions[x] = IF x < c THEN 1 ELSE 0
        BY <1>5, <2>1
      <3> HIDE DEF c
      <3>3. ASSUME NEW x \in Run, x > c
            PROVE  sessions'[x] = 0
        <4>1. x # c /\ ~(x < c)
          BY <1>6, <3>2, <3>3
        <4> QED  BY <3>2, <4>1
      <3> QED  BY <3>1, <3>3 DEF LastOK, c
    <2>2. CASE ~StartSession(p) /\ job'[p].pc \in OnTx \ {"authorizing"}
      <3>1. Same(p) /\ job[p].pc \in OnTx \ {"authorizing"} /\ UNCHANGED sessions
        BY <1>2, <1>4, <2>2, AlongCell DEF OnTx, Paying
      <3> QED  BY <1>1, <3>1 DEF LastOK, Same
    <2>3. CASE job'[p].pc \notin OnTx \ {"authorizing"}
      BY <2>3 DEF LastOK
    <2> QED  BY <2>1, <2>2, <2>3
  <1> QED  BY <1>7, <1>8, <1>9, <1>10 DEF CourseInv

\* Whatever else happens leaves the jobs, or ends them, and starts no session.
LEMMA CourseStill ==
  ASSUME CourseInv, UNCHANGED sessions, live' \subseteq live,
         \/ UNCHANGED <<job, checkpoint>>
         \/ \A q \in Proc : job'[q].pc = "idle"
  PROVE  CourseInv'
  <1>1. InOrder'
    BY DEF CourseInv, InOrder
  <1>2. CASE UNCHANGED <<job, checkpoint>>
    <2>1. \A q \in Proc : CourseOK(q)' /\ LastOK(q)'
      BY <1>2 DEF CourseInv, CourseOK, LastOK, Done, Rows
    <2> QED  BY <1>1, <2>1 DEF CourseInv
  <1>3. CASE \A q \in Proc : job'[q].pc = "idle"
    <2>1. \A q \in Proc : CourseOK(q)' /\ LastOK(q)'
      BY <1>3 DEF CourseOK, LastOK, OnCell, OnTx, Paying
    <2> QED  BY <1>1, <2>1 DEF CourseInv
  <1> QED  BY <1>2, <1>3

LEMMA CourseStep == IInv /\ RowsInv /\ AccountsInv /\ CourseInv /\ [Next]_vars => CourseInv'
  <1> SUFFICES ASSUME IInv, RowsInv, AccountsInv, CourseInv, [Next]_vars
               PROVE  CourseInv'
    OBVIOUS
  <1>1. ASSUME NEW c \in Run, SessionEnds(c)
        PROVE  CourseInv'
    BY <1>1, CourseStill DEF SessionEnds, files
  <1>2. CASE JournalWork \/ InspectJournal \/ UNCHANGED vars
    BY <1>2, CourseStill DEF JournalWork, InspectJournal, vars, money, files
  <1>3. CASE PowerLoss
    <2>1. \A q \in Proc : job'[q].pc = "idle"
      BY <1>3 DEF PowerLoss, Idle
    <2>2. UNCHANGED sessions /\ live' \subseteq live
      BY <1>3 DEF PowerLoss
    <2> QED  BY <2>1, <2>2, CourseStill
  <1> QED  BY <1>1, <1>2, <1>3, CourseRuns DEF Next

LEMMA CourseInit == Init => CourseInv
  <1> SUFFICES ASSUME Init
               PROVE  CourseInv
    OBVIOUS
  <1>1. \A q \in Proc : job[q].pc = "idle"
    BY DEF Init, Idle
  <1>2. \A q \in Proc : CourseOK(q) /\ LastOK(q)
    BY <1>1 DEF CourseOK, LastOK, OnCell, OnTx, Paying
  <1>3. InOrder
    BY DEF Init, InOrder
  <1> QED  BY <1>2, <1>3 DEF CourseInv

LEMMA Courses == Spec => []CourseInv
  BY CourseInit, CourseStep, Accounts, PTL DEF Spec

\* What is recorded of the schedule.
Recorded == [d \in Dir |-> Counting(d)]

\* What the cells are charged in all is what they cost in all.
LEMMA ScheduleSum ==
  ASSUME NEW w
  PROVE  Schedule!MapThenSumSet(LAMBDA x : w[x], Run) = SumOver(w, Run)
  BY DEF SumOver, MapThenSumSet, MapThenFoldSet, Schedule!MapThenSumSet,
         Schedule!MapThenFoldSet

\* A session starts: the next cell is attempted.
LEMMA AttemptStep ==
  ASSUME IInv, IInv', RowsInv, AccountsInv, SpendInv', CourseInv, NEW p \in Proc, StartSession(p)
  PROVE  Schedule!Attempt(job[p].cell) /\ job[p].cell \in Run
  <1> DEFINE c == job[p].cell
  <1>0. \A x \in Run : x \in Int
    BY RunnerAssumption
  <1>1. /\ c \in Run /\ job[p].dir \in Dir /\ live = {}
        /\ \A x \in Run : sessions[x] = IF x < c THEN 1 ELSE 0
        /\ Counting(job[p].dir) = {x \in Run : x < c}
    BY StartsNext
  <1>2. /\ sessions' = [sessions EXCEPT ![c] = @ + 1] /\ live' = live \cup {c}
        /\ cost' = [cost EXCEPT ![c] = MaxCost] /\ UNCHANGED checkpoint
    BY DEF StartSession, files
  <1> HIDE DEF c
  <1>3. sessions' = [sessions EXCEPT ![c] = 1]
    <2>1. sessions[c] = 0
      BY <1>0, <1>1
    <2> QED  BY <1>2, <2>1
  <1>4. Schedule!MapThenSumSet(LAMBDA x : cost'[x], Run) <= Total
    <2>1. (IInv /\ SpendInv => SpendCovered /\ SumOver(cost, Run) <= Total)'
      BY SpendAccounted, PTL
    <2>2. SumOver(cost', Run) <= Total
      BY <2>1
    <2> QED  BY <2>2, ScheduleSum
  <1>5. UNCHANGED Recorded
    BY <1>2 DEF Recorded, Counting, Rows
  <1>6. \E d \in Dir : Recorded[d] = Schedule!Before(c)
    BY <1>1 DEF Recorded, Schedule!Before, c
  <1> QED  BY <1>0, <1>1, <1>2, <1>3, <1>4, <1>5, <1>6 DEF Schedule!Attempt, Recorded, c

\* A session is over.
LEMMA EndStep ==
  ASSUME SpendInv, CourseInv, NEW c \in live, live' = live \ {c},
         UNCHANGED <<sessions, checkpoint>>,
         \E amount \in 0 .. MaxCost : cost' = [cost EXCEPT ![c] = amount]
  PROVE  Schedule!End(c)
  <1>1. live = {c}
    BY DEF CourseInv, InOrder
  <1>2. UNCHANGED Recorded
    BY DEF Recorded, Counting, Rows
  <1> QED  BY <1>1, <1>2 DEF Schedule!End, Recorded

\* A row is written: it counts, after all the cells before it, or changes nothing.
LEMMA RecordsStep ==
  ASSUME IInv, RowsInv, AccountsInv, CourseInv, NEW p \in Proc, Writes(p)
  PROVE  (\E c \in Run, d \in Dir : Schedule!Record(c, d)) \/ UNCHANGED Schedule!pvars
  <1>1. UNCHANGED <<sessions, cost, live>>
    BY WhoCounts
  <1>2. PICK d, row :
          /\ d \in Dir /\ d = job[p].dir
          /\ checkpoint' = [checkpoint EXCEPT ![d] = Append(@, row)]
          /\ row.scored /\ row.cell # 0 =>
                At(p, "committing") /\ jstep = "idle" /\ row.cell = job[p].cell
    BY WhoCounts
  <1>3. /\ \A e \in Dir : e # d => Counting(e)' = Counting(e)
        /\ row.scored /\ row.cell # 0 => Counting(d)' = Counting(d) \cup {row.cell}
        /\ ~(row.scored /\ row.cell # 0) => Counting(d)' = Counting(d)
    BY <1>2, CountsMore
  <1>4. CASE ~(row.scored /\ row.cell # 0)
    <2>1. \A e \in Dir : Counting(e)' = Counting(e)
      BY <1>3, <1>4
    <2>2. UNCHANGED Recorded
      BY <2>1 DEF Recorded
    <2> QED  BY <1>1, <2>2 DEF Schedule!pvars, Recorded
  <1>5. CASE row.scored /\ row.cell # 0
    <2>1. PICK c : c = job[p].cell /\ c = row.cell /\ At(p, "committing") /\ jstep = "idle"
      BY <1>2, <1>5
    <2>2. /\ job[p].pc \in OnTx /\ CourseOK(p) /\ CommittingTx(p)
          /\ \A x \in Run : x > job[p].cell => sessions[x] = 0
      BY <2>1 DEF At, OnTx, CourseInv, LastOK, RowsInv, TxOK
    <2>3. c \in Run /\ Counting(d) = {x \in Run : x < c} /\ live \subseteq {c}
      <3>1. jstep # "raised"
        BY <2>1
      <3>2. /\ job[p].cell \in Run /\ live \subseteq {job[p].cell}
            /\ Counting(job[p].dir) = {x \in Run : x < job[p].cell}
        BY <2>2, <3>1, Behind
      <3> QED  BY <1>2, <2>1, <3>2
    <2>4. c \notin live /\ sessions[c] = 1
      <3>1. c \notin live /\ sessions[c] >= 1
        BY <2>1, <2>2 DEF CommittingTx
      <3>2. sessions[c] \in Nat /\ sessions[c] <= 1
        BY <2>3 DEF IInv, SessionsOK
      <3> QED  BY <3>1, <3>2
    <2>5. live = {}
      BY <2>3, <2>4
    <2>6. Recorded' = [Recorded EXCEPT ![d] = @ \cup {c}]
      BY <1>3, <1>5, <2>1 DEF Recorded
    <2>7. Recorded[d] = Schedule!Before(c)
      <3>1. Recorded[d] = Counting(d)
        BY <1>2 DEF Recorded
      <3> QED  BY <2>3, <3>1 DEF Schedule!Before
    <2>8. Schedule!Record(c, d)
      BY <1>1, <2>1, <2>2, <2>4, <2>5, <2>6, <2>7 DEF Schedule!Record, Recorded
    <2>9. c \in Run /\ d \in Dir
      BY <1>2, <2>3
    <2> QED  BY <2>8, <2>9
  <1> QED  BY <1>4, <1>5

\* The machine stops: what was recorded may be lost.
LEMMA LoseStep ==
  ASSUME RowsInv, PowerLoss
  PROVE  Schedule!Lose
  <1>1. live' = {} /\ UNCHANGED <<sessions, cost>>
    BY DEF PowerLoss
  <1>2. \A d \in Dir : \A i \in DOMAIN checkpoint'[d] :
           i \in DOMAIN checkpoint[d] /\ checkpoint'[d][i] = checkpoint[d][i]
    BY PowerLossFiles DEF RowsInv, RowsOK
  <1>3. \A d \in Dir : Rows(d)' \subseteq Rows(d)
    BY <1>2 DEF Rows
  <1>4. \A d \in Dir : Counting(d)' \subseteq Counting(d)
    BY <1>3 DEF Counting
  <1>5. \A d \in Dir : Counting(d) \subseteq Run
    BY CountingOver
  <1>6. /\ Recorded' \in [Dir -> SUBSET Run]
        /\ \A d \in Dir : Recorded'[d] \subseteq Recorded[d]
    BY <1>4, <1>5 DEF Recorded
  <1> QED  BY <1>1, <1>6 DEF Schedule!Lose, Recorded

\* A runner is a schedule walked through once and in order: a cell is attempted when all
\* the earlier ones count in one directory, none twice and one at a time, and what they
\* are charged stays within the authority, whatever dies or loses power (the loads of
\* the runners; reserve and authorize_request; write_rollouts after commit).
THEOREM RunnersKeepSchedule == Spec => ScheduleKept
  <1>1. Init => Schedule!Init
    <2> SUFFICES ASSUME Init
                 PROVE  Schedule!Init
      OBVIOUS
    <2>1. \A d \in Dir : Counting(d) = {}
      BY DEF Init, Counting, Rows
    <2>2. Recorded = [d \in Dir |-> {}]
      BY <2>1 DEF Recorded
    <2> QED  BY <2>2 DEF Init, Schedule!Init, Recorded
  <1>2. IInv /\ IInv' /\ RowsInv /\ AccountsInv /\ SpendInv /\ SpendInv' /\ CourseInv
        /\ [Next]_vars => [Schedule!Next]_Schedule!pvars
    <2> SUFFICES ASSUME IInv, IInv', RowsInv, AccountsInv, SpendInv, SpendInv', CourseInv,
                        [Next]_vars
                 PROVE  Schedule!Next \/ UNCHANGED Schedule!pvars
      OBVIOUS
    <2>1. UNCHANGED <<sessions, cost, live, checkpoint>> => UNCHANGED Schedule!pvars
      <3>1. UNCHANGED checkpoint => UNCHANGED Recorded
        BY DEF Recorded, Counting, Rows
      <3> QED  BY <3>1 DEF Schedule!pvars, Recorded
    <2>2. ASSUME NEW c \in Run, SessionEnds(c)
          PROVE  Schedule!Next
      <3>1. Schedule!End(c)
        BY <2>2, EndStep DEF SessionEnds, files
      <3> QED  BY <3>1 DEF Schedule!Next
    <2>3. ASSUME NEW p \in Proc, SessionKilled(p)
          PROVE  Schedule!Next
      <3> DEFINE c == job[p].cell
      <3>1. c \in live /\ live' = live \ {c} /\ UNCHANGED <<sessions, checkpoint, cost>>
        BY <2>3 DEF SessionKilled, Ended, files
      <3>2. c \in Run /\ cost[c] \in 0 .. MaxCost /\ cost' = [cost EXCEPT ![c] = cost[c]]
        BY <3>1 DEF AccountsInv, LiveOK, SpendInv
      <3> HIDE DEF c
      <3>3. Schedule!End(c)
        BY <3>1, <3>2, EndStep
      <3> QED  BY <3>2, <3>3 DEF Schedule!Next
    <2>4. ASSUME NEW p \in Proc, RunnerStep(p), ~SessionKilled(p)
          PROVE  Schedule!Next \/ UNCHANGED Schedule!pvars
      <3>1. CASE StartSession(p)
        BY <3>1, AttemptStep DEF Schedule!Next
      <3>2. CASE Writes(p)
        BY <3>2, RecordsStep DEF Schedule!Next
      <3>3. CASE UNCHANGED <<sessions, cost, live>> /\ checkpoint' = checkpoint
        BY <2>1, <3>3
      <3> QED  BY <2>4, <3>1, <3>2, <3>3, WhoRuns, WhoWrites
    <2>5. CASE PowerLoss
      BY <2>5, LoseStep DEF Schedule!Next
    <2>6. CASE JournalWork \/ InspectJournal \/ UNCHANGED vars
      BY <2>1, <2>6 DEF JournalWork, InspectJournal, vars, money, files
    <2> QED  BY <2>2, <2>3, <2>4, <2>5, <2>6 DEF Next
  <1> QED
    BY <1>1, <1>2, Accounts, Spends, Courses, PTL DEF Spec, ScheduleKept, Schedule!Spec
=============================================================================
