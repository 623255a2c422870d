-------------------------- MODULE LaunchGate_proofs --------------------------
(***************************************************************************)
(* What the launch gate promises, for any commands, tasks, receipt paths   *)
(* and bounds: nobody appends to a journal he does not know (NoDrift), the *)
(* paid wave starts once (OneLaunch), what is run again was journaled      *)
(* first (SpendJournaled), a receipt reports what was committed            *)
(* (ReceiptsTrue), the durable part of the journal implements the abstract *)
(* ledger (JournalKeepsLedger), and everything keeps its type and bound    *)
(* (TypesHold).  The inductive invariant says what the flock lets each     *)
(* command conclude at each of its points; a command that does not hold it *)
(* knows almost nothing, so a step of one disturbs no other.               *)
(***************************************************************************)
EXTENDS LaunchGate, BudgetJournal_proofs, FiniteSetTheorems, TLAPS

\* A paid request of the document's run was authorized, or settled.
Paid(d) == \E i \in DOMAIN d : d[i].action = "request_authorized"
Settled(d, cost) == \E i \in DOMAIN d : d[i].action = "committed" /\ d[i].cost = cost

\* Between the call that opens the journal and the one that closes it.
Holding == {"launch", "reserving", "authorizing", "aborting", "running", "committing",
            "recover", "auditing", "matching", "resuming"}

Point == Holding \cup {"idle", "audited", "scanned", "tainting", "rerunning"}

JobTyped == [pc : Point, path : Path \cup {NoPath}, from : Path \cup {NoPath},
             tx : Int, cost : Int, rows : SUBSET Task, clean : SUBSET Task,
             failed : SUBSET Task, exceptions : SUBSET Task]

\* A launch that reserves: the run was not paid for.
ReservingOK(p) == At(p, "reserving") /\ jstep # "raised" =>
    ~Paid(jdisk) /\ (jstep \in {"write", "replace"} => jevent.action = "reserved")

\* One that authorizes: the wave was not started, and is only once it may be.
AuthorizingOK(p) == At(p, "authorizing") /\ jstep # "raised" =>
    /\ launches = 0
    /\ jstep \in {"write", "replace"} =>
          jevent.action = "request_authorized" /\ jevent.tx = job[p].tx
    /\ jstep \in {"sync", "idle"} => State(jdisk, job[p].tx) = "request_authorized"
    /\ jstep = "idle" => Paid(jsynced)

RunningOK(p) == At(p, "running") =>
    jstep = "idle" /\ State(jdisk, job[p].tx) = "request_authorized"

\* A command that commits: there is no receipt yet, and what it will report ...
CommittingOK(p) == At(p, "committing") /\ jstep # "raised" =>
    /\ \A x \in Path : receipt[x].kind # "success"
    /\ jstep \in {"write", "replace"} =>
          jevent.action = "committed" /\ jevent.cost = job[p].cost
    /\ jstep = "sync" => Settled(jdisk, job[p].cost)
    /\ jstep = "idle" => Settled(jsynced, job[p].cost)

ResumingOK(p) == At(p, "resuming") /\ jstep # "raised" =>
    IF jstep \in {"sync", "idle"} THEN ResumedIn(jdisk, job[p].rows)
    ELSE jevent.action = "trial_resume_authorized" /\ jevent.note.trials = job[p].rows

TaintingOK(p) == At(p, "tainting") => ResumedIn(jdisk, job[p].rows)

JobOK(p) ==
    /\ job[p].pc \in Holding => jlock = p
    /\ ReservingOK(p) /\ AuthorizingOK(p) /\ RunningOK(p) /\ CommittingOK(p)
    /\ ResumingOK(p) /\ TaintingOK(p)

LaunchesOK == launches \in Nat /\ launches <= 1 /\ (launches > 0 => Paid(jsynced))

ReceiptsOK ==
    /\ receipt = [x \in Path |-> receipt[x]]
    /\ \A x \in Path : receipt[x].kind = "success" => Settled(jsynced, receipt[x].cost)
    /\ \A x, y \in Path :
          receipt[x].kind = "success" /\ receipt[y].kind = "success" => x = y

IInv ==
    /\ JInv
    /\ job \in [Proc -> JobTyped]
    /\ LaunchesOK /\ ReceiptsOK
    /\ \A p \in Proc : JobOK(p)

-----------------------------------------------------------------------------
(* What a document of one run says                                           *)

USE GateAssumption, JournalAssumption

LEMMA OneTransaction ==
  ASSUME NEW d, Sound(d), NEW t,
         State(d, t) \in {"reserved", "request_authorized"},
         NEW i \in DOMAIN d, d[i].action = "request_authorized"
  PROVE  d[i].tx = t
  <1> DEFINE u == d[i].tx
  <1>1. t \in Transactions(d) /\ u \in Transactions(d)
    BY StateFacts
  <1>2. d[t].run = d[u].run /\ t \in DOMAIN d /\ u \in DOMAIN d /\ t \in Int /\ u \in Int
    <2>1. d \in Seq(AnyEvent) /\ t \in DOMAIN d /\ u \in DOMAIN d
      BY <1>1 DEF Sound, Transactions
    <2>2. d[t] \in AnyEvent /\ d[u] \in AnyEvent /\ t \in Int /\ u \in Int
      BY <2>1
    <2> QED  BY <2>1, <2>2 DEF AnyEvent
  <1>3. \A j \in DOMAIN d : d[j].action = "aborted_pre_request" => d[j].tx # u
    BY DEF Sound, SettledOnce
  <1>4. \A j \in DOMAIN d : d[j].action = "aborted_pre_request" => d[j].tx # t
    <2>1. CASE State(d, t) = "reserved"
      BY <2>1, StateFacts
    <2>2. CASE State(d, t) = "request_authorized"
      <3>1. PICK k \in DOMAIN d : d[k].tx = t /\ d[k].action = "request_authorized"
        BY <2>2, StateFacts
      <3> QED  BY <3>1 DEF Sound, SettledOnce
    <2> QED  BY <2>1, <2>2
  <1>5. \A j \in DOMAIN d : \A k \in 1 .. j - 1 : k \in DOMAIN d
    BY DEF Sound
  <1>6. d[t].action = "reserved" /\ d[u].action = "reserved"
    BY <1>1 DEF Transactions
  <1>7. ~(t < u) /\ ~(u < t)
    BY <1>2, <1>3, <1>4, <1>5, <1>6 DEF Sound, OneLive
  <1> QED  BY <1>2, <1>7

\* A live reservation was not paid for, and nothing of an authorized one is settled.
LEMMA LiveUnpaid ==
  ASSUME NEW d, Sound(d)
  PROVE  /\ \A t : State(d, t) = "reserved" => ~Paid(d)
         /\ \A t : State(d, t) = "request_authorized" => ~\E cost : Settled(d, cost)
         /\ Live(d, TheRun) = {} => ~Paid(d)
  <1>1. \A t : State(d, t) = "reserved" => ~Paid(d)
    BY OneTransaction, StateFacts DEF Paid
  <1>2. ASSUME NEW t, State(d, t) = "request_authorized", NEW i \in DOMAIN d,
               d[i].action = "committed"
        PROVE  FALSE
    <2>1. PICK j \in 1 .. i - 1 : d[j].action = "request_authorized" /\ d[j].tx = d[i].tx
      BY <1>2 DEF Sound, SettledOnce
    <2>2. j \in DOMAIN d
      BY <2>1 DEF Sound
    <2>3. d[i].tx = t
      BY <1>2, <2>1, <2>2, OneTransaction
    <2> QED  BY <1>2, <2>3, StateFacts
  <1>3. ASSUME NEW i \in DOMAIN d, d[i].action = "request_authorized"
        PROVE  d[i].tx \in Live(d, TheRun)
    <2>1. d[i].tx \in Transactions(d) /\ State(d, d[i].tx) \in {"request_authorized", "committed"}
      BY <1>3, StateFacts
    <2>2. d[d[i].tx] \in AnyEvent
      BY <2>1 DEF Sound, Transactions
    <2>3. d[d[i].tx].run = TheRun
      BY <2>2 DEF AnyEvent
    <2> QED  BY <2>1, <2>3 DEF Live
  <1> QED  BY <1>1, <1>2, <1>3 DEF Paid, Settled

-----------------------------------------------------------------------------
(* One command moves, the others stay                                        *)

\* p alone changes its job.
JobStep(p) == job' \in [Proc -> JobTyped] /\ \A q \in Proc : q # p => job'[q] = job[q]

\* No success receipt appears.
Calm == \A x \in Path : receipt'[x].kind = "success" => receipt[x].kind = "success"

LEMMA JobSet ==
  ASSUME job \in [Proc -> JobTyped], NEW p \in Proc, NEW j \in JobTyped,
         job' = [job EXCEPT ![p] = j]
  PROVE  JobStep(p) /\ job'[p] = j
  BY DEF JobStep

LEMMA JobGoto ==
  ASSUME job \in [Proc -> JobTyped], NEW p \in Proc, NEW pc \in Point, Goto(p, pc)
  PROVE  /\ JobStep(p) /\ job'[p].pc = pc
         /\ job'[p].tx = job[p].tx /\ job'[p].cost = job[p].cost /\ job'[p].rows = job[p].rows
  BY DEF JobStep, JobTyped, Goto

LEMMA JobWrites ==
  ASSUME NEW k \in JobTyped
  PROVE  /\ \A t \in Int : LET m == [k EXCEPT !.tx = t]
                           IN  m \in JobTyped /\ m.pc = k.pc /\ m.tx = t
         /\ \A c \in Int : LET m == [k EXCEPT !.cost = c]
                           IN  m \in JobTyped /\ m.pc = k.pc /\ m.cost = c
         /\ \A rows \in SUBSET Task : LET m == [k EXCEPT !.rows = rows]
                                      IN  m \in JobTyped /\ m.pc = k.pc /\ m.rows = rows
  <1>1. ASSUME NEW t \in Int PROVE [k EXCEPT !.tx = t] \in JobTyped
    BY DEF JobTyped
  <1>2. ASSUME NEW c \in Int PROVE [k EXCEPT !.cost = c] \in JobTyped
    BY DEF JobTyped
  <1>3. ASSUME NEW rows \in SUBSET Task PROVE [k EXCEPT !.rows = rows] \in JobTyped
    BY DEF JobTyped
  <1>4. /\ \A t : [k EXCEPT !.tx = t].pc = k.pc /\ [k EXCEPT !.tx = t].tx = t
        /\ \A c : [k EXCEPT !.cost = c].pc = k.pc /\ [k EXCEPT !.cost = c].cost = c
        /\ \A x : [k EXCEPT !.rows = x].pc = k.pc /\ [k EXCEPT !.rows = x].rows = x
    BY DEF JobTyped
  <1> QED  BY <1>1, <1>2, <1>3, <1>4

\* ... and with what the command remembers.
LEMMA JobGotoTx ==
  ASSUME job \in [Proc -> JobTyped], NEW p \in Proc, NEW pc \in Point, NEW t \in Int,
         job' = [job EXCEPT ![p].pc = pc, ![p].tx = t]
  PROVE  JobStep(p) /\ job'[p].pc = pc /\ job'[p].tx = t
  <1> DEFINE j == [job EXCEPT ![p].pc = pc]
  <1>1. j \in [Proc -> JobTyped] /\ j[p].pc = pc /\ \A q \in Proc : q # p => j[q] = job[q]
    BY DEF JobTyped
  <1>2. job' = [j EXCEPT ![p].tx = t]
    OBVIOUS
  <1> HIDE DEF j
  <1>3. PICK k \in JobTyped : k = j[p]
    BY <1>1
  <1> DEFINE m == [k EXCEPT !.tx = t]
  <1>4. m \in JobTyped /\ m.pc = k.pc /\ m.tx = t
    BY JobWrites
  <1>5. job' = [job EXCEPT ![p] = m]
    BY <1>2, <1>3 DEF j
  <1> HIDE DEF m
  <1> QED  BY <1>1, <1>3, <1>4, <1>5, JobSet

LEMMA JobGotoCost ==
  ASSUME job \in [Proc -> JobTyped], NEW p \in Proc, NEW pc \in Point, NEW c \in Int,
         job' = [job EXCEPT ![p].pc = pc, ![p].cost = c]
  PROVE  JobStep(p) /\ job'[p].pc = pc /\ job'[p].cost = c
  <1> DEFINE j == [job EXCEPT ![p].pc = pc]
  <1>1. j \in [Proc -> JobTyped] /\ j[p].pc = pc /\ \A q \in Proc : q # p => j[q] = job[q]
    BY DEF JobTyped
  <1>2. job' = [j EXCEPT ![p].cost = c]
    OBVIOUS
  <1> HIDE DEF j
  <1>3. PICK k \in JobTyped : k = j[p]
    BY <1>1
  <1> DEFINE m == [k EXCEPT !.cost = c]
  <1>4. m \in JobTyped /\ m.pc = k.pc /\ m.cost = c
    BY JobWrites
  <1>5. job' = [job EXCEPT ![p] = m]
    BY <1>2, <1>3 DEF j
  <1> HIDE DEF m
  <1> QED  BY <1>1, <1>3, <1>4, <1>5, JobSet

LEMMA JobGotoRows ==
  ASSUME job \in [Proc -> JobTyped], NEW p \in Proc, NEW pc \in Point,
         NEW rows \in SUBSET Task,
         job' = [job EXCEPT ![p].pc = pc, ![p].rows = rows]
  PROVE  JobStep(p) /\ job'[p].pc = pc /\ job'[p].rows = rows
  <1> DEFINE j == [job EXCEPT ![p].pc = pc]
  <1>1. j \in [Proc -> JobTyped] /\ j[p].pc = pc /\ \A q \in Proc : q # p => j[q] = job[q]
    BY DEF JobTyped
  <1>2. job' = [j EXCEPT ![p].rows = rows]
    OBVIOUS
  <1> HIDE DEF j
  <1>3. PICK k \in JobTyped : k = j[p]
    BY <1>1
  <1> DEFINE m == [k EXCEPT !.rows = rows]
  <1>4. m \in JobTyped /\ m.pc = k.pc /\ m.rows = rows
    BY JobWrites
  <1>5. job' = [job EXCEPT ![p] = m]
    BY <1>2, <1>3 DEF j
  <1> HIDE DEF m
  <1> QED  BY <1>1, <1>3, <1>4, <1>5, JobSet

LEMMA IdleTyped == Idle \in JobTyped /\ Idle.pc = "idle"
  <1>1. {} \in SUBSET Task
    OBVIOUS
  <1> QED  BY <1>1 DEF Idle, JobTyped, Point

\* A command that does not hold the lock knows only what stays on the disk.
LEMMA OtherJob ==
  ASSUME NEW q \in Proc, JobOK(q), jlock # q, DiskKept, job'[q] = job[q]
  PROVE  JobOK(q)'
  <1>1. job'[q].pc \notin Holding
    BY DEF JobOK
  <1>2. ResumedIn(jdisk, job[q].rows) => ResumedIn(jdisk', job[q].rows)
    BY DEF ResumedIn, DiskKept
  <1> QED
    BY <1>1, <1>2 DEF JobOK, Holding, At, ReservingOK, AuthorizingOK, RunningOK,
                      CommittingOK, ResumingOK, TaintingOK

LEMMA UntouchedJob ==
  ASSUME NEW q \in Proc, JobOK(q), UNCHANGED <<jdisk, jsynced, jlock, jstep, jevent, launches>>,
         Calm, job'[q] = job[q]
  PROVE  JobOK(q)'
  BY DEF JobOK, At, ReservingOK, AuthorizingOK, RunningOK, CommittingOK, ResumingOK,
         TaintingOK, Calm

\* At these points a command claims nothing, ...
LEMMA HarmlessJob ==
  ASSUME NEW p \in Proc, job'[p].pc \notin Holding \cup {"tainting"}
  PROVE  JobOK(p)'
  BY DEF JobOK, Holding, At, ReservingOK, AuthorizingOK, RunningOK, CommittingOK, ResumingOK,
         TaintingOK

\* ... and at these only that it holds the lock.
LEMMA HoldingJob ==
  ASSUME NEW p \in Proc, jlock' = p,
         job'[p].pc \in {"launch", "aborting", "recover", "auditing", "matching"}
  PROVE  JobOK(p)'
  BY DEF JobOK, At, ReservingOK, AuthorizingOK, RunningOK, CommittingOK, ResumingOK,
         TaintingOK

LEMMA Assemble ==
  ASSUME IInv, NEW p \in Proc, JobStep(p), JInv', SyncedKept, DiskKept,
         jlock \in {p, Nobody} \/ (UNCHANGED <<jsynced, jdisk, jlock, jstep, jevent, launches>> /\ Calm),
         LaunchesOK', ReceiptsOK', JobOK(p)'
  PROVE  IInv'
  <1>1. ASSUME NEW q \in Proc, q # p
        PROVE  JobOK(q)'
    <2>1. JobOK(q) /\ job'[q] = job[q]
      BY <1>1 DEF IInv, JobStep
    <2>2. CASE jlock \in {p, Nobody}
      BY <1>1, <2>1, <2>2, OtherJob
    <2> QED  BY <2>1, <2>2, UntouchedJob
  <1> QED  BY <1>1 DEF IInv, JobStep

LEMMA LaunchesKept ==
  ASSUME LaunchesOK, SyncedKept, launches' = launches
  PROVE  LaunchesOK'
  BY DEF LaunchesOK, SyncedKept, Paid

LEMMA ReceiptsKept ==
  ASSUME ReceiptsOK, SyncedKept, receipt' = receipt
  PROVE  ReceiptsOK'
  BY DEF ReceiptsOK, SyncedKept, Settled

\* A path gets a content that is no success.
LEMMA ReceiptsCalm ==
  ASSUME ReceiptsOK, SyncedKept, NEW x \in Path, NEW c, c.kind # "success",
         receipt' = [receipt EXCEPT ![x] = c]
  PROVE  ReceiptsOK' /\ Calm
  <1>1. \A y \in Path : receipt'[y] = IF y = x THEN c ELSE receipt[y]
    BY DEF ReceiptsOK
  <1>2. receipt' = [y \in Path |-> receipt'[y]]
    BY DEF ReceiptsOK
  <1> QED  BY <1>1, <1>2 DEF ReceiptsOK, Calm, SyncedKept, Settled

\* An exception, a death, a return: the lock is released, and nothing claimed.
LEMMA ExitSafe ==
  ASSUME IInv, NEW p \in Proc, Exit(p), launches' = launches,
         receipt' = receipt
         \/ (jlock = p /\ \E x \in Path : \E c : c.kind # "success" /\ receipt' = [receipt EXCEPT ![x] = c])
  PROVE  IInv'
  <1>1. UNCHANGED journalVars \/ (jlock = p /\ JClose(p))
    BY DEF Exit
  <1>2. UNCHANGED <<jdisk, jsynced>>
    BY <1>1 DEF JClose, journalVars
  <1>3. JInv' /\ SyncedKept /\ DiskKept
    BY <1>1, <1>2, JQuietInv DEF IInv
  <1>4. JobStep(p) /\ job'[p].pc = "idle"
    BY JobSet, IdleTyped DEF Exit, IInv
  <1>5. JobOK(p)'
    BY <1>4, HarmlessJob DEF Holding
  <1>6. LaunchesOK'
    BY <1>3, LaunchesKept DEF IInv
  <1>7. ReceiptsOK'
    BY <1>3, ReceiptsKept, ReceiptsCalm DEF IInv
  <1>8. jlock \in {p, Nobody} \/ (UNCHANGED <<jsynced, jdisk, jlock, jstep, jevent, launches>> /\ Calm)
    BY <1>1 DEF journalVars, Calm
  <1> QED  BY <1>3, <1>4, <1>5, <1>6, <1>7, <1>8, Assemble

\* What else happens: the files of the waves, not the commands.
LEMMA OutsideSafe ==
  ASSUME IInv, UNCHANGED <<journalVars, job, launches, receipt>>
  PROVE  IInv'
  <1>1. JInv' /\ SyncedKept /\ DiskKept
    BY JQuietInv DEF IInv, journalVars
  <1>2. Calm
    BY DEF Calm
  <1>3. \A q \in Proc : JobOK(q)'
    BY <1>2, UntouchedJob DEF IInv, journalVars
  <1> QED  BY <1>1, <1>3, LaunchesKept, ReceiptsKept DEF IInv

-----------------------------------------------------------------------------
(* Steps of one command                                                      *)

\* A step under the lock that leaves launches and receipts alone.
LEMMA HeldSafe ==
  ASSUME IInv, NEW p \in Proc, jlock \in {p, Nobody}, JInv', SyncedKept, DiskKept, JobStep(p),
         launches' = launches, receipt' = receipt, JobOK(p)'
  PROVE  IInv'
  BY Assemble, LaunchesKept, ReceiptsKept DEF IInv

\* A step that leaves the journal alone too.
LEMMA AwaySafe ==
  ASSUME IInv, NEW p \in Proc, UNCHANGED <<journalVars, launches, receipt>>, JobStep(p),
         JobOK(p)'
  PROVE  IInv'
  <1>1. JInv' /\ SyncedKept /\ DiskKept
    BY JQuietInv DEF IInv, journalVars
  <1>2. UNCHANGED <<jsynced, jdisk, jlock, jstep, jevent, launches>> /\ Calm
    BY DEF Calm, journalVars
  <1> QED  BY <1>1, <1>2, Assemble, LaunchesKept, ReceiptsKept DEF IInv

\* The journal is opened.
LEMMA OpenSafe ==
  ASSUME IInv, NEW p \in Proc, JOpen(p), JobStep(p), UNCHANGED <<launches, receipt>>,
         job'[p].pc \in {"launch", "recover", "auditing", "matching"}
  PROVE  IInv'
  <1>1. JInv' /\ SyncedKept /\ DiskKept
    BY JQuietInv DEF IInv, JOpen
  <1>2. JobOK(p)'
    BY HoldingJob DEF JOpen
  <1> QED  BY <1>1, <1>2, HeldSafe DEF JOpen

\* Who holds the lock and may append knows the disk.
LEMMA ReadyKnows ==
  ASSUME IInv, NEW p \in Proc, JReady(p)
  PROVE  jlock = p /\ jstep = "idle" /\ jmem = jdisk /\ Sound(jdisk) /\ jdisk \in Seq(AnyEvent)
  BY DEF IInv, JInv, JReady, Sound

LEMMA Holder ==
  ASSUME IInv, NEW p \in Proc, job[p].pc \in Holding
  PROVE  jlock = p
  BY DEF IInv, JobOK

\* Each point of a command that holds the lock claims one thing.
LEMMA OneClaim ==
  ASSUME NEW p \in Proc, jlock' = p,
         \/ job'[p].pc = "reserving"   /\ ReservingOK(p)'
         \/ job'[p].pc = "authorizing" /\ AuthorizingOK(p)'
         \/ job'[p].pc = "running"     /\ RunningOK(p)'
         \/ job'[p].pc = "committing"  /\ CommittingOK(p)'
         \/ job'[p].pc = "resuming"    /\ ResumingOK(p)'
  PROVE  JobOK(p)'
  BY DEF JobOK, At, ReservingOK, AuthorizingOK, RunningOK, CommittingOK, ResumingOK,
         TaintingOK

LEMMA AppendShape ==
  ASSUME NEW p \in Proc, NEW e, JAppend(p, e)
  PROVE  /\ jlock = p /\ jlock' = p /\ jstep' \in {"write", "raised"} /\ jevent' = e
         /\ jdisk' = jdisk /\ jsynced' = jsynced
  BY DEF JAppend, JReady

LEMMA NotesTyped ==
  /\ NoNote \in Note
  /\ \A rows \in SUBSET Task, x \in Path \cup {NoPath} : [trials |-> rows, from |-> x] \in Note
  BY DEF NoNote

LEMMA UsageTyped ==
  ASSUME NEW rows \in SUBSET Task
  PROVE  Usage(rows) \in Int
  <1>1. IsFiniteSet(rows)
    BY FS_Subset
  <1>2. Cardinality(Task) \in Nat /\ Cardinality(rows) \in Nat
    BY <1>1, FS_CardinalityType
  <1> QED  BY <1>2 DEF Usage

\* While a transaction is authorized, nothing was reported.
LEMMA NoReceiptYet ==
  ASSUME IInv, NEW t, State(jdisk, t) = "request_authorized"
  PROVE  \A x \in Path : receipt[x].kind # "success"
  <1>1. Sound(jdisk) /\ IsPrefixOf(jsynced, jdisk) /\ ReceiptsOK
    BY DEF IInv, JInv
  <1>2. \A c : Settled(jsynced, c) => Settled(jdisk, c)
    BY <1>1, PrefixFacts DEF Settled
  <1> QED  BY <1>1, <1>2, LiveUnpaid DEF ReceiptsOK

LEMMA LaunchReserveSafe ==
  ASSUME IInv, NEW p \in Proc, LaunchReserve(p)
  PROVE  IInv'
  <1>1. JobStep(p) /\ job'[p].pc = "reserving"
    BY JobGoto DEF IInv, LaunchReserve, Point, Holding
  <1>2. JReserve(p, TheRun, NoNote) /\ UNCHANGED <<launches, receipt>>
    BY DEF LaunchReserve, world
  <1>3. JReady(p)
    BY <1>2 DEF JReserve, JAppend, JRefuse
  <1>4. jlock = p /\ jstep = "idle" /\ jmem = jdisk /\ Sound(jdisk) /\ jdisk \in Seq(AnyEvent)
    BY <1>3, ReadyKnows
  <1>5. CASE Live(jmem, TheRun) = {}
             /\ JAppend(p, EventOf("reserved", Len(jmem) + 1, TheRun, Unsettled, NoNote))
    <2> DEFINE e == EventOf("reserved", Len(jmem) + 1, TheRun, Unsettled, NoNote)
    <2>1. Len(jmem) + 1 \in Int
      BY <1>4
    <2>2. e \in AnyEvent /\ e.action = "reserved"
      BY <2>1, NotesTyped DEF EventOf, AnyEvent, Action, Unsettled
    <2>3. JInv' /\ SyncedKept /\ DiskKept
      BY <1>5, <2>2, JAppendInv DEF IInv
    <2>4. ~Paid(jdisk)
      BY <1>4, <1>5, LiveUnpaid
    <2>5. JobOK(p)'
      BY <1>1, <1>5, <2>2, <2>4, AppendShape, OneClaim DEF ReservingOK
    <2> QED  BY <1>1, <1>2, <1>4, <2>3, <2>5, HeldSafe
  <1>6. CASE (\E t \in Live(jmem, TheRun) : Reserved(t, NoNote)) /\ UNCHANGED journalVars
    <2>1. ~Paid(jdisk)
      BY <1>4, <1>6, LiveUnpaid DEF Reserved
    <2>2. JobOK(p)'
      BY <1>1, <1>4, <1>6, <2>1, OneClaim DEF ReservingOK, journalVars
    <2> QED  BY <1>1, <1>2, <1>6, <2>2, AwaySafe
  <1>7. CASE JRefuse(p)
    <2>1. JInv' /\ SyncedKept /\ DiskKept
      BY <1>7, JQuietInv DEF IInv, JRefuse
    <2>2. JobOK(p)'
      BY <1>1, <1>4, <1>7, OneClaim DEF ReservingOK, JRefuse
    <2> QED  BY <1>1, <1>2, <1>4, <2>1, <2>2, HeldSafe
  <1> QED  BY <1>2, <1>5, <1>6, <1>7 DEF JReserve

LEMMA LaunchAuthorizeSafe ==
  ASSUME IInv, NEW p \in Proc, LaunchAuthorize(p)
  PROVE  IInv'
  <1>1. At(p, "reserving") /\ JReady(p) /\ UNCHANGED <<launches, receipt>>
    BY DEF LaunchAuthorize, world
  <1>2. PICK t \in Live(jmem, TheRun) :
          /\ JAuthorize(p, t, Len(jmem), NoNote)
          /\ job' = [job EXCEPT ![p].pc = "authorizing", ![p].tx = t]
    BY DEF LaunchAuthorize
  <1>3. jlock = p /\ jstep = "idle" /\ jmem = jdisk /\ Sound(jdisk) /\ jdisk \in Seq(AnyEvent)
    BY <1>1, ReadyKnows
  <1>4. t \in Int
    BY <1>2, <1>3 DEF Live, Transactions
  <1>5. JobStep(p) /\ job'[p].pc = "authorizing" /\ job'[p].tx = t
    BY <1>2, <1>4, JobGotoTx DEF IInv, Point, Holding
  <1>6. launches = 0
    <2>1. ~Paid(jdisk)
      BY <1>1, <1>3 DEF IInv, JobOK, ReservingOK
    <2>2. ~Paid(jsynced)
      BY <2>1, PrefixFacts DEF IInv, JInv, Paid
    <2> QED  BY <2>2 DEF IInv, LaunchesOK
  <1>7. CASE JRefuse(p)
    <2>1. JInv' /\ SyncedKept /\ DiskKept
      BY <1>7, JQuietInv DEF IInv, JRefuse
    <2>2. JobOK(p)'
      BY <1>3, <1>5, <1>7, OneClaim DEF AuthorizingOK, JRefuse
    <2> QED  BY <1>1, <1>3, <1>5, <2>1, <2>2, HeldSafe
  <1>8. CASE State(jmem, t) = "reserved"
             /\ JAppend(p, EventOf("request_authorized", t, jmem[t].run, Unsettled, NoNote))
    <2> DEFINE e == EventOf("request_authorized", t, jmem[t].run, Unsettled, NoNote)
    <2>1. t \in Transactions(jdisk)
      BY <1>3, <1>8, StateFacts
    <2>2. e \in AnyEvent
      BY <1>3, <2>1, EventTyped, NotesTyped DEF Action, Unsettled
    <2>3. JInv' /\ SyncedKept /\ DiskKept
      BY <1>8, <2>2, JAppendInv DEF IInv
    <2>4. e.action = "request_authorized" /\ e.tx = t
      BY DEF EventOf
    <2>5. JobOK(p)'
      BY <1>1, <1>5, <1>6, <1>8, <2>4, AppendShape, OneClaim DEF AuthorizingOK
    <2> QED  BY <1>1, <1>3, <1>5, <2>3, <2>5, HeldSafe
  <1> QED  BY <1>2, <1>7, <1>8 DEF JAuthorize

\* Both ways into an abort: before the authorization, and after it raised.
LEMMA LaunchAbortSafe ==
  ASSUME IInv, NEW p \in Proc, LaunchDrifted(p) \/ LaunchAuthorizeRaised(p)
  PROVE  IInv'
  <1>1. \E t : JAbort(p, t, NoNote)
    BY DEF LaunchDrifted, LaunchAuthorizeRaised
  <1>2. JInv' /\ SyncedKept /\ DiskKept /\ jlock = p /\ jlock' = p
    BY <1>1, JAbortInv, NotesTyped DEF IInv, JAbort
  <1>3. UNCHANGED <<launches, receipt>>
    BY DEF LaunchDrifted, LaunchAuthorizeRaised, world
  <1>4. JobStep(p) /\ job'[p].pc = "aborting"
    <2>1. CASE LaunchDrifted(p)
      <3>1. JReady(p) /\ \E t \in Live(jmem, TheRun) :
              job' = [job EXCEPT ![p].pc = "aborting", ![p].tx = t]
        BY <2>1 DEF LaunchDrifted
      <3>2. \A t \in Live(jmem, TheRun) : t \in Int
        BY <3>1, ReadyKnows DEF Live, Transactions
      <3> QED  BY <3>1, <3>2, JobGotoTx DEF IInv, Point, Holding
    <2>2. CASE LaunchAuthorizeRaised(p)
      BY <2>2, JobGoto DEF LaunchAuthorizeRaised, IInv, Point, Holding
    <2> QED  BY <2>1, <2>2
  <1>5. JobOK(p)'
    BY <1>2, <1>4, HoldingJob
  <1> QED  BY <1>2, <1>3, <1>4, <1>5, HeldSafe

LEMMA LaunchRunSafe ==
  ASSUME IInv, NEW p \in Proc, LaunchRun(p)
  PROVE  IInv'
  <1>1. /\ At(p, "authorizing") /\ JReady(p) /\ launches' = launches + 1
        /\ UNCHANGED <<journalVars, receipt>>
    BY DEF LaunchRun
  <1>2. JobStep(p) /\ job'[p].pc = "running" /\ job'[p].tx = job[p].tx
    BY JobGoto DEF LaunchRun, IInv, Point, Holding
  <1>3. jlock = p /\ jstep = "idle"
    BY <1>1, ReadyKnows
  <1>4. launches = 0 /\ State(jdisk, job[p].tx) = "request_authorized" /\ Paid(jsynced)
    BY <1>1, <1>3 DEF IInv, JobOK, AuthorizingOK
  <1>5. JInv' /\ SyncedKept /\ DiskKept
    BY <1>1, JQuietInv DEF IInv, journalVars
  <1>6. LaunchesOK'
    BY <1>1, <1>4 DEF LaunchesOK, journalVars
  <1>7. JobOK(p)'
    BY <1>1, <1>2, <1>3, <1>4, OneClaim DEF RunningOK, journalVars
  <1>8. ReceiptsOK'
    BY <1>1, <1>5, ReceiptsKept DEF IInv
  <1> QED  BY <1>2, <1>3, <1>5, <1>6, <1>7, <1>8, Assemble

\* A command that settles the authorized transaction t.
LEMMA CommitSafe ==
  ASSUME IInv, NEW p \in Proc, JReady(p), NEW t, State(jmem, t) = "request_authorized",
         NEW cost \in Int, JCommit(p, t, cost, NoNote),
         job' = [job EXCEPT ![p].pc = "committing", ![p].cost = cost],
         UNCHANGED <<launches, receipt>>
  PROVE  IInv'
  <1> DEFINE e == EventOf("committed", t, jmem[t].run, cost, NoNote)
  <1>1. JAppend(p, e)
    <2>1. Events(jmem, t, "committed") = {}
      BY DEF State, Has, Events
    <2> QED  BY <2>1 DEF JCommit
  <1>2. jlock = p /\ jstep = "idle" /\ jmem = jdisk /\ Sound(jdisk) /\ jdisk \in Seq(AnyEvent)
    BY ReadyKnows
  <1>3. JobStep(p) /\ job'[p].pc = "committing" /\ job'[p].cost = cost
    BY JobGotoCost DEF IInv, Point, Holding
  <1>4. e \in AnyEvent
    BY <1>2, StateFacts, EventTyped, NotesTyped DEF Action
  <1>5. JInv' /\ SyncedKept /\ DiskKept
    BY <1>1, <1>4, JAppendInv DEF IInv
  <1>6. e.action = "committed" /\ e.cost = cost
    BY DEF EventOf
  <1>7. \A x \in Path : receipt[x].kind # "success"
    BY <1>2, NoReceiptYet
  <1>8. JobOK(p)'
    BY <1>1, <1>3, <1>6, <1>7, AppendShape, OneClaim DEF CommittingOK
  <1> QED  BY <1>2, <1>3, <1>5, <1>8, HeldSafe

LEMMA LaunchCommitSafe ==
  ASSUME IInv, NEW p \in Proc, LaunchCommit(p)
  PROVE  IInv'
  <1>1. /\ At(p, "running") /\ JCommit(p, job[p].tx, Usage({}), NoNote)
        /\ job' = [job EXCEPT ![p].pc = "committing", ![p].cost = Usage({})]
        /\ UNCHANGED <<launches, receipt>>
    BY DEF LaunchCommit, world
  <1>2. jlock = p /\ jstep = "idle" /\ State(jdisk, job[p].tx) = "request_authorized"
    BY <1>1, Holder DEF IInv, JobOK, RunningOK, At, Holding
  <1>3. JReady(p)
    BY <1>2 DEF JReady
  <1>4. State(jmem, job[p].tx) = "request_authorized"
    BY <1>2, <1>3, ReadyKnows
  <1>5. Usage({}) \in Int
    BY UsageTyped
  <1> QED  BY <1>1, <1>3, <1>4, <1>5, CommitSafe

LEMMA AuditCommitSafe ==
  ASSUME IInv, NEW p \in Proc, AuditCommit(p)
  PROVE  IInv'
  <1>1. JReady(p) /\ UNCHANGED <<launches, receipt>>
    BY DEF AuditCommit, world
  <1>2. CASE Exit(p)
    BY <1>1, <1>2, ExitSafe
  <1>3. ASSUME ~Exit(p)
        PROVE  \E t \in Matches : State(jmem, t) = "request_authorized"
                                  /\ JCommit(p, t, Usage(job[p].rows), NoNote)
    BY <1>3 DEF AuditCommit, ExactAuthorized
  <1>4. CASE ~Exit(p)
    <2>1. job' = [job EXCEPT ![p].pc = "committing", ![p].cost = Usage(job[p].rows)]
      BY <1>4 DEF AuditCommit
    <2>2. Usage(job[p].rows) \in Int
      BY UsageTyped DEF IInv, JobTyped
    <2> QED  BY <1>1, <1>3, <1>4, <2>1, <2>2, CommitSafe
  <1> QED  BY <1>2, <1>4

\* The one step that writes a success receipt.
LEMMA ReceiptSafe ==
  ASSUME IInv, NEW p \in Proc, Receipt(p)
  PROVE  IInv'
  <1>1. /\ At(p, "committing") /\ JReady(p) /\ Exit(p) /\ launches' = launches
        /\ \/ \E c \in {Success(job[p].cost), Torn} :
                receipt' = [receipt EXCEPT ![job[p].path] = c]
           \/ receipt' = receipt
    BY DEF Receipt, Publish, world
  <1>2. CASE receipt' = receipt
    BY <1>1, <1>2, ExitSafe
  <1>3. CASE receipt' = [receipt EXCEPT ![job[p].path] = Torn]
    <2>1. job[p].path \in Path \/ receipt' = receipt
      BY <1>3 DEF IInv, ReceiptsOK
    <2> QED  BY <1>1, <1>2, <1>3, <2>1, ReadyKnows, ExitSafe DEF Torn
  <1>4. CASE receipt' = [receipt EXCEPT ![job[p].path] = Success(job[p].cost)]
    <2>1. jlock = p /\ jstep = "idle" /\ JClose(p)
      BY <1>1 DEF JReady, Exit
    <2>2. UNCHANGED <<jdisk, jsynced>>
      BY <2>1 DEF JClose
    <2>3. JInv' /\ SyncedKept /\ DiskKept
      BY <2>1, <2>2, JQuietInv DEF IInv
    <2>4. JobStep(p) /\ job'[p].pc = "idle"
      BY <1>1, JobSet, IdleTyped DEF Exit, IInv
    <2>5. JobOK(p)'
      BY <2>4, HarmlessJob DEF Holding
    <2>6. /\ \A x \in Path : receipt[x].kind # "success"
          /\ Settled(jsynced, job[p].cost)
      BY <1>1, <2>1 DEF IInv, JobOK, CommittingOK
    <2>7. ReceiptsOK'
      <3> DEFINE x == job[p].path
      <3>1. \A y \in Path : receipt'[y] = IF y = x THEN Success(job[p].cost) ELSE receipt[y]
        BY <1>4 DEF IInv, ReceiptsOK
      <3>2. receipt' = [y \in Path |-> receipt'[y]]
        BY <1>4 DEF IInv, ReceiptsOK
      <3> HIDE DEF x
      <3> QED  BY <2>2, <2>6, <3>1, <3>2 DEF ReceiptsOK, Settled, Success
    <2>8. LaunchesOK'
      BY <1>1, <2>3, LaunchesKept DEF IInv
    <2> QED  BY <2>1, <2>3, <2>4, <2>5, <2>7, <2>8, Assemble
  <1> QED  BY <1>1, <1>2, <1>3, <1>4

\* A failure receipt, and the steps that may write one.
LEMMA PublishFailureSafe ==
  ASSUME IInv, NEW p \in Proc, jlock = p, NEW stage, NEW rc, PublishFailure(p, stage, rc)
  PROVE  IInv'
  <1>1. /\ Exit(p) /\ launches' = launches
        /\ \/ \E c \in {Failure(stage, rc), Torn} :
                receipt' = [receipt EXCEPT ![job[p].path] = c]
           \/ receipt' = receipt
    BY DEF PublishFailure, Publish, world
  <1>2. \A c \in {Failure(stage, rc), Torn} : c.kind # "success"
    BY DEF Failure, Torn
  <1>3. job[p].path \in Path \/ receipt' = receipt
    BY <1>1 DEF IInv, ReceiptsOK
  <1> QED  BY <1>1, <1>2, <1>3, ExitSafe

LEMMA FailedSafe ==
  ASSUME IInv, NEW p \in Proc, LaunchFailed(p) \/ Recover(p)
  PROVE  IInv'
  <1>1. jlock = p
    BY Holder DEF LaunchFailed, Recover, At, Holding
  <1>2. (\E stage, rc : PublishFailure(p, stage, rc)) \/ (Exit(p) /\ UNCHANGED <<world, receipt>>)
    BY DEF LaunchFailed, Recover
  <1> QED  BY <1>1, <1>2, PublishFailureSafe, ExitSafe DEF world

\* The steps that only leave.
Leaving(p) ==
    \/ LaunchAborted(p) \/ LaunchNoCredential(p) \/ LaunchInterrupted(p)
    \/ Raised(p) \/ JournalRefused(p) \/ ResumeRefused(p) \/ ResumeBurned(p)
    \/ ResumeRunnerFailed(p) \/ Crash(p)

LEMMA LeavingSafe ==
  ASSUME IInv, NEW p \in Proc, Leaving(p)
  PROVE  IInv'
  <1>1. Exit(p) /\ UNCHANGED <<launches, receipt>>
    BY DEF Leaving, LaunchAborted, LaunchNoCredential, LaunchInterrupted, Raised,
           JournalRefused, ResumeRefused, ResumeBurned, ResumeRunnerFailed, Crash, world
  <1> QED  BY <1>1, ExitSafe

\* The records the first step of a command starts from.
LEMMA StartTyped ==
  ASSUME NEW pc \in Point, NEW path \in Path
  PROVE  LET j == [Idle EXCEPT !.pc = pc, !.path = path] IN j \in JobTyped /\ j.pc = pc
  BY IdleTyped DEF JobTyped

LEMMA StartFromTyped ==
  ASSUME NEW pc \in Point, NEW path \in Path, NEW from \in Path
  PROVE  LET j == [Idle EXCEPT !.pc = pc, !.path = path, !.from = from]
         IN  j \in JobTyped /\ j.pc = pc
  BY IdleTyped DEF JobTyped

LEMMA StartSafe ==
  ASSUME IInv, NEW p \in Proc, NEW path \in Path, LaunchStart(p, path) \/ RecoverStart(p, path)
  PROVE  IInv'
  <1>1. JOpen(p) /\ UNCHANGED <<launches, receipt>>
    BY DEF LaunchStart, RecoverStart, world
  <1>2. PICK pc \in {"launch", "recover"} :
          job' = [job EXCEPT ![p] = [Idle EXCEPT !.pc = pc, !.path = path]]
    BY DEF LaunchStart, RecoverStart
  <1>3. JobStep(p) /\ job'[p].pc = pc
    BY <1>2, StartTyped, JobSet DEF IInv, Point, Holding
  <1> QED  BY <1>1, <1>2, <1>3, OpenSafe

LEMMA ReopenSafe ==
  ASSUME IInv, NEW p \in Proc, AuditOpen(p) \/ ResumeOpen(p)
  PROVE  IInv'
  <1>1. JOpen(p) /\ UNCHANGED <<launches, receipt>>
    BY DEF AuditOpen, ResumeOpen, world
  <1>2. PICK pc \in {"auditing", "matching"} : Goto(p, pc)
    BY DEF AuditOpen, ResumeOpen
  <1>3. JobStep(p) /\ job'[p].pc = pc
    BY <1>2, JobGoto DEF IInv, Point, Holding
  <1> QED  BY <1>1, <1>2, <1>3, OpenSafe

\* What a command does before it opens the journal.
LEMMA ScanSafe ==
  ASSUME IInv, NEW p \in Proc, NEW from \in Path, NEW path \in Path,
         AuditStart(p, from, path) \/ ResumeScan(p, from, path), failed2 \subseteq Task
  PROVE  IInv'
  <1>1. UNCHANGED <<journalVars, launches, receipt>>
    BY DEF AuditStart, ResumeScan, world
  <1>2. JobStep(p) /\ job'[p].pc \in {"audited", "scanned"}
    <2>1. CASE AuditStart(p, from, path)
      <3> DEFINE j == [Idle EXCEPT !.pc = "audited", !.path = path, !.from = from]
      <3>1. job' = [job EXCEPT ![p] = j]
        BY <2>1 DEF AuditStart
      <3>2. j \in JobTyped /\ j.pc = "audited"
        BY StartFromTyped DEF Point
      <3> QED  BY <3>1, <3>2, JobSet DEF IInv
    <2>2. CASE ResumeScan(p, from, path)
      <3> DEFINE clean == {t \in Task : clean2[t] > 0}
                 j == [Idle EXCEPT !.pc = "scanned", !.path = path, !.from = from,
                         !.exceptions = Exceptions, !.clean = clean, !.failed = failed2]
      <3>1. job' = [job EXCEPT ![p] = j]
        BY <2>2 DEF ResumeScan
      <3>2. Exceptions \in SUBSET Task /\ clean \in SUBSET Task /\ failed2 \in SUBSET Task
        BY DEF Exceptions
      <3> HIDE DEF clean
      <3>3. j \in JobTyped /\ j.pc = "scanned"
        <4>1. "scanned" \in Point
          BY DEF Point
        <4> HIDE DEF j
        <4>2. \A x, c, f \in SUBSET Task :
                LET k == [Idle EXCEPT !.pc = "scanned", !.path = path, !.from = from,
                                      !.exceptions = x, !.clean = c, !.failed = f]
                IN  k \in JobTyped /\ k.pc = "scanned"
          BY <4>1, IdleTyped DEF JobTyped
        <4> QED  BY <3>2, <4>2 DEF j
      <3> QED  BY <3>1, <3>3, JobSet DEF IInv
    <2> QED  BY <2>1, <2>2
  <1>3. JobOK(p)'
    BY <1>2, HarmlessJob DEF Holding
  <1> QED  BY <1>1, <1>2, <1>3, AwaySafe

LEMMA ResumeAuthorizeSafe ==
  ASSUME IInv, NEW p \in Proc, ResumeAuthorize(p)
  PROVE  IInv'
  <1> DEFINE note == [trials |-> job[p].exceptions, from |-> job[p].from]
  <1>1. JReady(p) /\ UNCHANGED <<launches, receipt>>
    BY DEF ResumeAuthorize, world
  <1>2. PICK t \in Matches : MayResume(p, t) /\ JResume(p, t, note)
    BY DEF ResumeAuthorize
  <1>3. jlock = p /\ jstep = "idle" /\ jmem = jdisk /\ Sound(jdisk) /\ jdisk \in Seq(AnyEvent)
    BY <1>1, ReadyKnows
  <1>4. job[p].exceptions \in SUBSET Task /\ job[p].from \in Path \cup {NoPath}
    BY DEF IInv, JobTyped
  <1>5. JobStep(p) /\ job'[p].pc = "resuming" /\ job'[p].rows = job[p].exceptions
    BY <1>4, JobGotoRows DEF IInv, ResumeAuthorize, Point, Holding
  <1> DEFINE e == EventOf("trial_resume_authorized", t, jmem[t].run, Unsettled, note)
  <1>6. State(jmem, t) = "request_authorized" /\ JAppend(p, e)
    BY <1>2 DEF MayResume, ExactAuthorized, JResume
  <1>7. note \in Note /\ note.trials = job[p].exceptions
    BY <1>4, NotesTyped
  <1>8. e \in AnyEvent
    BY <1>3, <1>6, <1>7, StateFacts, EventTyped DEF Action, Unsettled
  <1>9. JInv' /\ SyncedKept /\ DiskKept
    BY <1>6, <1>8, JAppendInv DEF IInv
  <1>10. e.action = "trial_resume_authorized" /\ e.note.trials = job[p].exceptions
    BY <1>7 DEF EventOf
  <1>11. JobOK(p)'
    BY <1>5, <1>6, <1>10, AppendShape, OneClaim DEF ResumingOK
  <1> QED  BY <1>1, <1>3, <1>5, <1>9, <1>11, HeldSafe

LEMMA ResumeContinueSafe ==
  ASSUME IInv, NEW p \in Proc, ResumeContinue(p)
  PROVE  IInv'
  <1>1. JReady(p) /\ UNCHANGED <<journalVars, launches, receipt>>
    BY DEF ResumeContinue, world
  <1>2. PICK t \in Matches : \E i \in Resumes(jmem, t) :
          job' = [job EXCEPT ![p].pc = "resuming", ![p].rows = jmem[i].note.trials]
    BY DEF ResumeContinue
  <1>3. PICK i \in Resumes(jmem, t) :
          job' = [job EXCEPT ![p].pc = "resuming", ![p].rows = jmem[i].note.trials]
    BY <1>2
  <1>4. jlock = p /\ jstep = "idle" /\ jmem = jdisk /\ jdisk \in Seq(AnyEvent)
    BY <1>1, ReadyKnows
  <1>5. i \in DOMAIN jdisk /\ jdisk[i].action = "trial_resume_authorized"
    BY <1>4 DEF Resumes, Events
  <1>6. jdisk[i].note.trials \in SUBSET Task
    <2>1. jdisk[i] \in AnyEvent
      BY <1>4, <1>5
    <2>2. jdisk[i].note \in Note
      BY <2>1 DEF AnyEvent
    <2> QED  BY <2>2
  <1>7. JobStep(p) /\ job'[p].pc = "resuming" /\ job'[p].rows = jdisk[i].note.trials
    <2> DEFINE rows == jdisk[i].note.trials
    <2>1. job' = [job EXCEPT ![p].pc = "resuming", ![p].rows = rows] /\ rows \in SUBSET Task
      BY <1>3, <1>4, <1>6
    <2>2. "resuming" \in Point /\ job \in [Proc -> JobTyped]
      BY DEF IInv, Point, Holding
    <2> HIDE DEF rows
    <2>3. JobStep(p) /\ job'[p].pc = "resuming" /\ job'[p].rows = rows
      BY <2>1, <2>2, JobGotoRows
    <2> QED  BY <2>3 DEF rows
  <1>8. JobOK(p)'
    BY <1>1, <1>4, <1>5, <1>7, OneClaim DEF ResumingOK, ResumedIn, journalVars
  <1> QED  BY <1>1, <1>7, <1>8, AwaySafe

LEMMA ResumeUnlockSafe ==
  ASSUME IInv, NEW p \in Proc, ResumeUnlock(p)
  PROVE  IInv'
  <1>1. At(p, "resuming") /\ JReady(p) /\ JClose(p) /\ UNCHANGED <<launches, receipt>>
    BY DEF ResumeUnlock, world
  <1>2. JobStep(p) /\ job'[p].pc = "tainting" /\ job'[p].rows = job[p].rows
    BY JobGoto DEF ResumeUnlock, IInv, Point
  <1>3. jlock = p /\ ResumedIn(jdisk, job[p].rows)
    BY <1>1 DEF IInv, JobOK, ResumingOK, JReady
  <1>4. UNCHANGED <<jdisk, jsynced>>
    BY <1>1 DEF JClose
  <1>5. JInv' /\ SyncedKept /\ DiskKept
    BY <1>1, <1>4, JQuietInv DEF IInv
  <1>6. JobOK(p)'
    BY <1>2, <1>3, <1>4 DEF JobOK, Holding, At, ReservingOK, AuthorizingOK, RunningOK,
                          CommittingOK, ResumingOK, TaintingOK
  <1> QED  BY <1>1, <1>2, <1>3, <1>5, <1>6, HeldSafe

\* The steps between the unlock and the audit: directories and a second wave.
LEMMA TaintSafe ==
  ASSUME IInv, NEW p \in Proc,
         (\E t \in Task : Taint(p, t)) \/ ResumeRerun(p) \/ ResumeAudit(p)
  PROVE  IInv'
  <1>1. CASE \E t \in Task : Taint(p, t)
    BY <1>1, OutsideSafe DEF Taint
  <1>2. CASE ResumeRerun(p)
    <2>1. JobStep(p) /\ job'[p].pc = "rerunning"
      BY <1>2, JobGoto DEF ResumeRerun, IInv, Point
    <2>2. JobOK(p)'
      BY <2>1, HarmlessJob DEF Holding
    <2> QED  BY <1>2, <2>1, <2>2, AwaySafe DEF ResumeRerun
  <1>3. CASE ResumeAudit(p)
    <2>1. CASE Exit(p)
      BY <1>3, <2>1, ExitSafe DEF ResumeAudit, world
    <2>2. CASE Goto(p, "audited") /\ UNCHANGED journalVars
      <3>1. JobStep(p) /\ job'[p].pc = "audited"
        BY <2>2, JobGoto DEF IInv, Point
      <3>2. JobOK(p)'
        BY <3>1, HarmlessJob DEF Holding
      <3> QED  BY <1>3, <2>2, <3>1, <3>2, AwaySafe DEF ResumeAudit, world
    <2> QED  BY <1>3, <2>1, <2>2 DEF ResumeAudit
  <1> QED  BY <1>1, <1>2, <1>3

-----------------------------------------------------------------------------
(* Steps of the append, of the machine and of the operator                   *)

\* The append of p moves on, and its claim with it.
LEMMA WorkClaim ==
  ASSUME IInv, NEW p \in Proc, JWork, jlock = p, job' = job, launches' = launches,
         receipt' = receipt
  PROVE  JobOK(p)'
  <1>1. jlock' = p /\ jevent' = jevent
    BY DEF JWork, JWrite, JReplace, JSync, JFail
  <1>2. JobOK(p) /\ JInv /\ p # Nobody
    BY DEF IInv
  <1>3. CASE JFail
    BY <1>1, <1>2, <1>3 DEF JFail, JobOK, At, ReservingOK, AuthorizingOK, RunningOK,
                        CommittingOK, ResumingOK, TaintingOK
  <1>4. CASE JWrite
    BY <1>1, <1>2, <1>4 DEF JWrite, JobOK, At, ReservingOK, AuthorizingOK, RunningOK,
                        CommittingOK, ResumingOK, TaintingOK
  <1>5. CASE JSync
    <2>1. \A t : State(jdisk, t) = "request_authorized" => Paid(jdisk)
      BY <1>2, StateFacts DEF JInv, Paid
    <2> QED
      BY <1>1, <1>2, <1>5, <2>1 DEF JSync, JobOK, At, ReservingOK, AuthorizingOK, RunningOK,
                          CommittingOK, ResumingOK, TaintingOK
  <1>6. CASE JReplace
    <2>1. jmem = jdisk /\ jstep = "replace" /\ Pending1 /\ jdisk \in Seq(AnyEvent)
      BY <1>2, <1>6 DEF JInv, JReplace, Sound
    <2>2. CASE jevent = Creation
      <3>1. jdisk' = jdisk /\ jstep' = "sync" /\ jevent.action = "created" /\ UNCHANGED jsynced
        BY <1>6, <2>1, <2>2 DEF JReplace, Appended, Creation
      <3> QED
        BY <1>1, <1>2, <2>1, <3>1 DEF JobOK, At, ReservingOK, AuthorizingOK, RunningOK,
                            CommittingOK, ResumingOK, TaintingOK
    <2>3. CASE jevent # Creation
      <3>1. jevent \in AnyEvent /\ Admissible(jdisk, jevent)
        BY <2>1, <2>3 DEF Pending1
      <3>2. jdisk' = Append(jdisk, jevent) /\ jstep' = "sync" /\ UNCHANGED jsynced
        BY <1>6, <2>1, <2>3 DEF JReplace, Appended
      <3>3. /\ DOMAIN jdisk' = 1 .. Len(jdisk) + 1 /\ DOMAIN jdisk = 1 .. Len(jdisk)
            /\ Len(jdisk) \in Nat
            /\ jdisk'[Len(jdisk) + 1] = jevent /\ \A i \in DOMAIN jdisk : jdisk'[i] = jdisk[i]
        <4>1. \A d, e : d \in Seq(AnyEvent) /\ e \in AnyEvent =>
                /\ DOMAIN Append(d, e) = 1 .. Len(d) + 1 /\ DOMAIN d = 1 .. Len(d)
                /\ Len(d) \in Nat
                /\ Append(d, e)[Len(d) + 1] = e
                /\ \A i \in DOMAIN d : Append(d, e)[i] = d[i]
          OBVIOUS
        <4> QED  BY <2>1, <3>1, <3>2, <4>1
      <3>4. Len(jdisk) + 1 \in DOMAIN jdisk'
        BY <3>3
      <3>5. jevent.action = "reserved" /\ ~Paid(jdisk) => ~Paid(jdisk')
        BY <3>3 DEF Paid
      <3>6. jevent.action = "request_authorized" =>
              State(jdisk', jevent.tx) = "request_authorized"
        BY <2>1, <3>1, <3>2, AuthorizedState DEF Admissible
      <3>7. jevent.action = "committed" => Settled(jdisk', jevent.cost)
        BY <3>3, <3>4 DEF Settled
      <3>8. jevent.action = "trial_resume_authorized" => ResumedIn(jdisk', jevent.note.trials)
        BY <3>3, <3>4 DEF ResumedIn
      <3> QED
        <4>1. ReservingOK(p)'
          BY <1>2, <2>1, <3>2, <3>5 DEF JobOK, At, ReservingOK
        <4>2. AuthorizingOK(p)'
          BY <1>2, <2>1, <3>2, <3>6 DEF JobOK, At, AuthorizingOK
        <4>3. RunningOK(p)'
          BY <1>2, <2>1 DEF JobOK, At, RunningOK
        <4>4. CommittingOK(p)'
          BY <1>2, <2>1, <3>2, <3>7 DEF JobOK, At, CommittingOK
        <4>5. ResumingOK(p)'
          BY <1>2, <2>1, <3>2, <3>8 DEF JobOK, At, ResumingOK
        <4>6. TaintingOK(p)'
          <5>1. ResumedIn(jdisk, job[p].rows) => ResumedIn(jdisk', job[p].rows)
            BY <3>3 DEF ResumedIn
          <5> QED  BY <1>2, <5>1 DEF JobOK, At, TaintingOK
        <4> QED  BY <1>1, <4>1, <4>2, <4>3, <4>4, <4>5, <4>6 DEF JobOK
    <2> QED  BY <2>2, <2>3
  <1> QED  BY <1>3, <1>4, <1>5, <1>6 DEF JWork

LEMMA WorkSafe ==
  ASSUME IInv, JournalWork
  PROVE  IInv'
  <1>1. JWork /\ job' = job /\ launches' = launches /\ receipt' = receipt
    BY DEF JournalWork, world
  <1>2. JInv' /\ SyncedKept /\ DiskKept
    BY <1>1, JWorkInv DEF IInv
  <1>3. ASSUME NEW q \in Proc
        PROVE  JobOK(q)'
    <2>1. CASE jlock = q
      BY <1>1, <2>1, WorkClaim
    <2>2. CASE jlock # q
      BY <1>1, <1>2, <2>2, OtherJob DEF IInv
    <2> QED  BY <2>1, <2>2
  <1> QED  BY <1>1, <1>2, <1>3, LaunchesKept, ReceiptsKept DEF IInv

LEMMA PowerLossSafe ==
  ASSUME IInv, PowerLoss
  PROVE  IInv'
  <1>1. JPowerLoss /\ job' = [p \in Proc |-> Idle] /\ UNCHANGED <<launches, receipt>>
    BY DEF PowerLoss
  <1>2. JInv' /\ SyncedKept
    BY <1>1, JPowerLossInv DEF IInv
  <1>3. job' \in [Proc -> JobTyped] /\ \A q \in Proc : job'[q].pc = "idle"
    BY <1>1, IdleTyped
  <1>4. \A q \in Proc : JobOK(q)'
    BY <1>3, HarmlessJob DEF Holding
  <1> QED  BY <1>1, <1>2, <1>3, <1>4, LaunchesKept, ReceiptsKept DEF IInv

LEMMA InspectSafe ==
  ASSUME IInv, InspectJournal \/ \E path \in Path : Inspect(path)
  PROVE  IInv'
  <1>1. CASE InspectJournal
    <2>1. UNCHANGED <<jdisk, jsynced, jlock, jstep, jevent, launches, job, receipt>>
      BY <1>1 DEF InspectJournal, JInspect, world
    <2>2. JInv' /\ SyncedKept /\ DiskKept
      BY <1>1, <2>1, JQuietInv DEF IInv, InspectJournal
    <2>3. \A q \in Proc : JobOK(q)'
      BY <2>1, UntouchedJob DEF IInv, Calm
    <2> QED  BY <2>1, <2>2, <2>3, LaunchesKept, ReceiptsKept DEF IInv
  <1>2. ASSUME NEW x \in Path, Inspect(x)
        PROVE  IInv'
    <2>1. UNCHANGED <<journalVars, launches, job>> /\ receipt' = [receipt EXCEPT ![x] = Empty]
      BY <1>2 DEF Inspect, world
    <2>2. JInv' /\ SyncedKept
      BY <2>1, JQuietInv DEF IInv, journalVars
    <2>3. ReceiptsOK' /\ Calm
      BY <2>1, <2>2, ReceiptsCalm DEF IInv, Empty
    <2>4. \A q \in Proc : JobOK(q)'
      BY <2>1, <2>3, UntouchedJob DEF IInv, journalVars
    <2> QED  BY <2>1, <2>2, <2>3, <2>4, LaunchesKept DEF IInv
  <1> QED  BY <1>1, <1>2

-----------------------------------------------------------------------------
(* The directories of the second wave                                        *)

FilesTyped == failed2 \subseteq Task /\ rerun \in [Proc -> SUBSET Task]

\* The steps that touch them.
Touching ==
    \/ \E p \in Proc : (\E t \in Task : Taint(p, t)) \/ ResumeRerun(p) \/ RerunEnds(p)
    \/ PowerLoss

LEMMA WhoTouches ==
  ASSUME [Next]_vars
  PROVE  Touching \/ UNCHANGED <<tainted, rerun, failed2>>
  <1>1. ASSUME NEW p \in Proc, Launch(p)
        PROVE  UNCHANGED <<tainted, rerun, failed2>>
    BY <1>1 DEF Launch, LaunchStart, LaunchReserve, LaunchAuthorize, LaunchDrifted,
         LaunchAuthorizeRaised, LaunchAborted, LaunchRun, LaunchNoCredential,
         LaunchInterrupted, LaunchFailed, LaunchCommit, PublishFailure, Publish, world
  <1>2. ASSUME NEW p \in Proc, Audit(p)
        PROVE  UNCHANGED <<tainted, rerun, failed2>>
    BY <1>2 DEF Audit, AuditStart, AuditOpen, AuditCommit, world
  <1>3. ASSUME NEW p \in Proc, Resume(p)
        PROVE  Touching \/ UNCHANGED <<tainted, rerun, failed2>>
    BY <1>3 DEF Resume, ResumeScan, ResumeOpen, ResumeAuthorize, ResumeContinue,
         ResumeRefused, ResumeUnlock, ResumeBurned, ResumeRunnerFailed, ResumeAudit,
         Touching, world
  <1>4. ASSUME NEW p \in Proc,
               (\E path \in Path : RecoverStart(p, path)) \/ Recover(p) \/ Receipt(p)
               \/ Raised(p) \/ JournalRefused(p) \/ Crash(p)
        PROVE  UNCHANGED <<tainted, rerun, failed2>>
    BY <1>4 DEF RecoverStart, Recover, Receipt, Raised, JournalRefused, Crash,
         PublishFailure, Publish, world
  <1>5. ASSUME NEW p \in Proc, Command(p)
        PROVE  Touching \/ UNCHANGED <<tainted, rerun, failed2>>
    BY <1>1, <1>2, <1>3, <1>4, <1>5 DEF Command
  <1>6. JournalWork \/ WaveEnds \/ InspectJournal \/ (\E t \in Task : DeletePartial(t))
        \/ (\E path \in Path : Inspect(path)) => UNCHANGED <<tainted, rerun, failed2>>
    BY DEF JournalWork, WaveEnds, InspectJournal, DeletePartial, Inspect, world
  <1>7. UNCHANGED vars => UNCHANGED <<tainted, rerun, failed2>>
    BY DEF vars, world
  <1>8. (\E p \in Proc : RerunEnds(p)) \/ PowerLoss => Touching
    BY DEF Touching
  <1> QED  BY <1>5, <1>6, <1>7, <1>8 DEF Next

LEMMA FilesStep ==
  ASSUME FilesTyped, IInv, [Next]_vars
  PROVE  FilesTyped'
  <1>1. ASSUME NEW p \in Proc, RerunEnds(p)
        PROVE  FilesTyped'
    BY <1>1 DEF RerunEnds, RerunLeft, FilesTyped
  <1>2. ASSUME NEW p \in Proc, ResumeRerun(p)
        PROVE  FilesTyped'
    <2>1. Pending(p) \in SUBSET Task
      BY DEF Pending, IInv, JobTyped
    <2> QED  BY <1>2, <2>1 DEF ResumeRerun, FilesTyped
  <1>3. CASE PowerLoss
    BY <1>3 DEF PowerLoss, FilesTyped
  <1>4. ASSUME NEW p \in Proc, NEW t \in Task, Taint(p, t)
        PROVE  FilesTyped'
    BY <1>4 DEF Taint, FilesTyped
  <1>5. ASSUME UNCHANGED <<failed2, rerun>>
        PROVE  FilesTyped'
    BY <1>5 DEF FilesTyped
  <1> QED  BY <1>1, <1>2, <1>3, <1>4, <1>5, WhoTouches DEF Touching

-----------------------------------------------------------------------------
(* The theorems                                                              *)

LEMMA InitInv == Init => IInv /\ FilesTyped
  <1> SUFFICES ASSUME Init
               PROVE  IInv /\ FilesTyped
    OBVIOUS
  <1>1. JInv
    BY JInitInv DEF Init
  <1>2. job \in [Proc -> JobTyped] /\ \A p \in Proc : job[p].pc = "idle"
    BY IdleTyped DEF Init
  <1>3. \A p \in Proc : JobOK(p)
    BY <1>2 DEF JobOK, Holding, At, ReservingOK, AuthorizingOK, RunningOK, CommittingOK,
                ResumingOK, TaintingOK
  <1>4. LaunchesOK /\ ReceiptsOK
    BY DEF Init, LaunchesOK, ReceiptsOK, Empty
  <1>5. FilesTyped
    BY DEF Init, FilesTyped
  <1> QED  BY <1>1, <1>2, <1>3, <1>4, <1>5 DEF IInv

LEMMA CommandStep ==
  ASSUME IInv, FilesTyped, NEW p \in Proc, Command(p)
  PROVE  IInv'
  <1>1. CASE Launch(p)
    BY <1>1, StartSafe, LaunchReserveSafe, LaunchAuthorizeSafe, LaunchAbortSafe,
       LaunchRunSafe, FailedSafe, LaunchCommitSafe, LeavingSafe DEF Launch, Leaving
  <1>2. CASE Audit(p)
    BY <1>2, ScanSafe, ReopenSafe, AuditCommitSafe DEF Audit, FilesTyped
  <1>3. CASE Resume(p)
    BY <1>3, ScanSafe, ReopenSafe, ResumeAuthorizeSafe, ResumeContinueSafe, ResumeUnlockSafe,
       TaintSafe, LeavingSafe DEF Resume, FilesTyped, Leaving
  <1>4. CASE (\E path \in Path : RecoverStart(p, path)) \/ Recover(p) \/ Receipt(p)
             \/ Raised(p) \/ JournalRefused(p) \/ Crash(p)
    BY <1>4, StartSafe, FailedSafe, ReceiptSafe, LeavingSafe DEF Leaving
  <1> QED  BY <1>1, <1>2, <1>3, <1>4 DEF Command

LEMMA StepInv ==
  ASSUME IInv, FilesTyped, [Next]_vars
  PROVE  IInv'
  <1>1. ASSUME NEW p \in Proc, RerunEnds(p)
        PROVE  IInv'
    BY <1>1, OutsideSafe DEF RerunEnds
  <1>2. WaveEnds \/ (\E t \in Task : DeletePartial(t)) \/ UNCHANGED vars => IInv'
    BY OutsideSafe DEF WaveEnds, DeletePartial, vars, world
  <1> QED
    BY <1>1, <1>2, CommandStep, WorkSafe, PowerLossSafe, InspectSafe DEF Next

\* What each command may conclude at each of its points, in every reachable state.
THEOREM Invariance == Spec => [](IInv /\ FilesTyped)
  <1>1. IInv /\ FilesTyped /\ [Next]_vars => (IInv /\ FilesTyped)'
    BY StepInv, FilesStep
  <1> QED  BY InitInv, <1>1, PTL DEF Spec

\* Whoever may append knows what is on the disk (_reobserve_current before every append;
\* nothing but the holder of the flock writes, and a failed append ends its holder).
THEOREM NobodyDrifts == Spec => []NoDrift
  <1>1. IInv => NoDrift
    BY ReadyKnows DEF NoDrift
  <1> QED  BY Invariance, <1>1, PTL

\* The paid wave starts once, and the journal cannot forget it (execute_launch).
THEOREM WaveStartsOnce == Spec => []OneLaunch
  <1>1. IInv => OneLaunch
    <2> SUFFICES ASSUME IInv
                 PROVE  OneLaunch
      OBVIOUS
    <2>1. Sound(jsynced)
      BY PrefixFacts DEF IInv, JInv
    <2>2. Paid(jsynced) => AuthorizedIn(jsynced)
      BY <2>1, AuthorizedForGood DEF Paid, AuthorizedIn
    <2> QED  BY <2>2 DEF IInv, LaunchesOK, OneLaunch
  <1> QED  BY Invariance, <1>1, PTL

\* A success receipt reports what was committed for good, and is the only one
\* (Receipt after commit in execute_launch, resume_post_run_audit and resume_trials).
THEOREM ReceiptsReportCommits == Spec => []ReceiptsTrue
  <1>1. IInv => ReceiptsTrue
    BY DEF IInv, ReceiptsOK, ReceiptsTrue, Settled
  <1> QED  BY Invariance, <1>1, PTL

\* Nothing is renamed or run again before the journal says that it may be
\* (resume_trials: authorize_trial_resume returns before the first rename).
THEOREM RerunsAreJournaled == Spec => SpendJournaled
  <1> DEFINE Journaled ==
        /\ tainted' # tainted => ResumedIn(jdisk, tainted' \ tainted)
        /\ \A p \in Proc : rerun'[p] # {} =>
              rerun'[p] = rerun[p] \/ ResumedIn(jdisk, rerun'[p])
  <1>1. ASSUME IInv, FilesTyped, [Next]_vars
        PROVE  [Journaled]_vars
    <2>1. \A rows, less : ResumedIn(jdisk, rows) /\ less \subseteq rows => ResumedIn(jdisk, less)
      BY DEF ResumedIn
    <2>2. \A p \in Proc : At(p, "tainting") => ResumedIn(jdisk, job[p].rows)
      BY <1>1 DEF IInv, JobOK, TaintingOK
    <2>3. ASSUME NEW p \in Proc, NEW t \in Task, Taint(p, t)
          PROVE  Journaled
      <3>1. tainted' \ tainted \subseteq job[p].rows /\ At(p, "tainting") /\ rerun' = rerun
        BY <2>3 DEF Taint
      <3> QED  BY <2>1, <2>2, <3>1
    <2>4. ASSUME NEW p \in Proc, ResumeRerun(p)
          PROVE  Journaled
      <3>1. At(p, "tainting") /\ tainted' = tainted /\ Pending(p) \subseteq job[p].rows
            /\ rerun' = [rerun EXCEPT ![p] = Pending(p)]
        BY <2>4 DEF ResumeRerun, Pending
      <3>2. ResumedIn(jdisk, Pending(p))
        BY <2>1, <2>2, <3>1
      <3> QED  BY <1>1, <3>1, <3>2 DEF FilesTyped
    <2>5. ASSUME NEW p \in Proc, RerunEnds(p)
          PROVE  Journaled
      <3>1. tainted' = tainted /\ rerun' = [rerun EXCEPT ![p] = {}]
        BY <2>5 DEF RerunEnds, RerunLeft
      <3> QED  BY <1>1, <3>1 DEF FilesTyped
    <2>6. CASE PowerLoss
      BY <2>6 DEF PowerLoss
    <2>7. UNCHANGED <<tainted, rerun, failed2>> => Journaled
      OBVIOUS
    <2> QED  BY <1>1, <2>3, <2>4, <2>5, <2>6, <2>7, WhoTouches DEF Touching
  <1> QED  BY Invariance, <1>1, PTL DEF SpendJournaled, Spec

-----------------------------------------------------------------------------
(* Types.  Most of them are known from the invariant; what is left are the   *)
(* numbers a command remembers, what the waves leave, and the form of the    *)
(* receipts.                                                                 *)

NumbersTyped(p) == job[p].tx \in Tx /\ job[p].cost \in 0 .. 2 * Cardinality(Task)

WavesTyped ==
    /\ wave \in {"none", "running", "ended"} /\ code \in {0, 1}
    /\ first \in [Task -> Outcome] /\ tainted \subseteq Task
    /\ clean2 \in [Task -> 0 .. 2]

\* What a success reports is another matter: that it was committed.
Formed(c) == c.kind = "success" \/ WellFormed(c)

GateTypes ==
    /\ JTypes /\ WavesTyped
    /\ \A p \in Proc : NumbersTyped(p)
    /\ \A x \in Path : Formed(receipt[x])

\* Every call of a command is one the journal offers.
LEMMA ExitCalls ==
  ASSUME NEW p \in Proc, Exit(p)
  PROVE  JCall(p)
  BY DEF Exit, JCall

LEMMA CommandCalls ==
  ASSUME IInv, NEW p \in Proc, Command(p)
  PROVE  JCall(p)
  <1>0. /\ NoNote \in Note /\ TheRun \in Run
        /\ [trials |-> job[p].exceptions, from |-> job[p].from] \in Note
        /\ job[p].rows \in SUBSET Task
    BY NotesTyped DEF IInv, JobTyped
  <1>1. CASE Launch(p)
    <2>1. (\E path \in Path : LaunchStart(p, path)) \/ LaunchRun(p) => JCall(p)
      BY DEF LaunchStart, LaunchRun, JCall
    <2>2. LaunchReserve(p) => JCall(p)
      BY <1>0 DEF LaunchReserve, JCall
    <2>3. LaunchAuthorize(p) => JCall(p)
      BY <1>0 DEF LaunchAuthorize, JCall
    <2>4. LaunchDrifted(p) \/ LaunchAuthorizeRaised(p) => JCall(p)
      BY <1>0 DEF LaunchDrifted, LaunchAuthorizeRaised, JCall
    <2>5. LaunchCommit(p) => JCall(p)
      <3>1. Usage({}) \in Int
        BY UsageTyped
      <3> QED  BY <1>0, <3>1 DEF LaunchCommit, JCall
    <2>6. LaunchAborted(p) \/ LaunchNoCredential(p) \/ LaunchInterrupted(p) \/ LaunchFailed(p)
          => Exit(p)
      BY DEF LaunchAborted, LaunchNoCredential, LaunchInterrupted, LaunchFailed,
             PublishFailure, Publish
    <2> QED  BY <1>1, <2>1, <2>2, <2>3, <2>4, <2>5, <2>6, ExitCalls DEF Launch
  <1>2. CASE Audit(p)
    <2>1. (\E from, path \in Path : AuditStart(p, from, path)) \/ AuditOpen(p) => JCall(p)
      BY DEF AuditStart, AuditOpen, JCall
    <2>2. AuditCommit(p) => JCall(p)
      <3>1. Usage(job[p].rows) \in Int
        BY <1>0, UsageTyped
      <3>2. AuditCommit(p) => Exit(p) \/ \E t : JCommit(p, t, Usage(job[p].rows), NoNote)
        BY DEF AuditCommit
      <3> QED  BY <1>0, <3>1, <3>2, ExitCalls DEF JCall
    <2> QED  BY <1>2, <2>1, <2>2 DEF Audit
  <1>3. CASE Resume(p)
    <2>1. \/ (\E from, path \in Path : ResumeScan(p, from, path)) \/ ResumeContinue(p)
          \/ (\E t \in Task : Taint(p, t)) \/ ResumeRerun(p)
          => UNCHANGED journalVars
      BY DEF ResumeScan, ResumeContinue, Taint, ResumeRerun
    <2>2. ResumeOpen(p) => JOpen(p)
      BY DEF ResumeOpen
    <2>3. ResumeUnlock(p) => JClose(p)
      BY DEF ResumeUnlock
    <2>4. ResumeAuthorize(p) => JCall(p)
      BY <1>0 DEF ResumeAuthorize, JCall
    <2>5. ResumeRefused(p) \/ ResumeBurned(p) \/ ResumeRunnerFailed(p) => Exit(p)
      BY DEF ResumeRefused, ResumeBurned, ResumeRunnerFailed
    <2>6. ResumeAudit(p) => Exit(p) \/ UNCHANGED journalVars
      BY DEF ResumeAudit
    <2>7. UNCHANGED journalVars \/ JOpen(p) \/ JClose(p) => JCall(p)
      BY DEF JCall
    <2> QED
      BY <1>3, <2>1, <2>2, <2>3, <2>4, <2>5, <2>6, <2>7, ExitCalls DEF Resume
  <1>4. CASE (\E path \in Path : RecoverStart(p, path)) \/ Recover(p) \/ Receipt(p)
             \/ Raised(p) \/ JournalRefused(p) \/ Crash(p)
    <2>1. (\E path \in Path : RecoverStart(p, path)) => JCall(p)
      BY DEF RecoverStart, JCall
    <2>2. Recover(p) \/ Receipt(p) \/ Raised(p) \/ JournalRefused(p) \/ Crash(p) => Exit(p)
      BY DEF Recover, Receipt, Raised, JournalRefused, Crash, PublishFailure, Publish
    <2> QED  BY <1>4, <2>1, <2>2, ExitCalls
  <1> QED  BY <1>1, <1>2, <1>3, <1>4 DEF Command

\* Only the calls of a command, the append in progress and a power loss touch what is
\* durable, and none takes anything back.
LEMMA StepSyncs ==
  ASSUME IInv, [Next]_vars
  PROVE  SyncedKept
  <1>1. ASSUME NEW p \in Proc, Command(p)
        PROVE  SyncedKept
    BY <1>1, CommandCalls, JCallKeeps
  <1>2. CASE JournalWork \/ PowerLoss
    BY <1>2, JWorkInv, JPowerLossInv DEF JournalWork, PowerLoss, IInv
  <1>3. InspectJournal \/ WaveEnds \/ (\E p \in Proc : RerunEnds(p))
        \/ (\E t \in Task : DeletePartial(t)) \/ (\E path \in Path : Inspect(path))
        \/ UNCHANGED vars => jsynced' = jsynced
    BY DEF InspectJournal, JInspect, WaveEnds, RerunEnds, DeletePartial, Inspect, vars, journalVars
  <1>4. jsynced' = jsynced => SyncedKept
    BY DEF SyncedKept
  <1> QED  BY <1>1, <1>2, <1>3, <1>4 DEF Next

\* The journal of the launch gate implements the ledger it promises: whatever dies,
\* fails or loses power, a durable entry only advances, a run has one live entry and what
\* is exposed stays within the authority (replay in memory_budget_journal.py).
THEOREM JournalKeepsLedger == Spec => LedgerKept
  <1>1. Init => Ledger!Init
    BY LedgerInit DEF Init
  <1>2. IInv /\ FilesTyped /\ IInv' /\ [Next]_vars => [Ledger!Next]_Entries
    BY StepSyncs, LedgerStep DEF IInv
  <1> QED  BY Invariance, <1>1, <1>2, PTL DEF Spec, LedgerKept, Ledger!Spec

\* The journal keeps its types.
LEMMA JournalTypes ==
  ASSUME IInv, IInv', JTypes, [Next]_vars
  PROVE  JTypes'
  <1>1. ASSUME NEW p \in Proc, Command(p)
        PROVE  JTypes'
    BY <1>1, CommandCalls, JCallTyped DEF IInv
  <1>2. CASE JournalWork
    BY <1>2, JWorkTyped DEF JournalWork, IInv
  <1>3. CASE PowerLoss
    BY <1>3, JPowerLossTyped DEF PowerLoss, IInv
  <1>4. CASE InspectJournal
    BY <1>4, JInspectTyped DEF InspectJournal
  <1>5. ASSUME UNCHANGED journalVars
        PROVE  JTypes'
    BY <1>5 DEF JTypes, JTypeOK, journalVars
  <1>6. WaveEnds \/ (\E p \in Proc : RerunEnds(p)) \/ (\E t \in Task : DeletePartial(t))
        \/ (\E path \in Path : Inspect(path)) \/ UNCHANGED vars => UNCHANGED journalVars
    BY DEF WaveEnds, RerunEnds, DeletePartial, Inspect, vars
  <1> QED  BY <1>1, <1>2, <1>3, <1>4, <1>5, <1>6 DEF Next

\* What a command remembers.
LEMMA UsageBound ==
  ASSUME NEW rows \in SUBSET Task
  PROVE  Usage(rows) \in 0 .. 2 * Cardinality(Task)
  <1>1. IsFiniteSet(rows) /\ Cardinality(rows) <= Cardinality(Task)
    BY FS_Subset
  <1>2. Cardinality(Task) \in Nat /\ Cardinality(rows) \in Nat
    BY <1>1, FS_CardinalityType
  <1> QED  BY <1>1, <1>2 DEF Usage

\* One command's numbers change, and stay numbers.
LEMMA NumbersAre ==
  ASSUME \A q \in Proc : NumbersTyped(q), NEW p \in Proc, JobStep(p),
         job'[p].tx \in Tx, job'[p].cost \in 0 .. 2 * Cardinality(Task)
  PROVE  \A q \in Proc : NumbersTyped(q)'
  BY DEF NumbersTyped, JobStep, Tx

LEMMA IdleNumbers ==
  /\ Idle.tx \in Tx /\ Idle.cost \in 0 .. 2 * Cardinality(Task)
  <1>1. Cardinality(Task) \in Nat
    BY FS_CardinalityType
  <1> QED  BY <1>1 DEF Idle, Tx

\* Rows are taken over, and the numbers stay.
LEMMA RowsNumbers ==
  ASSUME job \in [Proc -> JobTyped], NEW p \in Proc, NEW pc \in Point,
         NEW rows \in SUBSET Task,
         job' = [job EXCEPT ![p].pc = pc, ![p].rows = rows]
  PROVE  job'[p].tx = job[p].tx /\ job'[p].cost = job[p].cost
  <1> DEFINE j == [job EXCEPT ![p].pc = pc]
  <1>1. /\ j \in [Proc -> JobTyped]
        /\ j[p].tx = job[p].tx /\ j[p].cost = job[p].cost
    BY DEF JobTyped
  <1>2. job' = [j EXCEPT ![p].rows = rows]
    OBVIOUS
  <1> HIDE DEF j
  <1>3. job' = [j EXCEPT ![p] = [j[p] EXCEPT !.rows = rows]]
    BY <1>2
  <1> QED  BY <1>1, <1>3 DEF JobTyped

LEMMA SameNumbers ==
  ASSUME IInv, \A q \in Proc : NumbersTyped(q), NEW p \in Proc,
         \/ Exit(p) \/ \E pc \in Point : Goto(p, pc)
         \/ UNCHANGED job
         \/ \E j \in JobTyped : /\ job' = [job EXCEPT ![p] = j]
                                /\ j.tx = Idle.tx /\ j.cost = Idle.cost
         \/ \E pc \in Point, rows \in SUBSET Task :
                job' = [job EXCEPT ![p].pc = pc, ![p].rows = rows]
  PROVE  \A q \in Proc : NumbersTyped(q)'
  <1>1. job \in [Proc -> JobTyped]
    BY DEF IInv
  <1>2. ASSUME NEW j \in JobTyped, job' = [job EXCEPT ![p] = j],
               j.tx = Idle.tx, j.cost = Idle.cost
        PROVE  \A q \in Proc : NumbersTyped(q)'
    BY <1>1, <1>2, JobSet, NumbersAre, IdleNumbers
  <1>3. CASE Exit(p)
    BY <1>2, <1>3, IdleTyped DEF Exit
  <1>4. ASSUME NEW pc \in Point, Goto(p, pc)
        PROVE  \A q \in Proc : NumbersTyped(q)'
    BY <1>1, <1>4, JobGoto, NumbersAre DEF NumbersTyped
  <1>5. ASSUME NEW pc \in Point, NEW rows \in SUBSET Task,
               job' = [job EXCEPT ![p].pc = pc, ![p].rows = rows]
        PROVE  \A q \in Proc : NumbersTyped(q)'
    <2>1. JobStep(p) /\ job'[p].tx = job[p].tx /\ job'[p].cost = job[p].cost
      BY <1>1, <1>5, JobGotoRows, RowsNumbers
    <2> QED  BY <2>1, NumbersAre DEF NumbersTyped
  <1>6. UNCHANGED job => \A q \in Proc : NumbersTyped(q)'
    BY DEF NumbersTyped
  <1> QED  BY <1>2, <1>3, <1>4, <1>5, <1>6

\* A reservation is named at the authorization or the abort, ...
LEMMA TxNumbers ==
  ASSUME IInv, JTypes, \A q \in Proc : NumbersTyped(q), NEW p \in Proc,
         LaunchAuthorize(p) \/ LaunchDrifted(p)
  PROVE  \A q \in Proc : NumbersTyped(q)'
  <1>1. PICK t \in Live(jmem, TheRun), pc \in {"authorizing", "aborting"} :
          job' = [job EXCEPT ![p].pc = pc, ![p].tx = t]
    BY DEF LaunchAuthorize, LaunchDrifted
  <1>2. t \in 1 .. MaxRevision
    BY TransactionTyped DEF Live, JTypes, JTypeOK
  <1>3. t \in Tx /\ t \in Int /\ pc \in Point
    BY <1>2 DEF Tx, Point, Holding
  <1>4. job \in [Proc -> JobTyped]
    BY DEF IInv
  <1> DEFINE j == [job[p] EXCEPT !.pc = pc, !.tx = t]
  <1>5. job' = [job EXCEPT ![p] = j]
    BY <1>1, <1>4
  <1>6. j \in JobTyped /\ j.tx = t /\ j.cost = job[p].cost
    BY <1>3, <1>4 DEF JobTyped
  <1> HIDE DEF j
  <1> QED  BY <1>3, <1>4, <1>5, <1>6, JobSet, NumbersAre DEF NumbersTyped

\* ... a cost at the commit.
LEMMA CostNumbers ==
  ASSUME IInv, \A q \in Proc : NumbersTyped(q), NEW p \in Proc, NEW rows \in SUBSET Task,
         job' = [job EXCEPT ![p].pc = "committing", ![p].cost = Usage(rows)]
  PROVE  \A q \in Proc : NumbersTyped(q)'
  <1> DEFINE u == Usage(rows)
             j == [job[p] EXCEPT !.pc = "committing", !.cost = u]
  <1>1. u \in 0 .. 2 * Cardinality(Task) /\ u \in Int
    BY UsageBound
  <1>2. job \in [Proc -> JobTyped] /\ "committing" \in Point
    BY DEF IInv, Point, Holding
  <1>3. job' = [job EXCEPT ![p] = j]
    BY <1>2
  <1> HIDE DEF u
  <1>4. j \in JobTyped /\ j.tx = job[p].tx /\ j.cost = u
    BY <1>1, <1>2 DEF JobTyped
  <1> HIDE DEF j
  <1> QED  BY <1>1, <1>2, <1>3, <1>4, JobSet, NumbersAre DEF NumbersTyped

LEMMA CommandNumbers ==
  ASSUME IInv, FilesTyped, JTypes, \A q \in Proc : NumbersTyped(q), NEW p \in Proc, Command(p)
  PROVE  \A q \in Proc : NumbersTyped(q)'
  <1>0. /\ Point = {"launch", "reserving", "authorizing", "aborting", "running", "committing",
                    "recover", "auditing", "matching", "resuming", "idle", "audited",
                    "scanned", "tainting", "rerunning"}
        /\ job[p].rows \in SUBSET Task /\ job[p].exceptions \in SUBSET Task
        /\ {} \in SUBSET Task
    BY DEF Point, Holding, IInv, JobTyped
  <1>1. CASE Launch(p)
    <2>1. ASSUME NEW path \in Path, LaunchStart(p, path)
          PROVE  \A q \in Proc : NumbersTyped(q)'
      <3> DEFINE j == [Idle EXCEPT !.pc = "launch", !.path = path]
      <3>1. job' = [job EXCEPT ![p] = j] /\ j \in JobTyped
        BY <1>0, <2>1, StartTyped DEF LaunchStart
      <3>2. j.tx = Idle.tx /\ j.cost = Idle.cost
        BY DEF Idle
      <3> HIDE DEF j
      <3> QED  BY <3>1, <3>2, SameNumbers
    <2>2. LaunchReserve(p) \/ LaunchAuthorizeRaised(p) \/ LaunchRun(p)
          => \E pc \in Point : Goto(p, pc)
      BY <1>0 DEF LaunchReserve, LaunchAuthorizeRaised, LaunchRun
    <2>3. LaunchAborted(p) \/ LaunchNoCredential(p) \/ LaunchInterrupted(p) \/ LaunchFailed(p)
          => Exit(p)
      BY DEF LaunchAborted, LaunchNoCredential, LaunchInterrupted, LaunchFailed,
             PublishFailure, Publish
    <2>4. LaunchCommit(p) => \A q \in Proc : NumbersTyped(q)'
      BY <1>0, CostNumbers DEF LaunchCommit
    <2> QED  BY <1>1, <2>1, <2>2, <2>3, <2>4, SameNumbers, TxNumbers DEF Launch
  <1>2. CASE Audit(p)
    <2>1. ASSUME NEW from \in Path, NEW path \in Path, AuditStart(p, from, path)
          PROVE  \A q \in Proc : NumbersTyped(q)'
      <3> DEFINE j == [Idle EXCEPT !.pc = "audited", !.path = path, !.from = from]
      <3>1. job' = [job EXCEPT ![p] = j] /\ j \in JobTyped
        BY <1>0, <2>1, StartFromTyped DEF AuditStart
      <3>2. j.tx = Idle.tx /\ j.cost = Idle.cost
        BY DEF Idle
      <3> HIDE DEF j
      <3> QED  BY <3>1, <3>2, SameNumbers
    <2>2. AuditOpen(p) => \E pc \in Point : Goto(p, pc)
      BY <1>0 DEF AuditOpen
    <2>3. AuditCommit(p) => \A q \in Proc : NumbersTyped(q)'
      BY <1>0, CostNumbers, SameNumbers DEF AuditCommit
    <2> QED  BY <1>2, <2>1, <2>2, <2>3, SameNumbers DEF Audit
  <1>3. CASE Resume(p)
    <2>1. ASSUME NEW from \in Path, NEW path \in Path, ResumeScan(p, from, path)
          PROVE  \A q \in Proc : NumbersTyped(q)'
      <3> DEFINE clean == {t \in Task : clean2[t] > 0}
                 j == [Idle EXCEPT !.pc = "scanned", !.path = path, !.from = from,
                         !.exceptions = Exceptions, !.clean = clean, !.failed = failed2]
      <3>1. job' = [job EXCEPT ![p] = j]
        BY <2>1 DEF ResumeScan
      <3>2. Exceptions \in SUBSET Task /\ clean \in SUBSET Task /\ failed2 \in SUBSET Task
        BY DEF Exceptions, FilesTyped
      <3> HIDE DEF clean
      <3>3. j \in JobTyped /\ j.tx = Idle.tx /\ j.cost = Idle.cost
        BY <1>0, <3>2, IdleTyped DEF JobTyped
      <3> HIDE DEF j
      <3> QED  BY <3>1, <3>3, SameNumbers
    <2>2. ResumeOpen(p) \/ ResumeUnlock(p) \/ ResumeRerun(p) => \E pc \in Point : Goto(p, pc)
      BY <1>0 DEF ResumeOpen, ResumeUnlock, ResumeRerun
    <2>3. ResumeAuthorize(p) => \E pc \in Point, rows \in SUBSET Task :
                                   job' = [job EXCEPT ![p].pc = pc, ![p].rows = rows]
      BY <1>0 DEF ResumeAuthorize
    <2>4. ASSUME ResumeContinue(p)
          PROVE  \E pc \in Point, rows \in SUBSET Task :
                    job' = [job EXCEPT ![p].pc = pc, ![p].rows = rows]
      <3>0. PICK t \in Matches : \E i \in Resumes(jmem, t) :
              job' = [job EXCEPT ![p].pc = "resuming", ![p].rows = jmem[i].note.trials]
        BY <2>4 DEF ResumeContinue
      <3>1. PICK i \in Resumes(jmem, t) :
              job' = [job EXCEPT ![p].pc = "resuming", ![p].rows = jmem[i].note.trials]
        BY <3>0
      <3>2. jmem \in Seq(Event) /\ i \in DOMAIN jmem
        BY <3>1 DEF JTypes, JTypeOK, Resumes, Events
      <3>3. jmem[i] \in Event
        BY <3>2
      <3>4. jmem[i].note.trials \in SUBSET Task
        BY <3>3 DEF Event
      <3> QED  BY <1>0, <3>1, <3>4
    <2>5. (\E t \in Task : Taint(p, t)) => UNCHANGED job
      BY DEF Taint
    <2>6. ResumeRefused(p) \/ ResumeBurned(p) \/ ResumeRunnerFailed(p) => Exit(p)
      BY DEF ResumeRefused, ResumeBurned, ResumeRunnerFailed
    <2>7. ResumeAudit(p) => Exit(p) \/ \E pc \in Point : Goto(p, pc)
      BY <1>0 DEF ResumeAudit
    <2> QED
      BY <1>3, <2>1, <2>2, <2>3, <2>4, <2>5, <2>6, <2>7, SameNumbers DEF Resume
  <1>4. CASE (\E path \in Path : RecoverStart(p, path)) \/ Recover(p) \/ Receipt(p)
             \/ Raised(p) \/ JournalRefused(p) \/ Crash(p)
    <2>1. ASSUME NEW path \in Path, RecoverStart(p, path)
          PROVE  \A q \in Proc : NumbersTyped(q)'
      <3> DEFINE j == [Idle EXCEPT !.pc = "recover", !.path = path]
      <3>1. job' = [job EXCEPT ![p] = j] /\ j \in JobTyped
        BY <1>0, <2>1, StartTyped DEF RecoverStart
      <3>2. j.tx = Idle.tx /\ j.cost = Idle.cost
        BY DEF Idle
      <3> HIDE DEF j
      <3> QED  BY <3>1, <3>2, SameNumbers
    <2>2. Recover(p) \/ Receipt(p) \/ Raised(p) \/ JournalRefused(p) \/ Crash(p) => Exit(p)
      BY DEF Recover, Receipt, Raised, JournalRefused, Crash, PublishFailure, Publish
    <2> QED  BY <1>4, <2>1, <2>2, SameNumbers
  <1> QED  BY <1>1, <1>2, <1>3, <1>4 DEF Command

LEMMA NumbersStep ==
  ASSUME IInv, FilesTyped, JTypes, \A q \in Proc : NumbersTyped(q), [Next]_vars
  PROVE  \A q \in Proc : NumbersTyped(q)'
  <1>1. CASE PowerLoss
    BY <1>1, IdleNumbers DEF PowerLoss, NumbersTyped, Tx
  <1>2. JournalWork \/ InspectJournal \/ WaveEnds \/ (\E p \in Proc : RerunEnds(p))
        \/ (\E t \in Task : DeletePartial(t)) \/ (\E path \in Path : Inspect(path))
        \/ UNCHANGED vars => UNCHANGED job
    BY DEF JournalWork, InspectJournal, WaveEnds, RerunEnds, DeletePartial, Inspect, vars
  <1>3. UNCHANGED job => \A q \in Proc : NumbersTyped(q)'
    BY DEF NumbersTyped
  <1> QED  BY <1>1, <1>2, <1>3, CommandNumbers DEF Next

\* What the waves leave.
LEMMA WavesStep ==
  ASSUME WavesTyped, FilesTyped, [Next]_vars
  PROVE  WavesTyped'
  <1>0. UNCHANGED world => WavesTyped'
    BY DEF WavesTyped, world
  <1>1. ASSUME NEW p \in Proc, Launch(p)
        PROVE  WavesTyped'
    <2>1. CASE LaunchRun(p)
      BY <2>1 DEF LaunchRun, WavesTyped
    <2>2. CASE LaunchInterrupted(p)
      BY <2>2 DEF LaunchInterrupted, WavesTyped
    <2>3. \/ \E path \in Path : LaunchStart(p, path)
          \/ LaunchReserve(p) \/ LaunchAuthorize(p) \/ LaunchDrifted(p)
          \/ LaunchAuthorizeRaised(p) \/ LaunchAborted(p) \/ LaunchNoCredential(p)
          \/ LaunchFailed(p) \/ LaunchCommit(p)
          => UNCHANGED world
      BY DEF LaunchStart, LaunchReserve, LaunchAuthorize, LaunchDrifted, LaunchAuthorizeRaised,
             LaunchAborted, LaunchNoCredential, LaunchFailed, LaunchCommit, PublishFailure,
             Publish
    <2> QED  BY <1>0, <1>1, <2>1, <2>2, <2>3 DEF Launch
  <1>2. ASSUME NEW p \in Proc, Audit(p)
        PROVE  UNCHANGED world
    BY <1>2 DEF Audit, AuditStart, AuditOpen, AuditCommit
  <1>3. ASSUME NEW p \in Proc, Resume(p)
        PROVE  WavesTyped'
    <2>1. ASSUME NEW t \in Task, Taint(p, t)
          PROVE  WavesTyped'
      BY <2>1 DEF Taint, WavesTyped
    <2>2. CASE ResumeRerun(p)
      BY <2>2 DEF ResumeRerun, WavesTyped
    <2>3. \/ \E from, path \in Path : ResumeScan(p, from, path)
          \/ ResumeOpen(p) \/ ResumeAuthorize(p) \/ ResumeContinue(p) \/ ResumeRefused(p)
          \/ ResumeUnlock(p) \/ ResumeBurned(p) \/ ResumeRunnerFailed(p) \/ ResumeAudit(p)
          => UNCHANGED world
      BY DEF ResumeScan, ResumeOpen, ResumeAuthorize, ResumeContinue, ResumeRefused,
             ResumeUnlock, ResumeBurned, ResumeRunnerFailed, ResumeAudit
    <2> QED  BY <1>0, <1>3, <2>1, <2>2, <2>3 DEF Resume
  <1>4. ASSUME NEW p \in Proc,
               (\E path \in Path : RecoverStart(p, path)) \/ Recover(p) \/ Receipt(p)
               \/ Raised(p) \/ JournalRefused(p) \/ Crash(p)
        PROVE  UNCHANGED world
    BY <1>4 DEF RecoverStart, Recover, Receipt, Raised, JournalRefused, Crash,
                PublishFailure, Publish
  <1>5. CASE WaveEnds
    BY <1>5 DEF WaveEnds, WavesTyped
  <1>6. ASSUME NEW p \in Proc, RerunEnds(p)
        PROVE  WavesTyped'
    <2>1. PICK good \in SUBSET rerun[p] :
            clean2' = [t \in Task |-> IF t \in good THEN Min2(clean2[t] + 1) ELSE clean2[t]]
      BY <1>6 DEF RerunEnds, RerunLeft
    <2>2. \A n \in 0 .. 2 : Min2(n + 1) \in 0 .. 2
      BY DEF Min2
    <2>3. clean2' \in [Task -> 0 .. 2]
      BY <2>1, <2>2 DEF WavesTyped
    <2> QED  BY <1>6, <2>3 DEF RerunEnds, WavesTyped
  <1>7. ASSUME NEW t \in Task, DeletePartial(t)
        PROVE  WavesTyped'
    BY <1>7 DEF DeletePartial, WavesTyped, Outcome
  <1>8. CASE PowerLoss
    BY <1>8 DEF PowerLoss, WavesTyped
  <1>9. JournalWork \/ InspectJournal \/ (\E path \in Path : Inspect(path)) \/ UNCHANGED vars
        => UNCHANGED world
    BY DEF JournalWork, InspectJournal, Inspect, vars
  <1> QED
    BY <1>0, <1>1, <1>2, <1>3, <1>4, <1>5, <1>6, <1>7, <1>8, <1>9 DEF Next, Command

\* Receipts: what is written is well formed.
LEMMA PublishFormed ==
  ASSUME ReceiptsOK, JTypes, WavesTyped, \A x \in Path : Formed(receipt[x]), NEW p \in Proc,
         \/ \E c : Publish(p, c) /\ Formed(c)
         \/ \E stage \in {"runner_nonzero", "post_run_evidence_audit"}, rc \in {0, 1} :
                PublishFailure(p, stage, rc)
  PROVE  \A x \in Path : Formed(receipt'[x])
  <1>1. Formed(Torn)
    BY DEF Formed, WellFormed
  <1>2. ASSUME NEW c, Publish(p, c), Formed(c)
        PROVE  \A x \in Path : Formed(receipt'[x])
    BY <1>1, <1>2 DEF Publish, ReceiptsOK
  <1>3. ASSUME NEW stage \in {"runner_nonzero", "post_run_evidence_audit"}, NEW rc \in {0, 1},
               PublishFailure(p, stage, rc)
        PROVE  \A x \in Path : Formed(receipt'[x])
    <2>1. Formed(Failure(stage, rc))
      BY DEF Formed, WellFormed, Failure, Artifacts, JTypes, JTypeOK, WavesTyped
    <2>2. Publish(p, Failure(stage, rc)) \/ UNCHANGED receipt
      BY <1>3 DEF PublishFailure
    <2> QED  BY <1>2, <2>1, <2>2
  <1> QED  BY <1>2, <1>3

LEMMA ReceiptsStep ==
  ASSUME ReceiptsOK, JTypes, WavesTyped, \A x \in Path : Formed(receipt[x]), [Next]_vars
  PROVE  \A x \in Path : Formed(receipt'[x])
  <1>1. ASSUME NEW p \in Proc, Launch(p), ~LaunchFailed(p)
        PROVE  UNCHANGED receipt
    BY <1>1 DEF Launch, LaunchStart, LaunchReserve, LaunchAuthorize, LaunchDrifted,
         LaunchAuthorizeRaised, LaunchAborted, LaunchRun, LaunchNoCredential,
         LaunchInterrupted, LaunchCommit
  <1>2. ASSUME NEW p \in Proc, LaunchFailed(p)
        PROVE  \A x \in Path : Formed(receipt'[x])
    <2>1. code \in {0, 1}
      BY DEF WavesTyped
    <2> QED  BY <1>2, <2>1, PublishFormed DEF LaunchFailed
  <1>3. ASSUME NEW p \in Proc, Audit(p) \/ Resume(p)
        PROVE  UNCHANGED receipt
    BY <1>3 DEF Audit, AuditStart, AuditOpen, AuditCommit, Resume, ResumeScan, ResumeOpen,
         ResumeAuthorize, ResumeContinue, ResumeRefused, ResumeUnlock, Taint, ResumeBurned,
         ResumeRerun, ResumeRunnerFailed, ResumeAudit
  <1>4. ASSUME NEW p \in Proc, Recover(p)
        PROVE  \A x \in Path : Formed(receipt'[x])
    BY <1>4, PublishFormed DEF Recover
  <1>5. ASSUME NEW p \in Proc, Receipt(p)
        PROVE  \A x \in Path : Formed(receipt'[x])
    <2>1. Formed(Success(job[p].cost))
      BY DEF Formed, Success
    <2> QED  BY <1>5, <2>1, PublishFormed DEF Receipt
  <1>6. ASSUME NEW path \in Path, Inspect(path)
        PROVE  \A x \in Path : Formed(receipt'[x])
    BY <1>6 DEF Inspect, ReceiptsOK, Formed, WellFormed
  <1>7. \/ \E p \in Proc : \/ \E path \in Path : RecoverStart(p, path)
                          \/ Raised(p) \/ JournalRefused(p) \/ Crash(p) \/ RerunEnds(p)
        \/ JournalWork \/ WaveEnds \/ InspectJournal \/ PowerLoss
        \/ (\E t \in Task : DeletePartial(t)) \/ UNCHANGED vars
        => UNCHANGED receipt
    BY DEF RecoverStart, Raised, JournalRefused, Crash, RerunEnds, JournalWork, WaveEnds,
           InspectJournal, PowerLoss, DeletePartial, vars
  <1> QED
    BY <1>1, <1>2, <1>3, <1>4, <1>5, <1>6, <1>7 DEF Next, Command

LEMMA InitTypes == Init => GateTypes
  <1> SUFFICES ASSUME Init
               PROVE  GateTypes
    OBVIOUS
  <1>1. JTypes
    BY JInitTyped DEF Init
  <1>2. WavesTyped
    BY DEF Init, WavesTyped, Outcome
  <1>3. \A p \in Proc : NumbersTyped(p)
    BY IdleNumbers DEF Init, NumbersTyped
  <1>4. \A x \in Path : Formed(receipt[x])
    BY DEF Init, Formed, WellFormed
  <1> QED  BY <1>1, <1>2, <1>3, <1>4 DEF GateTypes

\* Commands, waves, directories, receipts and the journal keep their types; no receipt
\* reports more than its transaction's maximum, and no document outgrows the journal's
\* limit (reserve, authorize_request, commit; _write_private_new).
THEOREM TypesHold == Spec => []TypeOK
  <1>1. IInv /\ FilesTyped /\ IInv' /\ GateTypes /\ [Next]_vars => GateTypes'
    BY JournalTypes, NumbersStep, WavesStep, ReceiptsStep DEF GateTypes, IInv
  <1>2. Spec => []GateTypes
    BY InitTypes, Invariance, <1>1, PTL DEF Spec
  <1>3. IInv /\ FilesTyped /\ GateTypes => TypeOK
    <2> SUFFICES ASSUME IInv, FilesTyped, GateTypes
                 PROVE  TypeOK
      OBVIOUS
    <2>1. job \in [Proc -> Job]
      <3>1. \A q \in Proc : job[q] \in JobTyped /\ NumbersTyped(q)
        BY DEF IInv, GateTypes
      <3>2. \A q \in Proc : job[q] \in Job
        BY <3>1 DEF JobTyped, NumbersTyped, Job, Point, Holding
      <3> QED  BY <3>2 DEF IInv
    <2>2. ASSUME NEW x \in Path
          PROVE  WellFormed(receipt[x])
      <3>1. CASE receipt[x].kind = "success"
        <4>1. Sound(jsynced) /\ Replays(jsynced)
          BY SyncedSound DEF IInv
        <4>2. PICK i \in DOMAIN jsynced :
                jsynced[i].action = "committed" /\ jsynced[i].cost = receipt[x].cost
          BY <3>1 DEF IInv, ReceiptsOK, Settled
        <4>3. jsynced[i].cost \in 0 .. MaxCost
          BY <4>1, <4>2 DEF Replays, Admissible
        <4> QED  BY <3>1, <4>2, <4>3 DEF WellFormed
      <3> QED  BY <3>1 DEF GateTypes, Formed
    <2> QED
      BY <2>1, <2>2 DEF IInv, LaunchesOK, FilesTyped, GateTypes, JTypes, WavesTyped, TypeOK
  <1> QED  BY Invariance, <1>2, <1>3, PTL
=============================================================================
