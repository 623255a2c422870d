---------------------------- MODULE BudgetJournal ----------------------------
(***************************************************************************)
(* The crash-conservative budget journal of the paid evaluation runs       *)
(* (src/scripts/eval/memory_budget_journal.py).  One JSON document holds   *)
(* the events of every transaction; a process that holds the flock appends *)
(* to it by writing a temporary file, renaming it over the document and    *)
(* syncing the directory, and only then believes the append happened.      *)
(*                                                                         *)
(* A document is the sequence of its events.  The hash chain, the file     *)
(* modes and the clock are left out: two documents are equal exactly when  *)
(* their revision and head are.  A transaction is named by the revision    *)
(* of its reservation, which its id binds.  A missing file is the empty    *)
(* document: both replay to no transaction.                                *)
(***************************************************************************)
EXTENDS Integers, Sequences, FiniteSets, FiniteSetsExt

CONSTANTS Proc,          \* processes that may open the journal
          Nobody,        \* nobody holds the flock
          Run,           \* run identities
          Note,          \* evidence an event may seal (trials, digests)
          MaxCost,       \* the maximum a transaction may cost
          Total,         \* what the authority of the journal allows in all
          MaxRevision    \* events that fit the journal's size limit

ASSUME JournalAssumption ==
    /\ Nobody \notin Proc
    /\ MaxCost \in Nat \ {0}
    /\ Total \in Nat \ {0}
    /\ MaxRevision \in Nat

VARIABLES jdisk,     \* the document under the journal's name
          jsynced,   \* the document a power loss cannot take back
          jtmp,      \* is there a temporary file?
          jlock,     \* who holds the flock
          jmem,      \* the document its holder believes in
          jstep,     \* how far its append is: idle, write, replace, sync, raised
          jevent     \* the event being appended

journalVars == <<jdisk, jsynced, jtmp, jlock, jmem, jstep, jevent>>

Action == {"reserved", "request_authorized", "trial_resume_authorized",
           "committed", "aborted_pre_request"}

\* The cost of an event that settles nothing, and the event of an initial document.
Unsettled == -1
Creation  == [action |-> "created"]

Event == [action : Action, tx : 1 .. MaxRevision + 1, run : Run,
          cost : Unsettled .. MaxCost, note : Note]

Steps == {"idle", "write", "replace", "sync", "raised"}

-----------------------------------------------------------------------------
(* What a document says                                                     *)

Transactions(d) == {i \in DOMAIN d : d[i].action = "reserved"}

Events(d, t, a) == {i \in DOMAIN d : d[i].tx = t /\ d[i].action = a}
Has(d, t, a)    == \E i \in DOMAIN d : d[i].tx = t /\ d[i].action = a

\* The state replay leaves transaction t in.
State(d, t) ==
    IF Has(d, t, "committed") THEN "committed"
    ELSE IF Has(d, t, "aborted_pre_request") THEN "aborted_pre_request"
    ELSE IF Has(d, t, "request_authorized") THEN "request_authorized"
    ELSE IF Has(d, t, "reserved") THEN "reserved"
    ELSE "unknown"

Resumes(d, t) == Events(d, t, "trial_resume_authorized")

\* Mutant: an authorized run may be reserved again.
Live_ReservedOnly(d, r) == {t \in Transactions(d) :
                               d[t].run = r /\ State(d, t) = "reserved"}

\* The transactions of run r that forbid another reservation of it.
Live(d, r) == {t \in Transactions(d) :
                   d[t].run = r /\ State(d, t) # "aborted_pre_request"}

\* What transaction t takes of the authority: its maximum until it is settled.
Charge(d, t) ==
    CASE State(d, t) = "committed" ->
            d[CHOOSE i \in Events(d, t, "committed") : TRUE].cost
      [] State(d, t) \in {"reserved", "request_authorized"} -> MaxCost
      [] OTHER -> 0

Exposure(d) == MapThenSumSet(LAMBDA t : Charge(d, t), Transactions(d))

\* May event e follow document d?  The body of the replay loop.
Admissible(d, e) ==
    /\ \/ /\ e.action = "reserved"
          /\ e.tx = Len(d) + 1
          /\ Live(d, e.run) = {}
          /\ e.cost = Unsettled
       \/ /\ e.action \in {"request_authorized", "aborted_pre_request"}
          /\ State(d, e.tx) = "reserved"
          /\ e.cost = Unsettled
       \/ /\ e.action = "trial_resume_authorized"
          /\ State(d, e.tx) = "request_authorized"
          /\ Resumes(d, e.tx) = {}
          /\ e.cost = Unsettled
       \/ /\ e.action = "committed"
          /\ State(d, e.tx) = "request_authorized"
          /\ e.cost \in 0 .. MaxCost
    /\ e.action = "reserved" \/ e.run = d[e.tx].run
    /\ Exposure(Append(d, e)) <= Total

\* The documents replay accepts.
Replays(d) == \A i \in DOMAIN d : Admissible(SubSeq(d, 1, i - 1), d[i])

-----------------------------------------------------------------------------
JInit ==
    /\ jdisk = <<>> /\ jsynced = <<>> /\ jtmp = FALSE
    /\ jlock = Nobody /\ jmem = <<>> /\ jstep = "idle" /\ jevent = Creation

\* p holds the lock and no append of its is under way or has failed.
JReady(p) == jlock = p /\ jstep = "idle"

\* An append of p, or of the initial document, raised: nothing else was adopted.
JRaised(p) == jlock = p /\ jstep = "raised"

\* Mutant: a fresh document is persisted over one that exists.
JOpen_Fresh(p) ==
    /\ jlock = Nobody /\ ~jtmp
    /\ jlock' = p
    /\ \/ jmem' = jdisk /\ jstep' = "idle"
       \/ jmem' = <<>> /\ jstep' = "write"
    /\ jevent' = Creation
    /\ UNCHANGED <<jdisk, jsynced, jtmp>>

\* BudgetJournal.__enter__: take the flock or fail, fail closed on a left-over
\* temporary file, read the document, or persist an initial one if there is none.
JOpen(p) ==
    /\ jlock = Nobody /\ ~jtmp
    /\ jlock' = p
    /\ jmem' = jdisk
    /\ \/ jstep' = "idle"
       \/ jdisk = <<>> /\ jstep' = "write"
    /\ jevent' = Creation
    /\ UNCHANGED <<jdisk, jsynced, jtmp>>

\* BudgetJournal.close, and what the death of the holder does to its lock.
JClose(p) ==
    /\ jlock = p
    /\ jlock' = Nobody /\ jmem' = <<>> /\ jstep' = "idle" /\ jevent' = Creation
    /\ UNCHANGED <<jdisk, jsynced, jtmp>>

\* The part of _append before anything is written: look at the disk again, build
\* the event, replay the document with it.
JAppend(p, e) ==
    /\ JReady(p)
    /\ jstep' = IF /\ ~jtmp /\ jmem = jdisk
                   /\ Len(jmem) < MaxRevision
                   /\ Admissible(jmem, e)
                THEN "write" ELSE "raised"
    /\ jevent' = e
    /\ UNCHANGED <<jdisk, jsynced, jtmp, jlock, jmem>>

\* _persist: the temporary file is written and synced, ...
JWrite ==
    /\ jstep = "write"
    /\ jtmp' = TRUE /\ jstep' = "replace"
    /\ UNCHANGED <<jdisk, jsynced, jlock, jmem, jevent>>

\* Mutant: the initial document holds the event that created it.
Appended_Creation == Append(jmem, jevent)

Appended == IF jevent = Creation THEN jmem ELSE Append(jmem, jevent)

\* ... renamed over the document, ...
JReplace ==
    /\ jstep = "replace"
    /\ jdisk' = Appended /\ jtmp' = FALSE /\ jstep' = "sync"
    /\ UNCHANGED <<jsynced, jlock, jmem, jevent>>

\* Mutant: the directory is not synced.
JSync_Unsynced ==
    /\ jstep = "sync"
    /\ jmem' = Appended /\ jstep' = "idle"
    /\ UNCHANGED <<jdisk, jsynced, jtmp, jlock, jevent>>

\* ... and the directory is synced; _append then adopts what it wrote.
JSync ==
    /\ jstep = "sync"
    /\ jsynced' = jdisk /\ jmem' = Appended /\ jstep' = "idle"
    /\ UNCHANGED <<jdisk, jtmp, jlock, jevent>>

\* Mutant: an error is swallowed, and the next append goes ahead.
JFail_Swallowed ==
    /\ jstep \in {"write", "replace", "sync"}
    /\ jstep' = "idle"
    /\ UNCHANGED <<jdisk, jsynced, jtmp, jlock, jmem, jevent>>

\* An error or an interrupt anywhere in _persist: what reached the disk stays,
\* and the memory does not learn of it.
JFail ==
    /\ jstep \in {"write", "replace", "sync"}
    /\ jstep' = "raised"
    /\ \/ jstep = "write" /\ jtmp' \in BOOLEAN
       \/ jstep # "write" /\ jtmp' = jtmp
    /\ UNCHANGED <<jdisk, jsynced, jlock, jmem, jevent>>

\* The machine stops: renames the directory was not synced after may be undone.
JPowerLoss ==
    /\ \E n \in Len(jsynced) .. Len(jdisk) :
          /\ jdisk' = SubSeq(jdisk, 1, n)
          /\ jsynced' = SubSeq(jdisk, 1, n)
    /\ jtmp' \in IF jtmp \/ jdisk # jsynced THEN BOOLEAN ELSE {FALSE}
    /\ jlock' = Nobody /\ jmem' = <<>> /\ jstep' = "idle" /\ jevent' = Creation

\* The operator inspects a left-over temporary file and removes it.
JInspect ==
    /\ jtmp /\ jlock = Nobody
    /\ jtmp' = FALSE
    /\ UNCHANGED <<jdisk, jsynced, jlock, jmem, jstep, jevent>>

JWork == JWrite \/ JReplace \/ JSync \/ JFail

-----------------------------------------------------------------------------
(* The methods a runner calls while it holds the lock                       *)

EventOf(a, t, r, cost, note) ==
    [action |-> a, tx |-> t, run |-> r, cost |-> cost, note |-> note]

\* A call that refuses before it appends anything.
JRefuse(p) ==
    /\ JReady(p)
    /\ jstep' = "raised"
    /\ UNCHANGED <<jdisk, jsynced, jtmp, jlock, jmem, jevent>>

\* Does transaction t stand for the very reservation that is asked for?
Reserved(t, note) == State(jmem, t) = "reserved" /\ jmem[t].note = note

\* reserve: a second call for a reservation that is still one returns it.
JReserve(p, r, note) ==
    \/ /\ Live(jmem, r) = {}
       /\ JAppend(p, EventOf("reserved", Len(jmem) + 1, r, Unsettled, note))
    \/ /\ \E t \in Live(jmem, r) : Reserved(t, note)
       /\ JReady(p) /\ UNCHANGED journalVars
    \/ /\ \E t \in Live(jmem, r) : ~Reserved(t, note)
       /\ JRefuse(p)

\* authorize_request; expected is the revision the caller reserved or read at.
JAuthorize(p, t, expected, note) ==
    IF State(jmem, t) = "reserved" /\ expected = Len(jmem)
    THEN JAppend(p, EventOf("request_authorized", t, jmem[t].run, Unsettled, note))
    ELSE JRefuse(p)

\* authorize_trial_resume, for the revision its caller's snapshot names.
JResume(p, t, note) ==
    IF State(jmem, t) = "request_authorized" /\ Resumes(jmem, t) = {}
    THEN JAppend(p, EventOf("trial_resume_authorized", t, jmem[t].run, Unsettled, note))
    ELSE JRefuse(p)

\* commit: settled usage may only be replayed identically.
JCommit(p, t, cost, note) ==
    CASE State(jmem, t) = "request_authorized" ->
            JAppend(p, EventOf("committed", t, jmem[t].run, cost, note))
      [] \E i \in Events(jmem, t, "committed") :
            jmem[i].cost = cost /\ jmem[i].note = note ->
            JReady(p) /\ UNCHANGED journalVars
      [] OTHER -> JRefuse(p)

\* An authorize_request that raised may have reached the disk: then, and only
\* then, the document there is this one and its one successor.
AuthorizedOnDisk(t) ==
    /\ ~jtmp
    /\ Len(jdisk) = Len(jmem) + 1
    /\ SubSeq(jdisk, 1, Len(jmem)) = jmem
    /\ jdisk[Len(jdisk)].action = "request_authorized"
    /\ jdisk[Len(jdisk)].tx = t

\* abort_pre_request, also after a call that raised: it adopts an authorization
\* that became durable and then refuses, and it refuses on any other drift.
JAbort(p, t, note) ==
    /\ jlock = p /\ jstep \in {"idle", "raised"}
    /\ jevent' = EventOf("aborted_pre_request", t, jmem[t].run, Unsettled, note)
    /\ \/ /\ State(jmem, t) = "reserved" /\ AuthorizedOnDisk(t)
          /\ jmem' = jdisk /\ jstep' = "raised"
       \/ /\ State(jmem, t) = "reserved" /\ ~AuthorizedOnDisk(t)
          /\ jmem' = jmem
          /\ jstep' = IF /\ ~jtmp /\ jmem = jdisk
                         /\ Len(jmem) < MaxRevision
                         /\ Admissible(jmem, jevent')
                      THEN "write" ELSE "raised"
       \/ /\ State(jmem, t) = "aborted_pre_request"
          /\ jmem' = jmem /\ jstep' = jstep
       \/ /\ State(jmem, t) \in {"request_authorized", "committed"}
          /\ jmem' = jmem /\ jstep' = "raised"
    /\ UNCHANGED <<jdisk, jsynced, jtmp, jlock>>

-----------------------------------------------------------------------------
\* What is asked for may cost anything; what is written stays within the maximum.
JTypeOK ==
    /\ jdisk \in Seq(Event) /\ jsynced \in Seq(Event) /\ jmem \in Seq(Event)
    /\ jtmp \in BOOLEAN
    /\ jlock \in Proc \cup {Nobody}
    /\ jstep \in Steps
    /\ jevent \in [action : Action, tx : 1 .. MaxRevision + 1, run : Run,
                   cost : Int, note : Note] \cup {Creation}
    /\ jstep \in {"write", "replace"} => jevent \in Event \cup {Creation}
-----------------------------------------------------------------------------
\* The ledger that survives a power loss.
Entries == [t \in Transactions(jsynced) |->
              [run |-> jsynced[t].run, state |-> State(jsynced, t),
               charge |-> Charge(jsynced, t)]]
Ledger == INSTANCE BudgetLedger WITH ledger <- Entries

\* The journal implements the ledger it promises, whoever uses it: whatever dies,
\* fails or loses power, a durable entry only advances, a run has one live entry, and
\* what is exposed stays within the authority (_replay_document, _write_and_sync).
LedgerKept == Ledger!Spec
=============================================================================
