------------------------------ MODULE EventJournal ------------------------------
(***************************************************************************)
(* A session's event journal and the connections that follow it            *)
(* (core/event_journal.zig; serveSse in web/server.zig; doAttach in        *)
(* daemon/uds.zig).  Any thread appends; the journal keeps a window of the *)
(* newest lines and counts on when it evicts from the front.  A reader     *)
(* connects with the cursor it has, waits outside the lock for new lines   *)
(* and is sent each batch frame by frame; connections drop, and a host     *)
(* that restarts has another journal, of another epoch, that counts from   *)
(* zero.                                                                   *)
(*                                                                         *)
(* A line is its true number in its journal and its size; everything else  *)
(* a reader computes (frame ids, cursors) from base_seq and its own        *)
(* arithmetic, as the code does.  A client keeps what it was sent as a     *)
(* stretch of one journal, and clears it on `resync`.                      *)
(***************************************************************************)
EXTENDS Integers, Sequences, SequencesExt

CONSTANTS Browsers,   \* readers over SSE
          Attached,   \* readers over the Unix socket
          MaxLines,   \* max_lines
          MaxBytes,   \* max_bytes
          Sizes,      \* sizes of a line
          MaxEvents,  \* lines appended to one journal
          MaxEpoch    \* journals in all

ASSUME JournalBounds ==
  /\ MaxLines \in Nat /\ MaxBytes \in Nat /\ MaxEvents \in Nat /\ MaxEpoch \in Nat \ {0}
  /\ Sizes \subseteq Nat
  /\ Browsers \cap Attached = {}

Readers == Browsers \cup Attached

VARIABLES epoch, lines, base_seq, total_bytes, closed,
          appended,  \* history: lines appended to this journal
          conn,      \* reader -> its connection
          cursor,    \* reader -> what it resumes from: the first seq it lacks
          view       \* reader -> the stretch of which journal it holds

journalVars == <<epoch, lines, base_seq, total_bytes, closed, appended>>
vars == <<journalVars, conn, cursor, view>>

Line(no, size) == [no |-> no, size |-> size]
Bytes(ls) == FoldLeft(LAMBDA sum, line : sum + line.size, 0, ls)

(* One connection: where its thread is, its `since` and the batch it sends. *)
Conn(pc, since, batch) == [pc |-> pc, since |-> since, batch |-> batch]
Off == Conn("off", 0, << >>)

Holds(n, from, next) == [log |-> n, from |-> from, next |-> next]

TypeOK ==
  /\ epoch \in 1 .. MaxEpoch
  /\ lines \in Seq([no : Nat, size : Sizes])
  /\ base_seq \in Nat /\ total_bytes \in Nat /\ closed \in BOOLEAN
  /\ appended \in 0 .. MaxEvents
  /\ conn \in [Readers ->
       [pc : {"off", "restart", "read", "waiting", "sending", "idle", "ended"},
        since : Nat, batch : Seq([no : Nat, size : Sizes])]]
  /\ cursor \in [Readers -> [epoch : Nat, next : Nat]]
  /\ view \in [Readers -> [log : Nat, from : Nat, next : Nat]]

Init ==
  /\ epoch = 1 /\ lines = << >> /\ base_seq = 0 /\ total_bytes = 0 /\ closed = FALSE
  /\ appended = 0
  /\ conn = [r \in Readers |-> Off]
  /\ cursor = [r \in Readers |-> [epoch |-> 0, next |-> 0]]
  /\ view = [r \in Readers |-> Holds(0, 0, 0)]

-----------------------------------------------------------------------------
(* The journal                                                              *)

Fits(ls) == Len(ls) <= 1 \/ (Len(ls) <= MaxLines /\ Bytes(ls) <= MaxBytes)

Without(ls, k) == SubSeq(ls, k + 1, Len(ls))

(* evictLocked: as many lines from the front as it takes.                   *)
Evicted(ls) ==
  CHOOSE k \in 0 .. Len(ls) :
    Fits(Without(ls, k)) /\ \A j \in 0 .. k - 1 : ~Fits(Without(ls, j))

(* Mutant: the position of the window does not move with it.                *)
Advance_Not(k) == UNCHANGED base_seq

Advance(k) == base_seq' = base_seq + k

BytesAfter(size, gone) == total_bytes + size - gone

(* append.  Whoever closes a journal has stopped the session's work first,  *)
(* so nothing is appended to a closed one.                                  *)
AppendLine(size) ==
  /\ appended < MaxEvents /\ ~closed
  /\ LET all == lines \o << Line(appended, size) >>
         k   == Evicted(all)
     IN /\ lines' = Without(all, k)
        /\ Advance(k)
        /\ total_bytes' = BytesAfter(size, Bytes(SubSeq(all, 1, k)))
  /\ appended' = appended + 1
  /\ UNCHANGED <<epoch, closed, conn, cursor, view>>

Close ==
  /\ ~closed /\ closed' = TRUE
  /\ UNCHANGED <<epoch, lines, base_seq, total_bytes, appended, conn, cursor, view>>

(* The host restarts: its connections are gone, its journal starts empty.   *)
Restart ==
  /\ epoch < MaxEpoch
  /\ epoch' = epoch + 1
  /\ lines' = << >> /\ base_seq' = 0 /\ total_bytes' = 0 /\ closed' = FALSE
  /\ appended' = 0
  /\ conn' = [r \in Readers |-> Off]
  /\ UNCHANGED <<cursor, view>>

count == base_seq + Len(lines)

-----------------------------------------------------------------------------
(* Clients                                                                  *)

(* `seq` of a snapshot is read before the state it comes with: the client   *)
(* starts its view there and follows from there.                            *)
Snapshot(r) ==
  /\ conn[r].pc = "off"
  /\ cursor' = [cursor EXCEPT ![r] = [epoch |-> epoch, next |-> count]]
  /\ view' = [view EXCEPT ![r] = Holds(epoch, count, count)]
  /\ UNCHANGED <<journalVars, conn>>

Drop(r) ==
  /\ conn[r].pc \notin {"off", "ended"}
  /\ conn' = [conn EXCEPT ![r] = Off]
  /\ UNCHANGED <<journalVars, cursor, view>>

(* planResume, on the cursor as the client named it: an epoch it did not    *)
(* name is 0.  The count is read here; firstSeq, if the reader restarts, in *)
(* a critical section of its own.                                           *)
RestartReason(named, next) ==
  CASE named # 0 /\ named # epoch -> "epoch_changed"
    [] named = 0 /\ next > 0      -> "epoch_unknown"
    [] OTHER -> IF next > count THEN "cursor_ahead" ELSE "none"

(* Mutant: a cursor is continued whatever journal it came from.             *)
PlanResume_AnyEpoch(named, next) == IF next > count THEN "restart" ELSE "read"

PlanResume(named, next) == IF RestartReason(named, next) = "none" THEN "read" ELSE "restart"

(* A client older than epochs names none.  One that begins with nothing     *)
(* takes the journal it finds.                                              *)
Connect(r) ==
  /\ r \in Browsers /\ conn[r].pc = "off"
  /\ \E named \in {cursor[r].epoch, 0} :
       LET next == cursor[r].next IN
         /\ conn' = [conn EXCEPT ![r] = Conn(PlanResume(named, next), next, << >>)]
         /\ view' = IF named = 0 /\ next = 0
                    THEN [view EXCEPT ![r] = Holds(epoch, 0, 0)] ELSE view
  /\ UNCHANGED <<journalVars, cursor>>

(* doAttach: since as the client gave it.                                   *)
Attach(r) ==
  /\ r \in Attached /\ conn[r].pc = "off"
  /\ conn' = [conn EXCEPT ![r] = Conn("read", cursor[r].next, << >>)]
  /\ view' = IF cursor[r].next = 0 THEN [view EXCEPT ![r] = Holds(epoch, 0, 0)] ELSE view
  /\ UNCHANGED <<journalVars, cursor>>

-----------------------------------------------------------------------------
(* A connection thread                                                      *)

(* serveSse sends `resync`: the client's view starts over there.            *)
Resync(r, at) == view' = [view EXCEPT ![r] = Holds(epoch, at, at)]

(* When it could not continue the cursor the client takes the new one too.  *)
SendsRestart(r) ==
  /\ conn[r].pc = "restart"
  /\ conn' = [conn EXCEPT ![r] = Conn("read", base_seq, << >>)]
  /\ Resync(r, base_seq)
  /\ cursor' = [cursor EXCEPT ![r] = [epoch |-> epoch, next |-> base_seq]]
  /\ UNCHANGED journalVars

(* The first line a reader at `since` can still get.  waitSinceFrom computes*)
(* it again on every way out of the wait.                                   *)
EffectiveStart(r) == IF conn[r].since > base_seq THEN conn[r].since ELSE base_seq

(* waitSinceFrom found nothing: it waits, with the mutex released.          *)
Waits(r) ==
  /\ conn[r].pc = "read"
  /\ count <= EffectiveStart(r) /\ ~closed
  /\ conn' = [conn EXCEPT ![r].pc = "waiting"]
  /\ UNCHANGED <<journalVars, cursor, view>>

(* waitSinceFrom returns a batch: at once, after a broadcast or after the   *)
(* time-out.  serveSse reports a start the client did not ask for and       *)
(* counts on from it; doAttach (waitSince) is not told where it starts.     *)
Batch(r) ==
  /\ conn[r].pc \in {"read", "waiting"}
  /\ LET eff == EffectiveStart(r) IN
       /\ count > eff
       /\ IF r \in Browsers /\ eff > conn[r].since THEN Resync(r, eff) ELSE UNCHANGED view
       /\ conn' = [conn EXCEPT ![r] =
                     Conn("sending", IF r \in Browsers THEN eff ELSE @.since,
                          SubSeq(lines, eff - base_seq + 1, Len(lines)))]
  /\ UNCHANGED <<journalVars, cursor>>

(* waitSinceFrom returns nothing, and the mutex is released.                *)
Nothing(r) ==
  /\ conn[r].pc \in {"read", "waiting"}
  /\ count <= EffectiveStart(r)
  /\ conn[r].pc = "waiting" \/ closed
  /\ conn' = [conn EXCEPT ![r] = Conn("idle", @.since, << >>)]
  /\ UNCHANGED <<journalVars, cursor, view>>

AfterIdle == IF closed THEN "ended" ELSE "read"

(* isClosed: `session_closed` and the end, or a keepalive and the next wait.*)
Idle(r) ==
  /\ conn[r].pc = "idle"
  /\ conn' = [conn EXCEPT ![r].pc = AfterIdle]
  /\ UNCHANGED <<journalVars, cursor, view>>

(* Mutant: the position is moved past a line that was not sent.             *)
NextSince_SkipsOne(since) == since + 2

NextSince(since) == since + 1

(* One frame reaches the client, with the id the server computed for it; a  *)
(* client over the socket counts lines.  The client appends it to its view  *)
(* and will resume after it.                                                *)
Frame(r) ==
  /\ conn[r].pc = "sending"
  /\ conn' = [conn EXCEPT ![r] =
       Conn(IF Len(@.batch) = 1 THEN "read" ELSE "sending", NextSince(@.since),
            Tail(@.batch))]
  /\ cursor' = [cursor EXCEPT ![r] = [epoch |-> epoch, next |-> conn[r].since + 1]]
  /\ view' = [view EXCEPT ![r].next = Head(conn[r].batch).no + 1]
  /\ UNCHANGED journalVars

Serve(r) == SendsRestart(r) \/ Waits(r) \/ Batch(r) \/ Nothing(r) \/ Idle(r) \/ Frame(r)

-----------------------------------------------------------------------------
Finished == closed /\ (\A r \in Readers : conn[r].pc = "ended") /\ UNCHANGED vars

Next ==
  \/ \E size \in Sizes : AppendLine(size)
  \/ Close \/ Restart
  \/ \E r \in Readers : Snapshot(r) \/ Connect(r) \/ Attach(r) \/ Drop(r) \/ Serve(r)
  \/ Finished

(* A connection thread runs on: every wait ends at a broadcast or after 15  *)
(* seconds.                                                                 *)
Spec     == Init /\ [][Next]_vars
FairSpec == Spec /\ \A r \in Readers : WF_vars(Serve(r))

-----------------------------------------------------------------------------
(* The window is the newest lines of the journal under their true numbers,  *)
(* within both limits unless a single line is over one, and the byte count  *)
(* the eviction goes by is the one of the lines kept (evictLocked).  The id *)
(* of a frame names the line it carries, so the cursor a client resumes     *)
(* from is the one it means, evictions and resyncs before it                *)
(* notwithstanding (eventId(since + i) in serveSse).                        *)
WindowExact ==
  /\ count = appended
  /\ \A i \in 1 .. Len(lines) : lines[i].no = base_seq + i - 1
  /\ total_bytes = Bytes(lines)
  /\ Fits(lines)
  /\ \A r \in Browsers :
       conn[r].pc = "sending" => conn[r].since = Head(conn[r].batch).no

(* Over reconnects, evictions and host restarts, a browser's view is one    *)
(* unbroken stretch of one journal: it is never skipped ahead, given a line *)
(* twice or continued in another journal without `resync`.                  *)
EL == INSTANCE EventLog WITH
        Readers <- Browsers,
        log     <- [no |-> epoch, length |-> count],
        view    <- [r \in Browsers |-> view[r]]

ImplementsEventLog == EL!LSpec

(* A line that was appended reaches every browser that stays connected, and *)
(* a closed journal ends every connection (close wakes each wait).          *)
ReadersGoOn ==
  /\ \A r \in Browsers, n \in 1 .. MaxEvents, e \in 1 .. MaxEpoch :
       (epoch = e /\ appended >= n /\ conn[r].pc \notin {"off", "ended"}) ~>
         (epoch # e \/ conn[r].pc \in {"off", "ended"} \/ (view[r].log = e /\ view[r].next >= n))
  /\ \A r \in Readers :
       closed /\ conn[r].pc # "off" ~> conn[r].pc \in {"off", "ended"}

(* A stream that ends with session_closed has delivered the last event      *)
(* (doc/API.md: every stream receives the last events, then the close).     *)
EndedSawAll ==
  \A r \in Browsers : conn[r].pc = "ended" => view[r].next = count

(* An attachment over the socket streams the journal forward: the line that *)
(* comes next is not one that came before.                                  *)
AttachNeverRepeats ==
  [][\A r \in Attached :
       conn[r].pc = "sending" /\ view'[r] # view[r] => view'[r].next > view[r].next]_vars
=============================================================================
