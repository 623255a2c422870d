------------------------- MODULE EventJournal_proofs -------------------------
(***************************************************************************)
(* A browser's stream is one unbroken stretch of one log, for any readers, *)
(* limits, sizes and number of journals: EventJournal implements EventLog. *)
(* The invariant relates, for each browser, the position of its connection *)
(* (`since`), the cursor it would resume from and what it holds: the three *)
(* agree, unless the window has moved past the position, in which case the *)
(* next batch starts with `resync`.                                        *)
(* The byte count that decides what is evicted is a fold over the window;  *)
(* shown to be additive, it is kept true by appends and evictions          *)
(* (WindowIsExact).                                                        *)
(***************************************************************************)
EXTENDS EventJournal, WellFoundedInduction, TLAPS

USE JournalBounds

Lines == Seq([no : Nat, size : Sizes])
ConnType == [pc : {"off", "restart", "read", "waiting", "sending", "idle", "ended"},
             since : Nat, batch : Lines]

TypesOK ==
    /\ epoch \in Nat \ {0} /\ base_seq \in Nat /\ appended \in Nat
    /\ lines \in Lines
    /\ conn \in [Readers -> ConnType]
    /\ cursor \in [Readers -> [epoch : Nat, next : Nat]]
    /\ view \in [Readers -> [log : Nat, from : Nat, next : Nat]]
    /\ \A r \in Readers : conn[r].pc = "sending" => conn[r].batch # << >>

\* The window holds the newest lines, under their true numbers.
WindowTrue ==
    /\ count = appended
    /\ \A i \in 1 .. Len(lines) : lines[i].no = base_seq + i - 1

\* What browser r holds ends at n, or the window has moved past n.
Follows(r, n) == view[r].log = epoch /\ (view[r].next = n \/ n < base_seq)

\* A cursor of this journal is where the browser's view ends.
CursorTrue(r) ==
    /\ cursor[r].epoch <= epoch
    /\ cursor[r].epoch = 0 => cursor[r].next = 0
    /\ cursor[r].epoch = epoch => Follows(r, cursor[r].next)

\* So is the position of a connection that waits, ...
WaitingTrue(r) ==
    conn[r].pc \in {"read", "waiting", "idle"} =>
        /\ conn[r].since <= count
        /\ Follows(r, conn[r].since)
        /\ cursor[r].epoch = epoch => cursor[r].next = conn[r].since

\* ... and a batch under way continues the view, line by line.
SendingTrue(r) ==
    conn[r].pc = "sending" =>
        LET b == conn[r].batch
        IN /\ Len(b) > 0
           /\ \A i \in 1 .. Len(b) : b[i].no = conn[r].since + i - 1
           /\ conn[r].since + Len(b) <= count
           /\ view[r].log = epoch /\ view[r].next = conn[r].since

BrowserTrue(r) == CursorTrue(r) /\ WaitingTrue(r) /\ SendingTrue(r)

IInv == TypesOK /\ WindowTrue /\ \A r \in Browsers : BrowserTrue(r)

-----------------------------------------------------------------------------
(* The window                                                                *)

LEMMA LeastOf ==
  ASSUME NEW T, T \subseteq Nat, T # {}
  PROVE  \E m \in T : \A k \in T : m <= k
  <1>1. PICK m \in T : \A k \in T : ~(<<k, m>> \in OpToRel(<, Nat))
    BY NatLessThanWellFounded, WFMin
  <1>2. \A k \in T : ~(k < m)
    BY <1>1 DEF OpToRel
  <1>3. m \in Nat /\ \A k \in T : k \in Nat
    OBVIOUS
  <1> QED  BY <1>2, <1>3

\* There is a least number of lines to evict: at the latest, all of them.
LEMMA EvictedInRange ==
  ASSUME NEW ls \in Lines
  PROVE  Evicted(ls) \in 0 .. Len(ls) /\ Fits(Without(ls, Evicted(ls)))
  <1> DEFINE T == {k \in 0 .. Len(ls) : Fits(Without(ls, k))}
  <1>1. Len(ls) \in Nat
    BY DEF Lines
  <1>2. Len(Without(ls, Len(ls))) = 0
    BY <1>1 DEF Lines, Without
  <1>3. Len(ls) \in T
    BY <1>1, <1>2 DEF Fits
  <1>4. T \subseteq Nat /\ T # {}
    BY <1>1, <1>3
  <1>5. PICK m \in T : \A k \in T : m <= k
    BY <1>4, LeastOf
  <1>6. /\ m \in 0 .. Len(ls) /\ Fits(Without(ls, m))
        /\ \A j \in 0 .. m - 1 : ~Fits(Without(ls, j))
    BY <1>1, <1>5
  <1> QED  BY <1>6 DEF Evicted

LEMMA WithoutFacts ==
  ASSUME NEW ls \in Lines, NEW k \in 0 .. Len(ls)
  PROVE  /\ Without(ls, k) \in Lines /\ Len(Without(ls, k)) = Len(ls) - k
         /\ \A i \in 1 .. Len(ls) - k : Without(ls, k)[i] = ls[k + i]
  <1> DEFINE S == [no : Nat, size : Sizes]
  <1>1. ls \in Seq(S)
    BY DEF Lines
  <1> HIDE DEF S
  <1>2. Len(ls) \in Nat /\ k \in Nat /\ k <= Len(ls)
    BY <1>1
  <1>3. SubSeq(ls, k + 1, Len(ls)) \in Seq(S)
    BY <1>1, <1>2
  <1>4. Len(SubSeq(ls, k + 1, Len(ls))) = Len(ls) - k
    BY <1>1, <1>2
  <1>5. \A i \in 1 .. Len(ls) - k : SubSeq(ls, k + 1, Len(ls))[i] = ls[k + i]
    BY <1>1, <1>2, <1>4
  <1> QED  BY <1>3, <1>4, <1>5 DEF Lines, Without, S

-----------------------------------------------------------------------------
(* The byte count.  Bytes is a fold over the positions of a sequence that    *)
(* takes the last one first; that it gives each line its size, and that the  *)
(* sizes of a front and of the rest make up those of the whole, is shown for *)
(* shorter and shorter fronts.                                               *)

\* G gives each set of positions of ls the bytes of the lines there.
Counts(G, ls) == G = [s \in SUBSET DOMAIN ls |->
    IF s = {} THEN 0 ELSE G[s \ {Max(s)}] + ls[Max(s)].size]

LEMMA MaxFacts ==
  ASSUME NEW n \in Nat, NEW s \in SUBSET (1 .. n), s # {}
  PROVE  /\ Max(s) \in s /\ \A y \in s : Max(s) >= y
         /\ s \ {Max(s)} \subseteq 1 .. n - 1
  <1> DEFINE T == {n - x : x \in s}
  <1>1. PICK m \in T : \A k \in T : m <= k
    <2>1. \A x \in s : n - x \in Nat
      OBVIOUS
    <2>2. T \subseteq Nat /\ T # {}
      BY <2>1
    <2> HIDE DEF T
    <2> QED  BY <2>2, LeastOf
  <1>2. PICK x \in s : m = n - x
    BY <1>1
  <1>3. \A y \in s : x >= y
    <2>1. \A y \in s : n - x <= n - y
      BY <1>1, <1>2
    <2> QED  BY <2>1
  <1>4. Max(s) \in s /\ \A y \in s : Max(s) >= y
    BY <1>3 DEF Max
  <1> DEFINE top == Max(s)
  <1> HIDE DEF top
  <1>5. \A y \in s \ {top} : y \in 1 .. n - 1
    <2>1. top \in s /\ \A y \in s : top >= y
      BY <1>4 DEF top
    <2>2. top \in Int /\ top <= n
      BY <2>1
    <2> QED  BY <2>1, <2>2
  <1> QED  BY <1>4, <1>5 DEF top

LEMMA MaxOfFirst ==
  ASSUME NEW n \in Nat, n # 0
  PROVE  Max(1 .. n) = n /\ (1 .. n) \ {n} = 1 .. n - 1 /\ 1 .. n # {}
  <1>1. n \in 1 .. n
    OBVIOUS
  <1>2. Max(1 .. n) \in 1 .. n /\ Max(1 .. n) >= n
    BY <1>1, MaxFacts
  <1> QED  BY <1>1, <1>2

LEMMA CountsExist ==
  ASSUME NEW ls \in Lines
  PROVE  \E G : Counts(G, ls)
  <1> DEFINE n == Len(ls)
             Up(G) == [s \in SUBSET (1 .. n) |->
                IF s = {} THEN 0 ELSE G[s \ {Max(s)}] + ls[Max(s)].size]
             To(G, m) == \A s \in SUBSET (1 .. m) : G[s] = Up(G)[s]
             B == {m \in 0 .. n : ~ \E G : To(G, m)}
  <1>1. n \in Nat /\ DOMAIN ls = 1 .. n
    BY DEF Lines
  <1>2. ASSUME NEW G, NEW m \in 1 .. n, To(G, m - 1)
        PROVE  To(Up(G), m)
    <2> SUFFICES ASSUME NEW s \in SUBSET (1 .. m)
                 PROVE  Up(G)[s] = Up(Up(G))[s]
      OBVIOUS
    <2>1. s \in SUBSET (1 .. n)
      BY <1>1
    <2>2. CASE s = {}
      BY <2>1, <2>2
    <2>3. CASE s # {}
      <3> DEFINE r == s \ {Max(s)}
      <3>1. r \in SUBSET (1 .. m - 1) /\ r \in SUBSET (1 .. n)
        <4>1. m \in Nat /\ r \subseteq s
          OBVIOUS
        <4> QED  BY <2>1, <2>3, <4>1, MaxFacts
      <3>2. G[r] = Up(G)[r]
        BY <1>2, <3>1
      <3>3. Up(G)[s] = G[r] + ls[Max(s)].size
        BY <2>1, <2>3
      <3>4. Up(Up(G))[s] = Up(G)[r] + ls[Max(s)].size
        BY <2>1, <2>3
      <3> QED  BY <3>2, <3>3, <3>4
    <2> QED  BY <2>2, <2>3
  <1>3. B = {}
    <2> SUFFICES ASSUME B # {}
                 PROVE  FALSE
      OBVIOUS
    <2>1. PICK m \in B : \A k \in B : m <= k
      <3>1. B \subseteq Nat
        BY <1>1
      <3> HIDE DEF B
      <3> QED  BY <3>1, LeastOf
    <2>2. m \in 0 .. n /\ ~ \E G : To(G, m)
      OBVIOUS
    <2>3. m # 0
      <3>1. To([s \in SUBSET (1 .. n) |-> 0], 0)
        <4>1. \A s \in SUBSET (1 .. 0) : s = {}
          OBVIOUS
        <4> QED  BY <4>1
      <3> QED  BY <2>2, <3>1
    <2>4. m - 1 \in 0 .. n /\ m \in 1 .. n /\ ~(m <= m - 1)
      BY <1>1, <2>2, <2>3
    <2>5. PICK G : To(G, m - 1)
      BY <2>1, <2>4
    <2> HIDE DEF To, Up, B
    <2>6. To(Up(G), m)
      BY <1>2, <2>4, <2>5
    <2> QED  BY <2>2, <2>6
  <1>4. PICK G : To(G, n)
    <2>1. n \in 0 .. n
      BY <1>1
    <2>2. n \notin B
      <3> HIDE DEF B
      <3> QED  BY <1>3
    <2> HIDE DEF To, n
    <2> QED  BY <2>1, <2>2
  <1>5. Up(G) = Up(Up(G))
    <2> SUFFICES ASSUME NEW s \in SUBSET (1 .. n)
                 PROVE  Up(G)[s] = Up(Up(G))[s]
      OBVIOUS
    <2>1. CASE s = {}
      BY <2>1
    <2>2. CASE s # {}
      <3> DEFINE r == s \ {Max(s)}
      <3>1. r \in SUBSET (1 .. n)
        OBVIOUS
      <3>2. G[r] = Up(G)[r]
        BY <1>4, <3>1
      <3>3. Up(G)[s] = G[r] + ls[Max(s)].size
        BY <2>2
      <3>4. Up(Up(G))[s] = Up(G)[r] + ls[Max(s)].size
        BY <2>2
      <3> QED  BY <3>2, <3>3, <3>4
    <2> QED  BY <2>1, <2>2
  <1> QED  BY <1>1, <1>5 DEF Counts

LEMMA BytesIs ==
  ASSUME NEW ls \in Lines
  PROVE  \E G : Counts(G, ls) /\ Bytes(ls) = G[1 .. Len(ls)]
  <1> DEFINE F == CHOOSE G : Counts(G, ls)
  <1>1. Counts(F, ls)
    BY CountsExist
  <1>2. Bytes(ls) = F[DOMAIN ls]
    BY DEF Bytes, FoldLeft, MapThenFoldSet, Counts
  <1>3. DOMAIN ls = 1 .. Len(ls)
    BY DEF Lines
  <1> QED  BY <1>1, <1>2, <1>3

LEMMA LineTyped ==
  ASSUME NEW ls \in Lines, NEW i \in 1 .. Len(ls)
  PROVE  ls[i].size \in Nat
  <1> DEFINE S == [no : Nat, size : Sizes]
  <1>1. ls \in Seq(S)
    BY DEF Lines
  <1> HIDE DEF S
  <1>2. ls[i] \in S
    BY <1>1
  <1> QED  BY <1>2 DEF S

\* The bytes of a front are those of one line less and of its last.
LEMMA CountsStep ==
  ASSUME NEW ls \in Lines, NEW G, Counts(G, ls), NEW m \in 1 .. Len(ls)
  PROVE  G[1 .. m] = G[1 .. m - 1] + ls[m].size /\ ls[m].size \in Nat
  <1>1. DOMAIN ls = 1 .. Len(ls) /\ Len(ls) \in Nat
    BY DEF Lines
  <1>2. m \in Nat /\ m # 0 /\ 1 .. m \in SUBSET DOMAIN ls /\ m \in DOMAIN ls
    BY <1>1
  <1>3. ls[m].size \in Nat
    BY LineTyped
  <1>4. Max(1 .. m) = m /\ (1 .. m) \ {m} = 1 .. m - 1 /\ 1 .. m # {}
    BY <1>2, MaxOfFirst
  <1>5. G[1 .. m] = G[(1 .. m) \ {Max(1 .. m)}] + ls[Max(1 .. m)].size
    BY <1>2, <1>4 DEF Counts
  <1> QED  BY <1>3, <1>4, <1>5

LEMMA CountsNone ==
  ASSUME NEW ls \in Lines, NEW G, Counts(G, ls)
  PROVE  G[1 .. 0] = 0
  <1>1. 1 .. 0 = {}
    OBVIOUS
  <1> QED  BY <1>1 DEF Counts

LEMMA CountsSame ==
  ASSUME NEW ls \in Lines, NEW ms \in Lines, NEW G, NEW H, Counts(G, ls), Counts(H, ms),
         NEW m \in 0 .. Len(ls), m <= Len(ms), \A i \in 1 .. m : ls[i] = ms[i]
  PROVE  G[1 .. m] = H[1 .. m] /\ G[1 .. m] \in Nat
  <1> DEFINE Right(k) == G[1 .. k] = H[1 .. k] /\ G[1 .. k] \in Nat
             B == {k \in 0 .. m : ~Right(k)}
  <1>1. m \in Nat /\ Len(ls) \in Nat /\ Len(ms) \in Nat /\ m <= Len(ls)
    BY DEF Lines
  <1>2. ASSUME B # {}
        PROVE  FALSE
    <2>1. PICK k \in B : \A j \in B : k <= j
      <3>1. B \subseteq Nat
        BY <1>1
      <3> HIDE DEF B
      <3> QED  BY <1>2, <3>1, LeastOf
    <2>2. k \in 0 .. m /\ ~Right(k)
      BY <2>1
    <2>3. k # 0
      BY <2>2, CountsNone
    <2>4. k \in 1 .. m /\ k - 1 \in 0 .. m /\ ~(k <= k - 1)
      BY <1>1, <2>2, <2>3
    <2>5. Right(k - 1)
      BY <2>1, <2>4
    <2>6. k \in 1 .. Len(ls) /\ k \in 1 .. Len(ms) /\ ls[k] = ms[k]
      BY <1>1, <2>4
    <2>7. /\ G[1 .. k] = G[1 .. k - 1] + ls[k].size /\ ls[k].size \in Nat
          /\ H[1 .. k] = H[1 .. k - 1] + ms[k].size
      BY <2>6, CountsStep
    <2> QED  BY <2>2, <2>5, <2>6, <2>7
  <1>3. m \in 0 .. m
    BY <1>1
  <1> QED  BY <1>2, <1>3

LEMMA BytesTyped ==
  ASSUME NEW ls \in Lines
  PROVE  Bytes(ls) \in Nat
  <1>1. PICK G : Counts(G, ls) /\ Bytes(ls) = G[1 .. Len(ls)]
    BY BytesIs
  <1>2. Len(ls) \in 0 .. Len(ls) /\ Len(ls) <= Len(ls)
    BY DEF Lines
  <1> QED  BY <1>1, <1>2, CountsSame

LEMMA BytesOfNone == Bytes(<< >>) = 0 /\ << >> \in Lines
  <1>1. << >> \in Lines /\ Len(<< >>) = 0
    BY DEF Lines
  <1> QED  BY <1>1, BytesIs, CountsNone

\* One line more.
LEMMA BytesOfMore ==
  ASSUME NEW ls \in Lines, NEW ms \in Lines, Len(ms) = Len(ls) + 1,
         \A i \in 1 .. Len(ls) : ms[i] = ls[i]
  PROVE  Bytes(ms) = Bytes(ls) + ms[Len(ms)].size
  <1>1. PICK G : Counts(G, ls) /\ Bytes(ls) = G[1 .. Len(ls)]
    BY BytesIs
  <1>2. PICK H : Counts(H, ms) /\ Bytes(ms) = H[1 .. Len(ms)]
    BY BytesIs
  <1>3. /\ Len(ls) \in Nat /\ Len(ls) \in 0 .. Len(ls) /\ Len(ls) <= Len(ms)
        /\ Len(ms) \in 1 .. Len(ms) /\ Len(ms) - 1 = Len(ls)
    BY DEF Lines
  <1>4. G[1 .. Len(ls)] = H[1 .. Len(ls)]
    <2> DEFINE m == Len(ls)
    <2>1. m \in 0 .. Len(ls) /\ m <= Len(ms) /\ \A i \in 1 .. m : ls[i] = ms[i]
      BY <1>3
    <2> HIDE DEF m
    <2>2. G[1 .. m] = H[1 .. m]
      BY <1>1, <1>2, <2>1, CountsSame
    <2> QED  BY <2>2 DEF m
  <1>5. H[1 .. Len(ms)] = H[1 .. Len(ls)] + ms[Len(ms)].size
    BY <1>2, <1>3, CountsStep
  <1> QED  BY <1>1, <1>2, <1>4, <1>5

\* What is evicted and what stays make up the whole.
LEMMA BytesSplit ==
  ASSUME NEW ls \in Lines, NEW k \in 0 .. Len(ls)
  PROVE  /\ SubSeq(ls, 1, k) \in Lines
         /\ Bytes(ls) = Bytes(SubSeq(ls, 1, k)) + Bytes(Without(ls, k))
  <1> DEFINE Ahead(m) == SubSeq(ls, 1, m)
             rest == Without(ls, k)
             Mid(m) == SubSeq(rest, 1, m)
             n == Len(ls) - k
             Right(m) == Bytes(Ahead(k + m)) = Bytes(Ahead(k)) + Bytes(Mid(m))
             B == {m \in 0 .. n : ~Right(m)}
  <1>1. /\ Len(ls) \in Nat /\ n \in Nat /\ k \in Nat
        /\ rest \in Lines /\ Len(rest) = n /\ \A i \in 1 .. n : rest[i] = ls[k + i]
    <2>1. Len(ls) \in Nat /\ n \in Nat /\ k \in Nat
      BY DEF Lines
    <2> QED  BY <2>1, WithoutFacts
  <1>2. \A s \in Lines : \A m \in 0 .. Len(s) :
          /\ SubSeq(s, 1, m) \in Lines /\ Len(SubSeq(s, 1, m)) = m
          /\ \A i \in 1 .. m : SubSeq(s, 1, m)[i] = s[i]
          /\ SubSeq(s, 1, Len(s)) = s /\ SubSeq(s, 1, 0) = << >>
    <2> DEFINE S == [no : Nat, size : Sizes]
    <2>1. Lines = Seq(S)
      BY DEF Lines
    <2> HIDE DEF S
    <2>2. \A s \in Seq(S) : \A m \in 0 .. Len(s) :
            /\ SubSeq(s, 1, m) \in Seq(S) /\ Len(SubSeq(s, 1, m)) = m
            /\ \A i \in 1 .. m : SubSeq(s, 1, m)[i] = s[i]
      OBVIOUS
    <2>3. \A s \in Seq(S) : SubSeq(s, 1, Len(s)) = s /\ SubSeq(s, 1, 0) = << >>
      OBVIOUS
    <2> QED  BY <2>1, <2>2, <2>3
  <1>3. \A m \in 0 .. n : /\ Mid(m) \in Lines /\ Len(Mid(m)) = m
                          /\ \A i \in 1 .. m : Mid(m)[i] = ls[k + i]
    BY <1>1, <1>2
  <1>4. \A m \in 0 .. Len(ls) : /\ Ahead(m) \in Lines /\ Len(Ahead(m)) = m
                                /\ \A i \in 1 .. m : Ahead(m)[i] = ls[i]
    BY <1>2
  <1>5. Mid(n) = rest /\ Mid(0) = << >> /\ Ahead(k + n) = ls /\ Ahead(k + 0) = Ahead(k)
    BY <1>1, <1>2
  <1> HIDE DEF Ahead, Mid, rest, n
  <1>6. ASSUME B # {}
        PROVE  FALSE
    <2>1. PICK m \in B : \A j \in B : m <= j
      <3>1. B \subseteq Nat
        BY <1>1
      <3> HIDE DEF B
      <3> QED  BY <1>6, <3>1, LeastOf
    <2>2. m \in 0 .. n /\ ~Right(m)
      BY <2>1
    <2>3. m # 0
      <3>1. Bytes(Ahead(k)) \in Nat
        BY <1>1, <1>4, BytesTyped
      <3> QED  BY <1>5, <2>2, <3>1, BytesOfNone
    <2>4. m - 1 \in 0 .. n /\ ~(m <= m - 1) /\ m - 1 \in Nat
      BY <1>1, <2>2, <2>3
    <2>5. Right(m - 1)
      BY <2>1, <2>4
    <2>6. k + m \in 0 .. Len(ls) /\ k + (m - 1) \in 0 .. Len(ls) /\ k \in 0 .. Len(ls)
          /\ k + m \in 1 .. k + m /\ m \in 1 .. m
      BY <1>1, <2>2, <2>3 DEF n
    <2>7. Bytes(Ahead(k + m)) = Bytes(Ahead(k + (m - 1))) + ls[k + m].size
      <3>1. /\ Ahead(k + m) \in Lines /\ Len(Ahead(k + m)) = k + m
            /\ Ahead(k + (m - 1)) \in Lines /\ Len(Ahead(k + (m - 1))) = k + (m - 1)
            /\ Ahead(k + m)[k + m] = ls[k + m]
        BY <1>4, <2>6
      <3>2. k + m = k + (m - 1) + 1
            /\ \A i \in 1 .. k + (m - 1) : Ahead(k + m)[i] = Ahead(k + (m - 1))[i]
        BY <1>1, <1>4, <2>4, <2>6
      <3> QED  BY <3>1, <3>2, BytesOfMore
    <2>8. Bytes(Mid(m)) = Bytes(Mid(m - 1)) + ls[k + m].size
      <3>1. /\ Mid(m) \in Lines /\ Len(Mid(m)) = m
            /\ Mid(m - 1) \in Lines /\ Len(Mid(m - 1)) = m - 1
            /\ Mid(m)[m] = ls[k + m]
        BY <1>3, <2>2, <2>4, <2>6
      <3>2. m = m - 1 + 1 /\ \A i \in 1 .. m - 1 : Mid(m)[i] = Mid(m - 1)[i]
        BY <1>1, <1>3, <2>2, <2>4
      <3> QED  BY <3>1, <3>2, BytesOfMore
    <2>9. /\ Bytes(Ahead(k)) \in Nat /\ Bytes(Mid(m - 1)) \in Nat /\ ls[k + m].size \in Nat
      <3>1. Bytes(Ahead(k)) \in Nat /\ Bytes(Mid(m - 1)) \in Nat
        BY <1>3, <1>4, <2>4, <2>6, BytesTyped
      <3>2. k + m \in 1 .. Len(ls)
        BY <1>1, <2>2, <2>3, <2>6
      <3> QED  BY <3>1, <3>2, LineTyped
    <2> QED  BY <2>2, <2>5, <2>7, <2>8, <2>9
  <1>7. n \in 0 .. n
    BY <1>1
  <1>8. Right(n)
    BY <1>6, <1>7
  <1> QED  BY <1>4, <1>5, <1>8 DEF Ahead, rest

LEMMA AppendLineStep ==
  ASSUME IInv, NEW size \in Sizes, AppendLine(size)
  PROVE  IInv' /\ count' = count + 1 /\ base_seq' >= base_seq
  <1> DEFINE all == lines \o << Line(appended, size) >>
             k == Evicted(all)
  <1>1. lines \in Lines /\ base_seq \in Nat /\ appended \in Nat /\ count = appended
        /\ Len(lines) \in Nat
    BY DEF IInv, TypesOK, WindowTrue, Lines
  <1>2. Line(appended, size) \in [no : Nat, size : Sizes] /\ Line(appended, size).no = appended
    BY <1>1 DEF Line
  <1>3. all \in Lines /\ Len(all) = Len(lines) + 1
        /\ all[Len(lines) + 1] = Line(appended, size)
        /\ \A i \in 1 .. Len(lines) : all[i] = lines[i]
    BY <1>1, <1>2 DEF Lines
  <1>4. lines' = Without(all, k) /\ base_seq' = base_seq + k /\ appended' = appended + 1
        /\ UNCHANGED <<epoch, conn, cursor, view>>
    BY DEF AppendLine, Advance
  <1> HIDE DEF all
  <1>5. k \in 0 .. Len(all)
    BY <1>3, EvictedInRange
  <1> HIDE DEF k
  <1>6. lines' \in Lines /\ Len(lines') = Len(all) - k
        /\ \A i \in 1 .. Len(all) - k : lines'[i] = all[k + i]
    BY <1>3, <1>4, <1>5, WithoutFacts
  <1>7. count' = count + 1 /\ base_seq' >= base_seq /\ base_seq' \in Nat
    BY <1>1, <1>3, <1>4, <1>5, <1>6 DEF count
  <1>8. \A i \in 1 .. Len(all) : all[i].no = base_seq + i - 1
    <2>1. \A i \in 1 .. Len(lines) : all[i].no = base_seq + i - 1
      BY <1>3 DEF IInv, WindowTrue
    <2>2. all[Len(lines) + 1].no = base_seq + Len(lines)
      BY <1>1, <1>2, <1>3 DEF count
    <2>3. \A i \in 1 .. Len(all) : i \in 1 .. Len(lines) \/ i = Len(lines) + 1
      BY <1>1, <1>3
    <2>4. base_seq + (Len(lines) + 1) - 1 = base_seq + Len(lines)
      BY <1>1
    <2> QED  BY <2>1, <2>2, <2>3, <2>4
  <1>9. WindowTrue'
    BY <1>1, <1>3, <1>4, <1>5, <1>6, <1>7, <1>8 DEF WindowTrue
  <1>10. TypesOK'
    BY <1>4, <1>6, <1>7 DEF IInv, TypesOK
  <1>11. ASSUME NEW r \in Browsers
         PROVE  BrowserTrue(r)'
    <2>1. BrowserTrue(r) /\ conn[r] \in ConnType /\ cursor[r].next \in Nat
      BY DEF IInv, TypesOK, Readers
    <2>2. \A n \in Nat : Follows(r, n) => Follows(r, n)'
      BY <1>1, <1>4, <1>7 DEF Follows
    <2>3. conn[r].since \in Nat /\ conn[r].batch \in Lines
      BY <2>1 DEF ConnType
    <2>4. CursorTrue(r)'
      BY <1>4, <2>1, <2>2 DEF BrowserTrue, CursorTrue
    <2>5. WaitingTrue(r)'
      BY <1>1, <1>4, <1>7, <2>1, <2>2, <2>3 DEF BrowserTrue, WaitingTrue
    <2>6. SendingTrue(r)'
      <3>1. Len(conn[r].batch) \in Nat
        BY <2>3 DEF Lines
      <3> QED  BY <1>1, <1>4, <1>7, <2>1, <2>3, <3>1 DEF BrowserTrue, SendingTrue
    <2> QED  BY <2>4, <2>5, <2>6 DEF BrowserTrue
  <1> QED  BY <1>7, <1>9, <1>10, <1>11 DEF IInv

-----------------------------------------------------------------------------
(* One reader moves, the others stay                                         *)

\* A step of reader r on a journal that does not change.
ReaderStep(r) ==
    /\ UNCHANGED <<epoch, lines, base_seq, appended>>
    /\ conn' \in [Readers -> ConnType]
    /\ cursor' \in [Readers -> [epoch : Nat, next : Nat]]
    /\ view' \in [Readers -> [log : Nat, from : Nat, next : Nat]]
    /\ \A q \in Readers : q # r =>
          conn'[q] = conn[q] /\ cursor'[q] = cursor[q] /\ view'[q] = view[q]
    /\ conn'[r].pc = "sending" => conn'[r].batch # << >>

LEMMA ReaderFrame ==
  ASSUME IInv, NEW r \in Readers, ReaderStep(r), r \in Browsers => BrowserTrue(r)'
  PROVE  IInv'
  <1>1. count' = count
    BY DEF ReaderStep, count
  <1>2. TypesOK' /\ WindowTrue'
    BY <1>1 DEF IInv, TypesOK, WindowTrue, ReaderStep
  <1>3. ASSUME NEW q \in Browsers, q # r
        PROVE  BrowserTrue(q)'
    <2>1. /\ conn'[q] = conn[q] /\ cursor'[q] = cursor[q] /\ view'[q] = view[q]
          /\ epoch' = epoch /\ base_seq' = base_seq
      BY <1>3 DEF ReaderStep, Readers
    <2>2. CursorTrue(q) /\ WaitingTrue(q) /\ SendingTrue(q)
      BY DEF IInv, BrowserTrue
    <2>3. CursorTrue(q)'
      BY <2>1, <2>2 DEF CursorTrue, Follows
    <2>4. WaitingTrue(q)'
      BY <1>1, <2>1, <2>2 DEF WaitingTrue, Follows
    <2>5. SendingTrue(q)'
      BY <1>1, <2>1, <2>2 DEF SendingTrue
    <2> QED  BY <2>3, <2>4, <2>5 DEF BrowserTrue
  <1> QED  BY <1>2, <1>3 DEF IInv

\* What the abstract log says of a step of a browser.
LEMMA StartsOver ==
  ASSUME IInv, NEW r \in Browsers, ReaderStep(r), NEW at \in 0 .. count,
         view' = [view EXCEPT ![r] = Holds(epoch, at, at)]
  PROVE  EL!StartOver(r)
  <1> DEFINE h == Holds(epoch, at, at)
  <1>1. r \in Readers /\ Browsers \subseteq Readers /\ view \in [Readers -> [log : Nat, from : Nat, next : Nat]]
    BY DEF IInv, TypesOK, Readers
  <1>2. h = EL!Holds(epoch, at, at)
    BY DEF EL!Holds, Holds
  <1> HIDE DEF h
  <1>3. [b \in Browsers |-> view'[b]] = [[b \in Browsers |-> view[b]] EXCEPT ![r] = h]
    BY <1>1 DEF h
  <1>4. UNCHANGED [no |-> epoch, length |-> count]
    BY DEF ReaderStep, count
  <1>5. [no |-> epoch, length |-> count].length = count /\ [no |-> epoch, length |-> count].no = epoch
    OBVIOUS
  <1> QED  BY <1>2, <1>3, <1>4, <1>5 DEF EL!StartOver

LEMMA Stutters ==
  ASSUME UNCHANGED <<epoch, count>>, \A q \in Browsers : view'[q] = view[q]
  PROVE  UNCHANGED EL!lvars
  BY DEF EL!lvars

LEMMA AttachedStutters ==
  ASSUME IInv, NEW r \in Attached, ReaderStep(r)
  PROVE  UNCHANGED EL!lvars
  BY Stutters DEF ReaderStep, count, Readers

LEMMA ConnSet ==
  ASSUME IInv, NEW r \in Readers, NEW c \in ConnType, conn' = [conn EXCEPT ![r] = c]
  PROVE  /\ conn' \in [Readers -> ConnType] /\ conn'[r] = c
         /\ \A q \in Readers : q # r => conn'[q] = conn[q]
  BY DEF IInv, TypesOK

LEMMA ConnPc ==
  ASSUME IInv, NEW r \in Readers,
         NEW pc \in {"off", "restart", "read", "waiting", "sending", "idle", "ended"},
         conn' = [conn EXCEPT ![r].pc = pc]
  PROVE  /\ conn' \in [Readers -> ConnType] /\ conn'[r].pc = pc
         /\ conn'[r].since = conn[r].since
         /\ \A q \in Readers : q # r => conn'[q] = conn[q]
  <1>1. PICK c \in ConnType : c = conn[r]
    BY DEF IInv, TypesOK
  <1>2. /\ [c EXCEPT !.pc = pc] \in ConnType
        /\ [c EXCEPT !.pc = pc].pc = pc /\ [c EXCEPT !.pc = pc].since = c.since
    BY DEF ConnType
  <1>3. conn' = [conn EXCEPT ![r] = [c EXCEPT !.pc = pc]]
    BY <1>1
  <1> QED  BY <1>1, <1>2, <1>3, ConnSet

LEMMA NoBatch == << >> \in Lines
  BY DEF Lines

\* A reader's fields, one by one.
LEMMA ReaderTyped ==
  ASSUME IInv, NEW r \in Readers
  PROVE  /\ conn[r].since \in Nat /\ conn[r].batch \in Lines
         /\ cursor[r].epoch \in Nat /\ cursor[r].next \in Nat
         /\ view[r].log \in Nat /\ view[r].next \in Nat
         /\ epoch \in Nat \ {0} /\ base_seq \in Nat /\ count \in Nat /\ base_seq <= count
         /\ lines \in Lines /\ Len(lines) \in Nat
  <1>1. lines \in Lines /\ Len(lines) \in Nat
    BY DEF IInv, TypesOK, Lines
  <1> QED  BY <1>1 DEF IInv, TypesOK, ConnType, count

Implements == EL!LNext \/ UNCHANGED EL!lvars

LEMMA SnapshotStep ==
  ASSUME IInv, NEW r \in Readers, Snapshot(r)
  PROVE  IInv' /\ Implements
  <1>1. /\ UNCHANGED <<journalVars, conn>> /\ conn[r].pc = "off"
        /\ cursor' = [cursor EXCEPT ![r] = [epoch |-> epoch, next |-> count]]
        /\ view' = [view EXCEPT ![r] = Holds(epoch, count, count)]
    BY DEF Snapshot
  <1>2. ReaderStep(r) /\ cursor'[r] = [epoch |-> epoch, next |-> count]
        /\ view'[r] = Holds(epoch, count, count)
    BY <1>1, ReaderTyped DEF ReaderStep, Holds, IInv, TypesOK, journalVars
  <1>3. r \in Browsers => BrowserTrue(r)'
    BY <1>1, <1>2, ReaderTyped
       DEF BrowserTrue, CursorTrue, WaitingTrue, SendingTrue, Follows, Holds, journalVars
  <1>4. r \in Browsers => EL!StartOver(r)
    <2>1. count \in 0 .. count
      BY ReaderTyped
    <2> QED  BY <1>1, <1>2, <2>1, StartsOver
  <1> QED
    BY <1>2, <1>3, <1>4, ReaderFrame, AttachedStutters DEF Implements, EL!LNext, Readers

LEMMA DropStep ==
  ASSUME IInv, NEW r \in Readers, Drop(r)
  PROVE  IInv' /\ Implements
  <1>1. conn' = [conn EXCEPT ![r] = Off] /\ UNCHANGED <<journalVars, cursor, view>>
    BY DEF Drop
  <1>2. Off \in ConnType /\ Off.pc = "off"
    BY NoBatch DEF Off, Conn, ConnType
  <1>3. ReaderStep(r) /\ conn'[r].pc = "off"
    BY <1>1, <1>2, ConnSet DEF ReaderStep, IInv, TypesOK, journalVars
  <1>4. r \in Browsers => BrowserTrue(r)'
    BY <1>1, <1>3 DEF IInv, BrowserTrue, CursorTrue, WaitingTrue, SendingTrue, Follows,
                      journalVars
  <1>5. UNCHANGED EL!lvars
    BY <1>1, Stutters DEF journalVars, count
  <1> QED  BY <1>3, <1>4, <1>5, ReaderFrame DEF Implements

LEMMA ConnectStep ==
  ASSUME IInv, NEW r \in Readers, Connect(r)
  PROVE  IInv' /\ Implements
  <1>1. PICK named \in {cursor[r].epoch, 0} :
          /\ conn' = [conn EXCEPT ![r] = Conn(PlanResume(named, cursor[r].next),
                                              cursor[r].next, << >>)]
          /\ view' = IF named = 0 /\ cursor[r].next = 0
                     THEN [view EXCEPT ![r] = Holds(epoch, 0, 0)] ELSE view
    BY DEF Connect
  <1>2. r \in Browsers /\ UNCHANGED <<journalVars, cursor>>
    BY DEF Connect
  <1> DEFINE next == cursor[r].next
             c == Conn(PlanResume(named, next), next, << >>)
  <1>3. c \in ConnType /\ c.pc \in {"read", "restart"} /\ c.since = next
        /\ (c.pc = "read" => (named = 0 \/ named = epoch) /\ (named = 0 => next = 0)
                             /\ next <= count)
    <2>1. PlanResume(named, next) \in {"read", "restart"}
      BY DEF PlanResume
    <2>2. PlanResume(named, next) = "read" =>
            (named = 0 \/ named = epoch) /\ (named = 0 => next = 0) /\ next <= count
      BY <1>1, ReaderTyped DEF PlanResume, RestartReason
    <2> QED  BY <2>1, <2>2, ReaderTyped, NoBatch DEF Conn, ConnType
  <1> HIDE DEF c
  <1>4. conn' \in [Readers -> ConnType] /\ conn'[r] = c
        /\ \A q \in Readers : q # r => conn'[q] = conn[q]
    BY <1>1, <1>3, ConnSet DEF c
  <1>5. CASE named = 0 /\ next = 0
    <2>1. view' = [view EXCEPT ![r] = Holds(epoch, 0, 0)]
      BY <1>1, <1>5
    <2>2. ReaderStep(r) /\ view'[r] = Holds(epoch, 0, 0)
      BY <1>2, <1>3, <1>4, <2>1, ReaderTyped DEF ReaderStep, Holds, IInv, TypesOK, journalVars
    <2>3. BrowserTrue(r)'
      <3>1. CursorTrue(r) /\ epoch' = epoch /\ base_seq' = base_seq /\ cursor' = cursor
        BY <1>2 DEF IInv, BrowserTrue, journalVars
      <3>2. view'[r].log = epoch /\ view'[r].next = 0
        BY <2>2 DEF Holds
      <3>3. CursorTrue(r)'
        BY <1>5, <3>1, <3>2 DEF CursorTrue, Follows
      <3>4. WaitingTrue(r)'
        BY <1>3, <1>4, <1>5, <3>1, <3>2, ReaderTyped
           DEF WaitingTrue, Follows, ReaderStep, count
      <3>5. SendingTrue(r)'
        BY <1>3, <1>4 DEF SendingTrue
      <3> QED  BY <3>3, <3>4, <3>5 DEF BrowserTrue
    <2>4. EL!StartOver(r)
      <3>1. 0 \in 0 .. count
        BY ReaderTyped
      <3> QED  BY <1>2, <2>1, <2>2, <3>1, StartsOver
    <2> QED  BY <1>2, <2>2, <2>3, <2>4, ReaderFrame DEF Implements, EL!LNext
  <1>6. CASE ~(named = 0 /\ next = 0)
    <2>1. view' = view
      BY <1>1, <1>6
    <2>2. ReaderStep(r)
      BY <1>2, <1>3, <1>4, <2>1 DEF ReaderStep, IInv, TypesOK, journalVars
    <2>3. c.pc = "read" => cursor[r].epoch = epoch
      BY <1>1, <1>3, <1>6
    <2>4. BrowserTrue(r)'
      <3>1. CursorTrue(r) /\ count' = count /\ epoch' = epoch /\ base_seq' = base_seq
        BY <1>2 DEF IInv, BrowserTrue, count, journalVars
      <3>2. CursorTrue(r)'
        BY <1>2, <2>1, <3>1 DEF CursorTrue, Follows
      <3>3. WaitingTrue(r)'
        BY <1>2, <1>3, <1>4, <2>1, <2>3, <3>1 DEF CursorTrue, WaitingTrue, Follows
      <3>4. SendingTrue(r)'
        BY <1>3, <1>4 DEF SendingTrue
      <3> QED  BY <3>2, <3>3, <3>4 DEF BrowserTrue
    <2>5. UNCHANGED EL!lvars
      BY <1>2, <2>1, Stutters DEF journalVars, count
    <2> QED  BY <2>2, <2>4, <2>5, ReaderFrame DEF Implements
  <1> QED  BY <1>5, <1>6

LEMMA AttachStep ==
  ASSUME IInv, NEW r \in Readers, Attach(r)
  PROVE  IInv' /\ Implements
  <1>1. /\ r \in Attached /\ r \notin Browsers /\ UNCHANGED <<journalVars, cursor>>
        /\ conn' = [conn EXCEPT ![r] = Conn("read", cursor[r].next, << >>)]
        /\ view' = IF cursor[r].next = 0 THEN [view EXCEPT ![r] = Holds(epoch, 0, 0)] ELSE view
    BY DEF Attach
  <1> DEFINE c == Conn("read", cursor[r].next, << >>)
  <1>2. c \in ConnType /\ c.pc = "read"
    BY ReaderTyped, NoBatch DEF Conn, ConnType
  <1>3. conn' \in [Readers -> ConnType] /\ conn'[r].pc = "read"
        /\ \A q \in Readers : q # r => conn'[q] = conn[q]
    BY <1>1, <1>2, ConnSet
  <1>4. view' \in [Readers -> [log : Nat, from : Nat, next : Nat]]
        /\ \A q \in Readers : q # r => view'[q] = view[q]
    BY <1>1, ReaderTyped DEF Holds, IInv, TypesOK
  <1>5. ReaderStep(r)
    BY <1>1, <1>3, <1>4 DEF ReaderStep, IInv, TypesOK, journalVars
  <1> QED  BY <1>1, <1>5, ReaderFrame, AttachedStutters DEF Implements

-----------------------------------------------------------------------------
(* A connection thread                                                       *)

LEMMA SendsRestartStep ==
  ASSUME IInv, NEW r \in Readers, SendsRestart(r)
  PROVE  IInv' /\ Implements
  <1> DEFINE c == Conn("read", base_seq, << >>)
  <1>1. /\ conn' = [conn EXCEPT ![r] = c] /\ UNCHANGED journalVars
        /\ view' = [view EXCEPT ![r] = Holds(epoch, base_seq, base_seq)]
        /\ cursor' = [cursor EXCEPT ![r] = [epoch |-> epoch, next |-> base_seq]]
    BY DEF SendsRestart, Resync
  <1>2. c \in ConnType /\ c.pc = "read" /\ c.since = base_seq
    BY ReaderTyped, NoBatch DEF Conn, ConnType
  <1> HIDE DEF c
  <1>3. conn' \in [Readers -> ConnType] /\ conn'[r] = c
        /\ \A q \in Readers : q # r => conn'[q] = conn[q]
    BY <1>1, <1>2, ConnSet
  <1>4. ReaderStep(r) /\ cursor'[r] = [epoch |-> epoch, next |-> base_seq]
        /\ view'[r] = Holds(epoch, base_seq, base_seq)
    BY <1>1, <1>2, <1>3, ReaderTyped DEF ReaderStep, Holds, IInv, TypesOK, journalVars
  <1>5. BrowserTrue(r)'
    BY <1>1, <1>2, <1>3, <1>4, ReaderTyped
       DEF BrowserTrue, CursorTrue, WaitingTrue, SendingTrue, Follows, Holds, journalVars, count
  <1>6. r \in Browsers => EL!StartOver(r)
    <2>1. base_seq \in 0 .. count
      BY ReaderTyped
    <2> QED  BY <1>1, <1>4, <2>1, StartsOver
  <1> QED
    BY <1>4, <1>5, <1>6, ReaderFrame, AttachedStutters DEF Implements, EL!LNext, Readers

\* A wait begins, ends with nothing, or is over.
LEMMA WaitStep ==
  ASSUME IInv, NEW r \in Readers, Waits(r) \/ Nothing(r) \/ Idle(r)
  PROVE  IInv' /\ Implements
  <1>1. UNCHANGED <<journalVars, cursor, view>> /\ conn[r].pc \in {"read", "waiting", "idle"}
    BY DEF Waits, Nothing, Idle
  <1>2. /\ conn' \in [Readers -> ConnType] /\ conn'[r].since = conn[r].since
        /\ conn'[r].pc \in {"read", "waiting", "idle", "ended"}
        /\ \A q \in Readers : q # r => conn'[q] = conn[q]
    <2>1. CASE Waits(r)
      BY <2>1, ConnPc DEF Waits
    <2>2. CASE Nothing(r)
      <3> DEFINE c == Conn("idle", conn[r].since, << >>)
      <3>1. conn' = [conn EXCEPT ![r] = c]
        BY <2>2 DEF Nothing
      <3>2. c \in ConnType /\ c.pc = "idle" /\ c.since = conn[r].since
        BY ReaderTyped, NoBatch DEF Conn, ConnType
      <3> QED  BY <3>1, <3>2, ConnSet
    <2>3. CASE Idle(r)
      <3>1. AfterIdle \in {"ended", "read"} /\ conn' = [conn EXCEPT ![r].pc = AfterIdle]
        BY <2>3 DEF Idle, AfterIdle
      <3> HIDE DEF AfterIdle
      <3> QED  BY <3>1, ConnPc
    <2> QED  BY <2>1, <2>2, <2>3
  <1>3. ReaderStep(r)
    BY <1>1, <1>2 DEF ReaderStep, IInv, TypesOK, journalVars
  <1>4. r \in Browsers => BrowserTrue(r)'
    BY <1>1, <1>2 DEF IInv, BrowserTrue, CursorTrue, WaitingTrue, SendingTrue, Follows,
                      journalVars, count
  <1>5. UNCHANGED EL!lvars
    BY <1>1, Stutters DEF journalVars, count
  <1> QED  BY <1>3, <1>4, <1>5, ReaderFrame DEF Implements

LEMMA BatchStep ==
  ASSUME IInv, NEW r \in Readers, Batch(r)
  PROVE  IInv' /\ Implements
  <1> DEFINE eff == EffectiveStart(r)
             b   == Without(lines, eff - base_seq)
             c   == Conn("sending", IF r \in Browsers THEN eff ELSE conn[r].since, b)
  <1>1. /\ conn[r].pc \in {"read", "waiting"} /\ count > eff
        /\ UNCHANGED <<journalVars, cursor>>
        /\ IF r \in Browsers /\ eff > conn[r].since
           THEN view' = [view EXCEPT ![r] = Holds(epoch, eff, eff)] ELSE view' = view
    BY DEF Batch, Resync
  <1>2. conn' = [conn EXCEPT ![r] = c]
    BY DEF Batch, Without, Conn
  <1>3. eff \in Nat /\ eff >= base_seq /\ eff >= conn[r].since
        /\ (eff > conn[r].since => eff = base_seq)
    BY ReaderTyped DEF EffectiveStart
  <1>4. /\ b \in Lines /\ Len(b) = count - eff
        /\ \A i \in 1 .. Len(b) : b[i].no = eff + i - 1
    <2>1. eff - base_seq \in 0 .. Len(lines)
      BY <1>1, <1>3, ReaderTyped DEF count
    <2>2. b \in Lines /\ Len(b) = Len(lines) - (eff - base_seq)
          /\ \A i \in 1 .. Len(b) : b[i] = lines[eff - base_seq + i]
      BY <2>1, ReaderTyped, WithoutFacts
    <2>3. \A i \in 1 .. Len(b) : eff - base_seq + i \in 1 .. Len(lines)
      BY <2>1, <2>2, ReaderTyped, <1>3
    <2>4. \A i \in 1 .. Len(lines) : lines[i].no = base_seq + i - 1
      BY DEF IInv, WindowTrue
    <2> HIDE DEF b, eff
    <2>5. ASSUME NEW i \in 1 .. Len(b)
          PROVE  b[i].no = eff + i - 1
      <3>1. b[i] = lines[eff - base_seq + i] /\ eff - base_seq + i \in 1 .. Len(lines)
        BY <2>2, <2>3
      <3>2. b[i].no = base_seq + (eff - base_seq + i) - 1
        BY <2>4, <3>1
      <3> QED  BY <3>2, <1>3, <2>2, ReaderTyped
    <2> QED  BY <2>2, <2>5, <1>3, ReaderTyped DEF count
  <1>5. c \in ConnType /\ c.pc = "sending" /\ c.batch = b
        /\ (r \in Browsers => c.since = eff)
    BY <1>3, <1>4, ReaderTyped DEF Conn, ConnType
  <1>6. b # << >> /\ Len(b) > 0
    BY <1>1, <1>3, <1>4, ReaderTyped
  <1> HIDE DEF c, b, eff
  <1>7. conn' \in [Readers -> ConnType] /\ conn'[r] = c
        /\ \A q \in Readers : q # r => conn'[q] = conn[q]
    BY <1>2, <1>5, ConnSet
  <1>8. view' \in [Readers -> [log : Nat, from : Nat, next : Nat]]
        /\ \A q \in Readers : q # r => view'[q] = view[q]
    <2>1. CASE r \in Browsers /\ eff > conn[r].since
      <3>1. view' = [view EXCEPT ![r] = Holds(epoch, eff, eff)]
        BY <1>1, <2>1
      <3> QED  BY <1>3, <3>1, ReaderTyped DEF Holds, IInv, TypesOK
    <2>2. CASE ~(r \in Browsers /\ eff > conn[r].since)
      BY <1>1, <2>2 DEF IInv, TypesOK
    <2> QED  BY <2>1, <2>2
  <1>9. ReaderStep(r)
    BY <1>1, <1>5, <1>6, <1>7, <1>8 DEF ReaderStep, IInv, TypesOK, journalVars
  <1>10. r \in Attached => IInv' /\ Implements
    BY <1>9, ReaderFrame, AttachedStutters DEF Implements, Readers
  <1>11. CASE r \in Browsers
    <2>1. /\ CursorTrue(r) /\ Follows(r, conn[r].since) /\ count' = count
          /\ cursor[r].epoch = epoch => cursor[r].next = conn[r].since
          /\ UNCHANGED <<epoch, base_seq, cursor>>
      BY <1>1, <1>11 DEF IInv, BrowserTrue, WaitingTrue, journalVars, count
    <2>2. view'[r].log = epoch /\ view'[r].next = eff
      <3>1. CASE eff > conn[r].since
        <4>1. view' = [view EXCEPT ![r] = Holds(epoch, eff, eff)]
          BY <1>1, <1>11, <3>1
        <4> QED  BY <4>1 DEF Holds, IInv, TypesOK
      <3>2. CASE ~(eff > conn[r].since)
        <4>1. view' = view /\ eff = conn[r].since
          BY <1>1, <1>3, <3>2, ReaderTyped
        <4> QED  BY <2>1, <4>1, <1>3, ReaderTyped DEF Follows
      <3> QED  BY <3>1, <3>2
    <2>3. CursorTrue(r)'
      BY <1>3, <2>1, <2>2, ReaderTyped DEF CursorTrue, Follows
    <2>4. SendingTrue(r)'
      <3>1. conn'[r].batch = b /\ conn'[r].since = eff /\ epoch' = epoch
        BY <1>5, <1>7, <1>11, <2>1
      <3>2. eff + Len(b) <= count'
        BY <1>3, <1>4, <2>1, ReaderTyped
      <3> QED  BY <1>4, <1>6, <2>2, <3>1, <3>2 DEF SendingTrue
    <2>5. BrowserTrue(r)'
      BY <1>5, <1>7, <2>3, <2>4 DEF BrowserTrue, WaitingTrue
    <2>6. EL!StartOver(r) \/ UNCHANGED EL!lvars
      <3>1. CASE eff > conn[r].since
        <4>1. eff \in 0 .. count /\ view' = [view EXCEPT ![r] = Holds(epoch, eff, eff)]
          BY <1>1, <1>3, <1>11, <3>1, ReaderTyped
        <4> QED  BY <1>9, <1>11, <4>1, StartsOver
      <3>2. CASE ~(eff > conn[r].since)
        BY <1>1, <2>1, <3>2, Stutters
      <3> QED  BY <3>1, <3>2
    <2> QED  BY <1>9, <1>11, <2>5, <2>6, ReaderFrame DEF Implements, EL!LNext
  <1> QED  BY <1>10, <1>11 DEF Readers

LEMMA FrameStep ==
  ASSUME IInv, NEW r \in Readers, Frame(r)
  PROVE  IInv' /\ Implements
  <1> DEFINE b == conn[r].batch
             since == conn[r].since
             c == Conn(IF Len(b) = 1 THEN "read" ELSE "sending", since + 1, Tail(b))
  <1>1. /\ conn[r].pc = "sending" /\ UNCHANGED journalVars
        /\ conn' = [conn EXCEPT ![r] = c]
        /\ cursor' = [cursor EXCEPT ![r] = [epoch |-> epoch, next |-> since + 1]]
        /\ view' = [view EXCEPT ![r].next = Head(b).no + 1]
    BY DEF Frame, NextSince
  <1>2. b \in Lines /\ b # << >> /\ since \in Nat
    BY <1>1, ReaderTyped DEF IInv, TypesOK
  <1>3. /\ Len(b) \in Nat /\ Len(b) > 0 /\ Head(b) = b[1] /\ Head(b).no \in Nat
        /\ Tail(b) \in Lines /\ Len(Tail(b)) = Len(b) - 1
        /\ \A i \in 1 .. Len(Tail(b)) : Tail(b)[i] = b[i + 1]
    <2> DEFINE S == [no : Nat, size : Sizes]
    <2>1. b \in Seq(S)
      BY <1>2 DEF Lines
    <2>2. \A s \in S : s.no \in Nat
      OBVIOUS
    <2> HIDE DEF S
    <2>3. Len(b) \in Nat /\ Len(b) > 0 /\ Head(b) = b[1] /\ Head(b) \in S
      BY <1>2, <2>1
    <2>4. Tail(b) \in Seq(S) /\ Len(Tail(b)) = Len(b) - 1
          /\ \A i \in 1 .. Len(Tail(b)) : Tail(b)[i] = b[i + 1]
      BY <1>2, <2>1
    <2> QED  BY <2>2, <2>3, <2>4 DEF Lines, S
  <1>4. /\ c \in ConnType /\ c.pc \in {"read", "sending"} /\ c.since = since + 1
        /\ c.batch = Tail(b) /\ (c.pc = "sending" <=> Len(b) # 1)
    BY <1>2, <1>3 DEF Conn, ConnType
  <1> HIDE DEF c
  <1>5. conn' \in [Readers -> ConnType] /\ conn'[r] = c
        /\ \A q \in Readers : q # r => conn'[q] = conn[q]
    BY <1>1, <1>4, ConnSet
  <1>6. /\ view' \in [Readers -> [log : Nat, from : Nat, next : Nat]]
        /\ view'[r].log = view[r].log /\ view'[r].next = Head(b).no + 1
        /\ \A q \in Readers : q # r => view'[q] = view[q]
    <2>1. view[r] \in [log : Nat, from : Nat, next : Nat] /\ Head(b).no + 1 \in Nat
      BY <1>3 DEF IInv, TypesOK
    <2>2. view \in [Readers -> [log : Nat, from : Nat, next : Nat]]
      BY DEF IInv, TypesOK
    <2> DEFINE n == Head(b).no + 1
               v == [view[r] EXCEPT !.next = n]
    <2>3. view' = [view EXCEPT ![r] = v]
      BY <1>1
    <2> HIDE DEF n
    <2>4. v \in [log : Nat, from : Nat, next : Nat] /\ v.log = view[r].log /\ v.next = n
      BY <2>1 DEF n
    <2> HIDE DEF v
    <2> QED  BY <2>2, <2>3, <2>4 DEF n
  <1>7. /\ cursor' \in [Readers -> [epoch : Nat, next : Nat]]
        /\ cursor'[r] = [epoch |-> epoch, next |-> since + 1]
        /\ \A q \in Readers : q # r => cursor'[q] = cursor[q]
    <2>1. epoch \in Nat /\ since + 1 \in Nat
      BY <1>2, ReaderTyped
    <2>2. cursor \in [Readers -> [epoch : Nat, next : Nat]]
      BY DEF IInv, TypesOK
    <2> HIDE DEF since
    <2> QED  BY <1>1, <2>1, <2>2
  <1>8. ReaderStep(r)
    <2>1. c.pc = "sending" => c.batch # << >>
      <3>1. Len(<< >>) = 0
        OBVIOUS
      <3>2. Len(b) # 1 => Len(Tail(b)) # 0
        BY <1>3
      <3> HIDE DEF b
      <3> QED  BY <1>4, <3>1, <3>2
    <2> QED  BY <1>1, <1>5, <1>6, <1>7, <2>1 DEF ReaderStep, journalVars
  <1>9. r \in Attached => IInv' /\ Implements
    BY <1>8, ReaderFrame, AttachedStutters DEF Implements, Readers
  <1>10. CASE r \in Browsers
    <2>1. /\ \A i \in 1 .. Len(b) : b[i].no = since + i - 1
          /\ since + Len(b) <= count /\ view[r].log = epoch /\ view[r].next = since
      BY <1>1, <1>10 DEF IInv, BrowserTrue, SendingTrue
    <2>2. Head(b).no = since
      BY <1>2, <1>3, <2>1
    <2>3. view'[r].log = epoch /\ view'[r].next = since + 1 /\ count' = count
          /\ epoch' = epoch /\ base_seq' = base_seq
      BY <1>1, <1>6, <2>1, <2>2 DEF journalVars, count
    <2>4. CursorTrue(r)'
      <3>1. /\ cursor'[r].epoch = epoch' /\ cursor'[r].next = view'[r].next
            /\ view'[r].log = epoch'
        BY <1>7, <2>3
      <3>2. epoch' \in Nat \ {0}
        BY <2>3, ReaderTyped
      <3> QED  BY <3>1, <3>2 DEF CursorTrue, Follows
    <2>5. WaitingTrue(r)'
      <3>1. conn'[r].since = since + 1 /\ cursor'[r].next = since + 1
            /\ view'[r].next = since + 1 /\ view'[r].log = epoch'
        BY <1>4, <1>5, <1>7, <2>3
      <3>2. since + 1 <= count'
        BY <1>2, <1>3, <2>1, <2>3, ReaderTyped
      <3> QED  BY <3>1, <3>2 DEF WaitingTrue, Follows
    <2>6. SendingTrue(r)'
      <3>1. ASSUME NEW i \in 1 .. Len(Tail(b))
            PROVE  Tail(b)[i].no = (since + 1) + i - 1
        <4>1. Tail(b)[i] = b[i + 1] /\ i + 1 \in 1 .. Len(b)
          BY <1>3
        <4>2. b[i + 1].no = since + (i + 1) - 1
          BY <2>1, <4>1
        <4> HIDE DEF b, since
        <4> QED  BY <4>1, <4>2, <1>2
      <3> QED
        <4> DEFINE t == Tail(b)
        <4> HIDE DEF b, since, t
        <4>1. conn'[r].batch = t /\ conn'[r].since = since + 1
              /\ (conn'[r].pc = "sending" => Len(b) # 1)
          BY <1>4, <1>5 DEF t
        <4>2. Len(b) # 1 => Len(t) > 0
          <5>1. Len(b) \in Nat /\ Len(b) > 0 /\ Len(t) = Len(b) - 1
            BY <1>3 DEF t
          <5> QED  BY <5>1
        <4>3. since + 1 + Len(t) <= count'
          BY <1>2, <1>3, <2>1, <2>3, ReaderTyped DEF t
        <4>4. \A i \in 1 .. Len(t) : t[i].no = (since + 1) + i - 1
          BY <3>1 DEF t
        <4> QED  BY <2>3, <4>1, <4>2, <4>3, <4>4 DEF SendingTrue
    <2>7. EL!Deliver(r)
      <3>1. view[r].next < count
        BY <1>2, <1>3, <2>1, ReaderTyped
      <3>2. view' = [view EXCEPT ![r].next = @ + 1]
        BY <1>1, <2>1, <2>2
      <3> QED  BY <1>1, <1>10, <2>1, <2>3, <3>1, <3>2
                DEF EL!Deliver, IInv, TypesOK, Readers
    <2> QED  BY <1>8, <1>10, <2>4, <2>5, <2>6, <2>7, ReaderFrame
              DEF BrowserTrue, Implements, EL!LNext
  <1> QED  BY <1>9, <1>10 DEF Readers
-----------------------------------------------------------------------------
(* The journal moves                                                         *)

\* After a restart every position is one of an earlier journal.
LEMMA RestartStep ==
  ASSUME IInv, Restart
  PROVE  IInv' /\ Implements
  <1>1. /\ epoch' = epoch + 1 /\ lines' = << >> /\ base_seq' = 0 /\ appended' = 0
        /\ conn' = [r \in Readers |-> Off] /\ UNCHANGED <<cursor, view>>
    BY DEF Restart
  <1>2. epoch \in Nat \ {0} /\ epoch' \in Nat \ {0}
    BY <1>1 DEF IInv, TypesOK
  <1>3. Off \in ConnType /\ Off.pc = "off"
    BY NoBatch DEF Off, Conn, ConnType
  <1>4. Len(lines') = 0 /\ count' = 0
    BY <1>1 DEF count
  <1>5. TypesOK'
    BY <1>1, <1>2, <1>3, NoBatch DEF IInv, TypesOK
  <1>6. WindowTrue'
    BY <1>1, <1>4 DEF WindowTrue
  <1>7. ASSUME NEW r \in Browsers
        PROVE  BrowserTrue(r)'
    <2>1. conn'[r].pc = "off"
      BY <1>1, <1>3 DEF Readers
    <2>2. cursor'[r].epoch < epoch' /\ (cursor[r].epoch = 0 => cursor[r].next = 0)
          /\ cursor[r].epoch \in Nat
      BY <1>1, <1>2, ReaderTyped DEF IInv, BrowserTrue, CursorTrue, Readers
    <2>3. CursorTrue(r)'
      BY <1>1, <1>2, <2>2 DEF CursorTrue
    <2> QED  BY <2>1, <2>3 DEF BrowserTrue, WaitingTrue, SendingTrue
  <1>8. EL!Replace
    BY <1>1, <1>4 DEF EL!Replace
  <1> QED  BY <1>5, <1>6, <1>7, <1>8 DEF IInv, Implements, EL!LNext

\* No property of a reader depends on `closed` or on the byte count.
LEMMA QuietStep ==
  ASSUME IInv, UNCHANGED <<epoch, lines, base_seq, appended, conn, cursor, view>>
  PROVE  IInv' /\ Implements
  <1>1. count' = count
    BY DEF count
  <1>2. TypesOK' /\ WindowTrue'
    BY <1>1 DEF IInv, TypesOK, WindowTrue
  <1>3. \A r \in Browsers : BrowserTrue(r)'
    BY <1>1 DEF IInv, BrowserTrue, CursorTrue, WaitingTrue, SendingTrue, Follows
  <1>4. UNCHANGED EL!lvars
    BY <1>1, Stutters
  <1> QED  BY <1>2, <1>3, <1>4 DEF IInv, Implements

LEMMA NextStep ==
  ASSUME IInv, [Next]_vars
  PROVE  IInv' /\ Implements
  <1>1. CASE \E size \in Sizes : AppendLine(size)
    <2>1. PICK size \in Sizes : AppendLine(size)
      BY <1>1
    <2>2. IInv' /\ count' = count + 1
      BY <2>1, AppendLineStep
    <2>3. EL!Grow
      BY <2>1, <2>2 DEF AppendLine, EL!Grow
    <2> QED  BY <2>2, <2>3 DEF Implements, EL!LNext
  <1>2. CASE Close
    BY <1>2, QuietStep DEF Close
  <1>3. CASE Restart
    BY <1>3, RestartStep
  <1>4. CASE \E r \in Readers : Snapshot(r) \/ Connect(r) \/ Attach(r) \/ Drop(r) \/ Serve(r)
    <2>1. PICK r \in Readers : Snapshot(r) \/ Connect(r) \/ Attach(r) \/ Drop(r) \/ Serve(r)
      BY <1>4
    <2>2. CASE Serve(r)
      BY <2>2, SendsRestartStep, WaitStep, BatchStep, FrameStep DEF Serve
    <2> QED  BY <2>1, <2>2, SnapshotStep, ConnectStep, AttachStep, DropStep
  <1>5. CASE Finished
    BY <1>5, QuietStep DEF Finished, vars, journalVars
  <1>6. CASE UNCHANGED vars
    BY <1>6, QuietStep DEF vars, journalVars
  <1> QED  BY <1>1, <1>2, <1>3, <1>4, <1>5, <1>6 DEF Next

LEMMA InitTrue == Init => IInv /\ EL!LInit
  <1> SUFFICES ASSUME Init PROVE IInv /\ EL!LInit
    OBVIOUS
  <1>1. /\ epoch = 1 /\ lines = << >> /\ base_seq = 0 /\ appended = 0
        /\ conn = [r \in Readers |-> Off]
        /\ cursor = [r \in Readers |-> [epoch |-> 0, next |-> 0]]
        /\ view = [r \in Readers |-> Holds(0, 0, 0)]
    BY DEF Init
  <1>2. Off \in ConnType /\ Off.pc = "off"
    BY NoBatch DEF Off, Conn, ConnType
  <1>3. Len(lines) = 0 /\ count = 0
    BY <1>1 DEF count
  <1>4. TypesOK
    BY <1>1, <1>2, NoBatch DEF TypesOK, Holds
  <1>5. WindowTrue
    BY <1>1, <1>3 DEF WindowTrue
  <1>6. \A r \in Browsers : BrowserTrue(r)
    BY <1>1, <1>2 DEF BrowserTrue, CursorTrue, WaitingTrue, SendingTrue, Readers
  <1>7. EL!LInit
    BY <1>1, <1>3 DEF EL!LInit, EL!Holds, Holds, Readers
  <1> QED  BY <1>4, <1>5, <1>6, <1>7 DEF IInv

-----------------------------------------------------------------------------
(* The byte count, through append, eviction and restart                      *)

BytesTrue == total_bytes = Bytes(lines) /\ Fits(lines)

Bounded == epoch \in 1 .. MaxEpoch /\ appended \in 0 .. MaxEvents /\ closed \in BOOLEAN

LEMMA AppendBytes ==
  ASSUME IInv, BytesTrue, NEW size \in Sizes, AppendLine(size)
  PROVE  BytesTrue'
  <1> DEFINE all == lines \o << Line(appended, size) >>
             k == Evicted(all)
  <1>1. lines \in Lines /\ appended \in Nat
    BY DEF IInv, TypesOK
  <1>2. /\ all \in Lines /\ Len(all) = Len(lines) + 1
        /\ all[Len(all)] = Line(appended, size)
        /\ \A i \in 1 .. Len(lines) : all[i] = lines[i]
    <2>1. Line(appended, size) \in [no : Nat, size : Sizes]
      BY <1>1 DEF Line
    <2>2. /\ all \in Lines /\ Len(all) = Len(lines) + 1
          /\ all[Len(lines) + 1] = Line(appended, size)
          /\ \A i \in 1 .. Len(lines) : all[i] = lines[i]
      BY <1>1, <2>1 DEF Lines
    <2> QED  BY <2>2
  <1>3. lines' = Without(all, k) /\ total_bytes' = total_bytes + size - Bytes(SubSeq(all, 1, k))
    BY DEF AppendLine, BytesAfter
  <1> HIDE DEF all, k
  <1>4. k \in 0 .. Len(all) /\ Fits(Without(all, k))
    BY <1>2, EvictedInRange DEF k
  <1>5. Bytes(all) = Bytes(lines) + size
    BY <1>1, <1>2, BytesOfMore DEF Line
  <1>6. /\ SubSeq(all, 1, k) \in Lines /\ Without(all, k) \in Lines
        /\ Bytes(all) = Bytes(SubSeq(all, 1, k)) + Bytes(Without(all, k))
    BY <1>2, <1>4, BytesSplit, WithoutFacts
  <1>7. Bytes(SubSeq(all, 1, k)) \in Nat /\ Bytes(Without(all, k)) \in Nat
        /\ Bytes(lines) \in Nat /\ size \in Nat
    BY <1>1, <1>6, BytesTyped
  <1>8. total_bytes' = Bytes(Without(all, k))
    BY <1>3, <1>5, <1>6, <1>7 DEF BytesTrue
  <1>9. Bytes(lines)' = Bytes(Without(all, k)) /\ Fits(lines)' = Fits(Without(all, k))
    BY <1>3
  <1> QED  BY <1>4, <1>8, <1>9 DEF BytesTrue

LEMMA NoLines == Fits(<< >>) /\ Bytes(<< >>) = 0
  BY BytesOfNone DEF Fits

LEMMA CountsInit == Init => BytesTrue /\ Bounded
  <1> SUFFICES ASSUME Init
               PROVE  BytesTrue /\ Bounded
    OBVIOUS
  <1>1. lines = << >> /\ total_bytes = 0 /\ epoch = 1 /\ appended = 0
    BY DEF Init
  <1>2. BytesTrue
    BY <1>1, NoLines DEF BytesTrue
  <1>3. epoch \in 1 .. MaxEpoch /\ appended \in 0 .. MaxEvents
    BY <1>1
  <1>4. closed \in BOOLEAN
    BY DEF Init
  <1> QED  BY <1>2, <1>3, <1>4 DEF Bounded

LEMMA CountsNext == IInv /\ BytesTrue /\ Bounded /\ [Next]_vars => (BytesTrue /\ Bounded)'
  <1> SUFFICES ASSUME IInv, BytesTrue, Bounded, [Next]_vars
               PROVE  (BytesTrue /\ Bounded)'
    OBVIOUS
  <1>1. ASSUME NEW size \in Sizes, AppendLine(size)
        PROVE  (BytesTrue /\ Bounded)'
    <2>1. Bounded'
      BY <1>1 DEF AppendLine, Bounded
    <2> QED  BY <1>1, <2>1, AppendBytes
  <1>2. ASSUME UNCHANGED <<epoch, lines, total_bytes, appended>>, closed' \in BOOLEAN
        PROVE  (BytesTrue /\ Bounded)'
    BY <1>2 DEF BytesTrue, Bounded
  <1>3. CASE Close
    BY <1>2, <1>3 DEF Close
  <1>4. CASE Restart
    <2>1. lines' = << >> /\ total_bytes' = 0
      BY <1>4 DEF Restart
    <2>2. BytesTrue'
      BY <2>1, NoLines DEF BytesTrue
    <2>3. epoch' \in 1 .. MaxEpoch /\ appended' \in 0 .. MaxEvents
      <3>1. epoch' = epoch + 1 /\ epoch < MaxEpoch /\ appended' = 0 /\ epoch \in 1 .. MaxEpoch
        BY <1>4 DEF Restart, Bounded
      <3> QED  BY <3>1
    <2>4. closed' \in BOOLEAN
      BY <1>4 DEF Restart
    <2> QED  BY <2>2, <2>3, <2>4 DEF Bounded
  <1>5. ASSUME NEW r \in Readers, Snapshot(r) \/ Connect(r) \/ Attach(r) \/ Drop(r) \/ Serve(r)
        PROVE  UNCHANGED journalVars
    BY <1>5 DEF Snapshot, Connect, Attach, Drop, Serve, SendsRestart, Waits, Batch, Nothing, Idle,
                Frame
  <1>6. CASE Finished \/ UNCHANGED vars
    BY <1>2, <1>6 DEF Finished, vars, journalVars, Bounded
  <1> QED  BY <1>1, <1>2, <1>3, <1>4, <1>5, <1>6 DEF Next, journalVars, Bounded

-----------------------------------------------------------------------------
(* What follows, in every behaviour                                          *)

\* The window holds the newest lines under their true numbers, and each
\* browser's position, cursor and view agree, through append and its eviction,
\* waitSinceFrom, planResume and the restarts of serveSse.
THEOREM Invariance == Spec => []IInv
  <1>1. Init => IInv
    BY InitTrue
  <1>2. IInv /\ [Next]_vars => IInv'
    BY NextStep
  <1> QED  BY <1>1, <1>2, PTL DEF Spec

\* A browser that follows the journal over reconnects, evictions and host
\* restarts holds one unbroken stretch of one journal: serveSse never skips a
\* line, repeats one or goes on in another journal without `resync`.
THEOREM JournalImplementsLog == Spec => ImplementsEventLog
  <1>1. Init => EL!LInit
    BY InitTrue
  <1>2. IInv /\ [Next]_vars => [EL!LNext]_(EL!lvars)
    BY NextStep DEF Implements
  <1> QED  BY <1>1, <1>2, Invariance, PTL DEF Spec, ImplementsEventLog, EL!LSpec

LEMMA Counting == Spec => [](IInv /\ BytesTrue /\ Bounded)
  BY InitTrue, NextStep, CountsInit, CountsNext, PTL DEF Spec

\* What the journal and its readers hold is of its type; the byte count, from
\* which evictLocked subtracts, is never less than zero.
THEOREM TypesHold == Spec => []TypeOK
  <1>1. IInv /\ BytesTrue /\ Bounded => TypeOK
    BY BytesTyped DEF IInv, TypesOK, BytesTrue, Bounded, TypeOK, ConnType, Lines
  <1> QED  BY <1>1, Counting, PTL

\* The window is the newest lines under their true numbers, within both limits
\* unless a single line is over one, the byte count append and evictLocked keep
\* is the one of the lines kept, and a frame's id names the line it carries.
THEOREM WindowIsExact == Spec => []WindowExact
  <1>1. IInv /\ BytesTrue => WindowExact
    <2> SUFFICES ASSUME IInv, NEW r \in Browsers, conn[r].pc = "sending"
                 PROVE  conn[r].since = Head(conn[r].batch).no
      BY DEF IInv, WindowTrue, BytesTrue, WindowExact
    <2>1. conn[r] \in ConnType
      BY DEF IInv, TypesOK, Readers
    <2>2. conn[r].since \in Nat /\ conn[r].batch \in Lines
      BY <2>1 DEF ConnType
    <2>3. Len(conn[r].batch) > 0 /\ \A i \in 1 .. Len(conn[r].batch) :
             conn[r].batch[i].no = conn[r].since + i - 1
      BY DEF IInv, BrowserTrue, SendingTrue
    <2>4. 1 \in 1 .. Len(conn[r].batch) /\ Head(conn[r].batch) = conn[r].batch[1]
      BY <2>2, <2>3 DEF Lines
    <2> QED  BY <2>2, <2>3, <2>4
  <1> QED  BY <1>1, Counting, PTL
=============================================================================
