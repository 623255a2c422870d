------------------------ MODULE BudgetJournal_proofs -------------------------
(***************************************************************************)
(* Facts about the documents of a budget journal, and the invariant its    *)
(* append protocol keeps, for any processes, runs, notes and bounds.       *)
(* Replay is a fold over the document; Sound says what replay of a         *)
(* document that was only ever appended to guarantees, in a form that      *)
(* every prefix of a sound document inherits.  What a document exposes is  *)
(* a fold over a set; that such a fold is the sum it is meant to be, in    *)
(* whichever order it takes the elements, comes first; that a journal used *)
(* through its calls keeps the abstract ledger comes last.                 *)
(***************************************************************************)
EXTENDS BudgetJournal, FiniteSetTheorems, WellFoundedInduction, TLAPS

-----------------------------------------------------------------------------
(* Sums over finite sets                                                     *)

SumOver(w, S) == MapThenSumSet(LAMBDA x : w[x], S)

\* G gives every subset of S its sum: what the fold over S is defined by.
SumsOf(G, w, S) == G = [s \in SUBSET S |->
    IF s = {} THEN 0 ELSE w[CHOOSE x \in s : TRUE] + G[s \ {CHOOSE x \in s : TRUE}]]

\* Among finite sets there is one of least size.
LEMMA Smallest ==
  ASSUME NEW B, B # {}, \A s \in B : IsFiniteSet(s)
  PROVE  \E s \in B : \A t \in B : ~(Cardinality(t) < Cardinality(s))
  <1> DEFINE C == {Cardinality(s) : s \in B}
  <1>1. C \subseteq Nat /\ C # {}
    BY FS_CardinalityType
  <1>2. PICK m \in C : \A k \in C : ~(<<k, m>> \in OpToRel(<, Nat))
    BY <1>1, NatLessThanWellFounded, WFMin
  <1>3. \A k \in C : ~(k < m)
    BY <1>1, <1>2 DEF OpToRel
  <1> QED  BY <1>3

\* One element less.
LEMMA OneLess ==
  ASSUME NEW S, IsFiniteSet(S), NEW s \in SUBSET S
  PROVE  /\ IsFiniteSet(s) /\ Cardinality(s) \in Nat
         /\ \A x \in s : /\ s \ {x} \in SUBSET S /\ IsFiniteSet(s \ {x})
                         /\ Cardinality(s \ {x}) = Cardinality(s) - 1
                         /\ Cardinality(s \ {x}) < Cardinality(s)
         /\ s # {} => (CHOOSE x \in s : TRUE) \in s
  <1>1. IsFiniteSet(s) /\ Cardinality(s) \in Nat
    BY FS_Subset, FS_CardinalityType
  <1>2. \A x \in s : IsFiniteSet(s \ {x}) /\ Cardinality(s \ {x}) = Cardinality(s) - 1
    BY <1>1, FS_RemoveElement
  <1> QED  BY <1>1, <1>2

\* Sums exist: with those of the sets of fewer than n elements, those of n.
LEMMA SumsExist ==
  ASSUME NEW S, IsFiniteSet(S), NEW w
  PROVE  \E G : SumsOf(G, w, S)
  <1> DEFINE Up(G) == [s \in SUBSET S |->
                 IF s = {} THEN 0
                 ELSE w[CHOOSE x \in s : TRUE] + G[s \ {CHOOSE x \in s : TRUE}]]
             To(G, n) == \A s \in SUBSET S : Cardinality(s) <= n => G[s] = Up(G)[s]
             B == {n \in Nat : ~ \E G : To(G, n)}
  <1>1. B = {}
    <2> SUFFICES ASSUME B # {}
                 PROVE  FALSE
      OBVIOUS
    <2>1. PICK m \in B : \A k \in B : ~(<<k, m>> \in OpToRel(<, Nat))
      BY NatLessThanWellFounded, WFMin
    <2>2. \A k \in B : ~(k < m)
      BY <2>1 DEF OpToRel
    <2>3. m \in Nat /\ ~ \E G : To(G, m)
      OBVIOUS
    <2>4. m # 0
      <3>1. ASSUME m = 0
            PROVE  To([s \in SUBSET S |-> 0], m)
        <4>1. \A s \in SUBSET S : Cardinality(s) <= 0 => s = {}
          BY OneLess, FS_EmptySet
        <4> QED  BY <3>1, <4>1
      <3> QED  BY <2>3, <3>1
    <2>5. m - 1 \in Nat /\ m - 1 < m
      BY <2>3, <2>4
    <2>6. PICK G : To(G, m - 1)
      BY <2>2, <2>5
    <2>7. ASSUME NEW s \in SUBSET S, Cardinality(s) <= m
          PROVE  Up(G)[s] = Up(Up(G))[s]
      <3>1. CASE s = {}
        BY <3>1
      <3>2. CASE s # {}
        <4> DEFINE r == s \ {CHOOSE x \in s : TRUE}
        <4>1. r \in SUBSET S /\ Cardinality(r) = Cardinality(s) - 1 /\ Cardinality(s) \in Nat
          BY <3>2, OneLess
        <4>2. G[r] = Up(G)[r]
          <5> HIDE DEF r, Up, B
          <5>1. Cardinality(r) <= m - 1
            BY <2>3, <2>7, <4>1
          <5> QED  BY <2>6, <4>1, <5>1
        <4>3. Up(G)[s] = w[CHOOSE x \in s : TRUE] + G[r]
          BY <3>2
        <4>4. Up(Up(G))[s] = w[CHOOSE x \in s : TRUE] + Up(G)[r]
          BY <3>2
        <4> QED  BY <4>2, <4>3, <4>4
      <3> QED  BY <3>1, <3>2
    <2>8. To(Up(G), m)
      BY <2>7
    <2> QED  BY <2>3, <2>8
  <1>2. Cardinality(S) \in Nat /\ \A s \in SUBSET S : Cardinality(s) <= Cardinality(S)
    BY FS_CardinalityType, FS_Subset
  <1>3. PICK G : To(G, Cardinality(S))
    BY <1>1, <1>2
  <1>4. \A s \in SUBSET S : Up(G)[s] = Up(Up(G))[s]
    <2> SUFFICES ASSUME NEW s \in SUBSET S
                 PROVE  Up(G)[s] = Up(Up(G))[s]
      OBVIOUS
    <2>1. CASE s = {}
      BY <2>1
    <2>2. CASE s # {}
      <3> DEFINE r == s \ {CHOOSE x \in s : TRUE}
      <3>1. r \in SUBSET S
        BY <2>2
      <3>2. G[r] = Up(G)[r]
        BY <1>2, <1>3, <3>1
      <3>3. Up(G)[s] = w[CHOOSE x \in s : TRUE] + G[r]
        BY <2>2
      <3>4. Up(Up(G))[s] = w[CHOOSE x \in s : TRUE] + Up(G)[r]
        BY <2>2
      <3> QED  BY <3>2, <3>3, <3>4
    <2> QED  BY <2>1, <2>2
  <1>5. Up(G) = Up(Up(G))
    BY <1>4
  <1> QED  BY <1>5 DEF SumsOf

\* What a fold over a set returns is the sum its functions agree on.
LEMMA SumsSame ==
  ASSUME NEW S, IsFiniteSet(S), NEW T, IsFiniteSet(T), NEW v, NEW w, NEW G, NEW H,
         SumsOf(G, v, S), SumsOf(H, w, T), NEW U, U \subseteq S, U \subseteq T,
         \A x \in U : v[x] = w[x]
  PROVE  G[U] = H[U]
  <1> DEFINE B == {s \in SUBSET U : G[s] # H[s]}
  <1>1. ASSUME B # {}
        PROVE  FALSE
    <2>1. \A s \in B : IsFiniteSet(s)
      BY FS_Subset
    <2>2. PICK s \in B : \A t \in B : ~(Cardinality(t) < Cardinality(s))
      <3> HIDE DEF B
      <3> QED  BY <1>1, <2>1, Smallest
    <2>3. s \in SUBSET U /\ s \in SUBSET S /\ s \in SUBSET T /\ G[s] # H[s]
      OBVIOUS
    <2>4. s # {}
      BY <2>3 DEF SumsOf
    <2> DEFINE x == CHOOSE x \in s : TRUE
               r == s \ {x}
    <2>5. x \in s /\ r \in SUBSET U /\ Cardinality(r) < Cardinality(s)
      BY <2>3, <2>4, OneLess
    <2>6. G[r] = H[r]
      BY <2>2, <2>5
    <2>7. G[s] = v[x] + G[r] /\ H[s] = w[x] + H[r]
      BY <2>3, <2>4 DEF SumsOf
    <2>8. v[x] = w[x]
      BY <2>3, <2>5
    <2> QED  BY <2>3, <2>6, <2>7, <2>8
  <1> QED  BY <1>1

LEMMA SumOverIs ==
  ASSUME NEW S, IsFiniteSet(S), NEW w
  PROVE  \E G : SumsOf(G, w, S) /\ SumOver(w, S) = G[S]
  <1> DEFINE F == CHOOSE G : SumsOf(G, w, S)
  <1>1. SumsOf(F, w, S)
    BY SumsExist
  <1>2. SumOver(w, S) = F[S]
    BY DEF SumOver, MapThenSumSet, MapThenFoldSet, SumsOf
  <1> QED  BY <1>1, <1>2

LEMMA SumCongruent ==
  ASSUME NEW S, IsFiniteSet(S), NEW v, NEW w, \A x \in S : v[x] = w[x]
  PROVE  SumOver(v, S) = SumOver(w, S)
  BY SumOverIs, SumsSame

LEMMA SumOfNone ==
  ASSUME NEW w
  PROVE  SumOver(w, {}) = 0
  <1>1. PICK G : SumsOf(G, w, {}) /\ SumOver(w, {}) = G[{}]
    BY SumOverIs, FS_EmptySet
  <1> QED  BY <1>1 DEF SumsOf

\* The sum of a set is an element's share and the sum of the rest.
LEMMA SumOfRest ==
  ASSUME NEW S, IsFiniteSet(S), S # {}, NEW w
  PROVE  \E x \in S : SumOver(w, S) = w[x] + SumOver(w, S \ {x})
  <1> DEFINE x == CHOOSE x \in S : TRUE
             R == S \ {x}
  <1>1. PICK G : SumsOf(G, w, S) /\ SumOver(w, S) = G[S]
    BY SumOverIs
  <1>2. x \in S /\ IsFiniteSet(R) /\ R \subseteq S
    BY OneLess
  <1>3. PICK H : SumsOf(H, w, R) /\ SumOver(w, R) = H[R]
    BY <1>2, SumOverIs
  <1>4. G[R] = H[R]
    BY <1>1, <1>2, <1>3, SumsSame
  <1>5. G[S] = w[x] + G[R]
    BY <1>1 DEF SumsOf
  <1> QED  BY <1>1, <1>2, <1>3, <1>4, <1>5

LEMMA SumTyped ==
  ASSUME NEW S, IsFiniteSet(S), NEW w, \A x \in S : w[x] \in Nat
  PROVE  SumOver(w, S) \in Nat
  <1> DEFINE B == {s \in SUBSET S : SumOver(w, s) \notin Nat}
  <1>1. ASSUME B # {}
        PROVE  FALSE
    <2>1. \A s \in B : IsFiniteSet(s)
      BY FS_Subset
    <2>2. PICK s \in B : \A t \in B : ~(Cardinality(t) < Cardinality(s))
      <3> HIDE DEF B
      <3> QED  BY <1>1, <2>1, Smallest
    <2>3. s \in SUBSET S /\ SumOver(w, s) \notin Nat /\ IsFiniteSet(s)
      BY <2>1
    <2>0. s # {}
      BY <2>3, SumOfNone
    <2>4. PICK x \in s : SumOver(w, s) = w[x] + SumOver(w, s \ {x})
      BY <2>0, <2>3, SumOfRest
    <2>5. s \ {x} \in SUBSET S /\ Cardinality(s \ {x}) < Cardinality(s)
      BY <2>3, OneLess
    <2>6. SumOver(w, s \ {x}) \in Nat
      BY <2>2, <2>5
    <2> QED  BY <2>3, <2>4, <2>6
  <1> QED  BY <1>1

\* Whichever element it is.
LEMMA SumWithout ==
  ASSUME NEW S, IsFiniteSet(S), NEW w, \A x \in S : w[x] \in Nat, NEW y \in S
  PROVE  SumOver(w, S) = w[y] + SumOver(w, S \ {y})
  <1> DEFINE Wrong(s, z) == SumOver(w, s) # w[z] + SumOver(w, s \ {z})
             B == {s \in SUBSET S : \E z \in s : Wrong(s, z)}
  <1>1. ASSUME B # {}
        PROVE  FALSE
    <2>1. \A s \in B : IsFiniteSet(s)
      BY FS_Subset
    <2>2. PICK s \in B : \A t \in B : ~(Cardinality(t) < Cardinality(s))
      <3> HIDE DEF B
      <3> QED  BY <1>1, <2>1, Smallest
    <2>3. s \in SUBSET S /\ IsFiniteSet(s)
      BY <2>1
    <2>4. PICK z \in s : Wrong(s, z)
      OBVIOUS
    <2>5. PICK x \in s : SumOver(w, s) = w[x] + SumOver(w, s \ {x})
      BY <2>3, SumOfRest
    <2>6. x # z
      BY <2>4, <2>5
    <2> DEFINE rx == s \ {x}
               rz == s \ {z}
               rr == s \ {x, z}
    <2>7. /\ rx \in SUBSET S /\ Cardinality(rx) < Cardinality(s) /\ z \in rx
          /\ rz \in SUBSET S /\ Cardinality(rz) < Cardinality(s) /\ x \in rz
          /\ rx \ {z} = rr /\ rz \ {x} = rr /\ rr \in SUBSET S
      BY <2>3, <2>6, OneLess
    <2>8. ~Wrong(rx, z) /\ ~Wrong(rz, x)
      BY <2>2, <2>7
    <2>9. SumOver(w, rx) = w[z] + SumOver(w, rr) /\ SumOver(w, rz) = w[x] + SumOver(w, rr)
      BY <2>7, <2>8
    <2>10. SumOver(w, rr) \in Nat /\ w[x] \in Nat /\ w[z] \in Nat
      BY <2>3, <2>7, SumTyped, FS_Subset
    <2>11. SumOver(w, s) = w[z] + SumOver(w, rz)
      BY <2>5, <2>9, <2>10
    <2> QED  BY <2>4, <2>11
  <1> QED  BY <1>1

\* What each element of S owes, an element of T of its own pays.
LEMMA SumCovered ==
  ASSUME NEW S, IsFiniteSet(S), NEW T, IsFiniteSet(T), NEW v, NEW w,
         \A x \in S : v[x] \in Nat, \A y \in T : w[y] \in Nat,
         NEW f, \A x \in S : f[x] \in T /\ v[x] <= w[f[x]],
         \A x, y \in S : f[x] = f[y] => x = y
  PROVE  SumOver(v, S) <= SumOver(w, T)
  <1> DEFINE Image(s) == {f[x] : x \in s}
             B == {s \in SUBSET S : ~ \A t \in SUBSET T :
                                        Image(s) \subseteq t => SumOver(v, s) <= SumOver(w, t)}
  <1>1. ASSUME B # {}
        PROVE  FALSE
    <2>1. \A s \in B : IsFiniteSet(s)
      BY FS_Subset
    <2>2. PICK s \in B : \A t \in B : ~(Cardinality(t) < Cardinality(s))
      <3> HIDE DEF B
      <3> QED  BY <1>1, <2>1, Smallest
    <2>3. s \in SUBSET S /\ IsFiniteSet(s)
      BY <2>1
    <2>4. PICK t \in SUBSET T : Image(s) \subseteq t /\ ~(SumOver(v, s) <= SumOver(w, t))
      OBVIOUS
    <2>5. IsFiniteSet(t) /\ \A y \in t : w[y] \in Nat
      BY <2>4, FS_Subset
    <2>6. SumOver(w, t) \in Nat
      BY <2>5, SumTyped
    <2>7. s # {}
      BY <2>4, <2>6, SumOfNone
    <2>8. PICK x \in s : SumOver(v, s) = v[x] + SumOver(v, s \ {x})
      BY <2>3, <2>7, SumOfRest
    <2> DEFINE r == s \ {x}
               u == t \ {f[x]}
    <2>9. r \in SUBSET S /\ Cardinality(r) < Cardinality(s) /\ IsFiniteSet(r)
      BY <2>3, OneLess
    <2>10. f[x] \in t /\ u \in SUBSET T /\ Image(r) \subseteq u /\ v[x] <= w[f[x]]
      BY <2>3, <2>4
    <2>11. SumOver(v, r) <= SumOver(w, u)
      BY <2>2, <2>9, <2>10
    <2>12. SumOver(w, t) = w[f[x]] + SumOver(w, u)
      BY <2>5, <2>10, SumWithout
    <2>13. SumOver(v, r) \in Nat /\ SumOver(w, u) \in Nat /\ v[x] \in Nat /\ w[f[x]] \in Nat
      BY <2>3, <2>4, <2>5, <2>9, <2>10, SumTyped, FS_Subset
    <2> QED  BY <2>4, <2>8, <2>10, <2>11, <2>12, <2>13
  <1>2. S \notin B
    BY <1>1
  <1>3. Image(S) \subseteq T
    OBVIOUS
  <1> QED  BY <1>2, <1>3

\* Elements that are worth nothing do not count.
LEMMA SumOfWorth ==
  ASSUME NEW S, IsFiniteSet(S), NEW w, \A x \in S : w[x] \in Nat, NEW R,
         \A x \in S \ R : w[x] = 0
  PROVE  SumOver(w, S) = SumOver(w, S \cap R)
  <1> DEFINE B == {s \in SUBSET S : SumOver(w, s) # SumOver(w, s \cap R)}
  <1>1. ASSUME B # {}
        PROVE  FALSE
    <2>1. \A s \in B : IsFiniteSet(s)
      BY FS_Subset
    <2>2. PICK s \in B : \A t \in B : ~(Cardinality(t) < Cardinality(s))
      <3> HIDE DEF B
      <3> QED  BY <1>1, <2>1, Smallest
    <2>3. s \in SUBSET S /\ IsFiniteSet(s) /\ SumOver(w, s) # SumOver(w, s \cap R)
      BY <2>1
    <2>4. s # {}
      <3>1. {} \cap R = {}
        OBVIOUS
      <3> QED  BY <2>3, <3>1
    <2>5. PICK x \in s : SumOver(w, s) = w[x] + SumOver(w, s \ {x})
      BY <2>3, <2>4, SumOfRest
    <2> DEFINE r == s \ {x}
               m == s \cap R
    <2>6. r \in SUBSET S /\ Cardinality(r) < Cardinality(s) /\ IsFiniteSet(r)
      BY <2>3, OneLess
    <2>7. SumOver(w, r) = SumOver(w, r \cap R)
      BY <2>2, <2>6
    <2>8. SumOver(w, r) \in Nat
      BY <2>3, <2>6, SumTyped
    <2>9. CASE x \in R
      <3>1. x \in m /\ m \ {x} = r \cap R /\ IsFiniteSet(m) /\ \A y \in m : w[y] \in Nat
        BY <2>3, <2>9, FS_Subset
      <3>2. SumOver(w, m) = w[x] + SumOver(w, m \ {x})
        BY <3>1, SumWithout
      <3> QED  BY <2>3, <2>5, <2>7, <3>1, <3>2
    <2>10. CASE x \notin R
      <3>1. m = r \cap R /\ w[x] = 0
        BY <2>3, <2>10
      <3>2. SumOver(w, m) = SumOver(w, r)
        BY <2>7, <3>1
      <3>3. SumOver(w, s) = SumOver(w, r)
        <4>1. SumOver(w, s) = w[x] + SumOver(w, r)
          BY <2>5
        <4> DEFINE rest == SumOver(w, r)
        <4>2. rest \in Nat /\ SumOver(w, s) = w[x] + rest /\ w[x] = 0
          BY <2>8, <3>1, <4>1
        <4> HIDE DEF rest
        <4>3. SumOver(w, s) = rest
          BY <4>2
        <4> QED  BY <4>3 DEF rest
      <3> QED  BY <2>3, <3>2, <3>3
    <2> QED  BY <2>9, <2>10
  <1> QED  BY <1>1

-----------------------------------------------------------------------------
(* Documents                                                                 *)

AnyEvent == [action : Action, tx : Int, run : Run, cost : Int, note : Note]

\* Every event is about an earlier reservation, ...
TxEarlier(d) == \A i \in DOMAIN d :
    /\ d[i].action = "reserved" => d[i].tx = i
    /\ d[i].action # "reserved" =>
          /\ d[i].tx \in 1 .. i - 1
          /\ d[d[i].tx].action = "reserved" /\ d[d[i].tx].run = d[i].run

\* ... what is committed was authorized, and is committed once, what was authorized is
\* not aborted, ...
SettledOnce(d) ==
    /\ \A i \in DOMAIN d : d[i].action = "committed" =>
          \E j \in 1 .. i - 1 : d[j].action = "request_authorized" /\ d[j].tx = d[i].tx
    /\ \A i, j \in DOMAIN d :
          d[i].action = "request_authorized" /\ d[j].action = "aborted_pre_request" =>
          d[i].tx # d[j].tx
    /\ \A i, j \in DOMAIN d :
          d[i].action = "committed" /\ d[j].action = "committed" /\ d[i].tx = d[j].tx =>
          i = j

\* ... and a run is reserved again only after its reservation was aborted.
OneLive(d) == \A t, u \in DOMAIN d :
    /\ d[t].action = "reserved" /\ d[u].action = "reserved"
    /\ t < u /\ d[t].run = d[u].run
    => \E i \in 1 .. u - 1 : d[i].action = "aborted_pre_request" /\ d[i].tx = t

Sound(d) == d \in Seq(AnyEvent) /\ TxEarlier(d) /\ SettledOnce(d) /\ OneLive(d)

(* What replay guarantees of a document it guarantees of what a power loss   *)
(* leaves of it.                                                            *)
LEMMA PrefixSound ==
  ASSUME NEW d, Sound(d), NEW n \in 0 .. Len(d)
  PROVE  Sound(SubSeq(d, 1, n))
  <1> DEFINE s == SubSeq(d, 1, n)
  <1>1. d \in Seq(AnyEvent) /\ Len(d) \in Nat /\ DOMAIN d = 1 .. Len(d)
    BY DEF Sound
  <1>2. s \in Seq(AnyEvent) /\ DOMAIN s = 1 .. n /\ DOMAIN s \subseteq DOMAIN d
    BY <1>1
  <1>3. \A i \in DOMAIN s : s[i] = d[i]
    BY <1>1, <1>2
  <1> HIDE DEF s
  <1>4. TxEarlier(s)
    <2>1. \A i \in DOMAIN s : i \in DOMAIN d /\ i \in 1 .. n /\ s[i] = d[i]
      BY <1>2, <1>3
    <2>2. \A i \in DOMAIN s : d[i].action # "reserved" =>
            d[i].tx \in DOMAIN s /\ s[d[i].tx] = d[d[i].tx]
      BY <1>2, <1>3, <2>1 DEF Sound, TxEarlier
    <2> QED  BY <2>1, <2>2 DEF Sound, TxEarlier
  <1>5. SettledOnce(s)
    <2>1. \A i \in DOMAIN s : i \in DOMAIN d /\ s[i] = d[i]
      BY <1>2, <1>3
    <2>2. \A i \in DOMAIN s : \A j \in 1 .. i - 1 : s[j] = d[j]
      BY <1>2, <1>3
    <2>3. \A i \in DOMAIN s : s[i].action = "committed" =>
            \E j \in 1 .. i - 1 : s[j].action = "request_authorized" /\ s[j].tx = s[i].tx
      BY <2>1, <2>2 DEF Sound, SettledOnce
    <2>4. \A i, j \in DOMAIN s :
            /\ s[i].action = "request_authorized" /\ s[j].action = "aborted_pre_request" =>
               s[i].tx # s[j].tx
            /\ s[i].action = "committed" /\ s[j].action = "committed" /\ s[i].tx = s[j].tx =>
               i = j
      BY <2>1 DEF Sound, SettledOnce
    <2> QED  BY <2>3, <2>4 DEF SettledOnce
  <1>6. OneLive(s)
    <2>1. \A u \in DOMAIN s : \A i \in 1 .. u - 1 : s[i] = d[i]
      BY <1>2, <1>3
    <2>2. \A u \in DOMAIN s : u \in DOMAIN d /\ s[u] = d[u]
      BY <1>2, <1>3
    <2> QED  BY <2>1, <2>2 DEF Sound, OneLive
  <1> QED  BY <1>2, <1>4, <1>5, <1>6 DEF Sound, s

(* The states replay reads off a sound document.                             *)
LEMMA StateFacts ==
  ASSUME NEW d, Sound(d), NEW t
  PROVE  /\ State(d, t) = "aborted_pre_request" =>
               \E i \in DOMAIN d : d[i].tx = t /\ d[i].action = "aborted_pre_request"
         /\ State(d, t) = "reserved" => t \in Transactions(d)
         /\ State(d, t) = "reserved" =>
               \A i \in DOMAIN d : d[i].tx = t =>
                  d[i].action \notin {"request_authorized", "committed", "aborted_pre_request"}
         /\ State(d, t) = "request_authorized" =>
               /\ \E i \in DOMAIN d : d[i].tx = t /\ d[i].action = "request_authorized"
               /\ \A i \in DOMAIN d : d[i].tx = t => d[i].action # "committed"
         /\ State(d, t) = "request_authorized" => t \in Transactions(d)
         /\ \A i \in DOMAIN d : d[i].action = "request_authorized" =>
               State(d, d[i].tx) \in {"request_authorized", "committed"}
         /\ \A i \in DOMAIN d : d[i].action = "request_authorized" =>
               d[i].tx \in Transactions(d)
         /\ State(d, t) = "committed" => t \in Transactions(d) /\
               \E i \in DOMAIN d : d[i].tx = t /\ d[i].action = "request_authorized"
  <1>1. /\ d \in Seq(AnyEvent) /\ DOMAIN d = 1 .. Len(d) /\ Len(d) \in Nat
        /\ TxEarlier(d) /\ SettledOnce(d)
    BY DEF Sound
  <1>2. \A i \in DOMAIN d : d[i].tx \in Transactions(d)
    BY <1>1 DEF TxEarlier, Transactions
  <1> QED  BY <1>1, <1>2 DEF State, Has, SettledOnce

LEMMA AuthorizedForGood ==
  ASSUME NEW d, Sound(d)
  PROVE  (\E t \in Transactions(d) : State(d, t) \in {"request_authorized", "committed"})
         <=> (\E i \in DOMAIN d : d[i].action = "request_authorized")
  BY StateFacts

(* An admissible event appended to a sound document leaves it sound.         *)
LEMMA AppendSound ==
  ASSUME NEW d, Sound(d), NEW e \in AnyEvent, Admissible(d, e)
  PROVE  Sound(Append(d, e))
  <1> DEFINE s == Append(d, e)
             n == Len(d) + 1
  <1>1. d \in Seq(AnyEvent) /\ Len(d) \in Nat /\ DOMAIN d = 1 .. Len(d)
    BY DEF Sound
  <1>2. s \in Seq(AnyEvent) /\ DOMAIN s = 1 .. n /\ n \in Nat /\ s[n] = e
    BY <1>1
  <1>3. \A i \in DOMAIN d : s[i] = d[i] /\ i \in DOMAIN s /\ i < n
    BY <1>1
  <1>4. \A i \in DOMAIN s : i = n \/ i \in DOMAIN d
    BY <1>1, <1>2
  <1>5. e.action \in Action
    BY DEF AnyEvent
  <1> HIDE DEF s, n
  <1>6. e.action = "reserved" => e.tx = n /\ Live(d, e.run) = {}
    BY DEF Admissible, n
  <1>7. e.action # "reserved" =>
          /\ State(d, e.tx) \in {"reserved", "request_authorized"}
          /\ e.tx \in DOMAIN d /\ d[e.tx].action = "reserved" /\ d[e.tx].run = e.run
    BY <1>5, StateFacts DEF Admissible, Action, Transactions
  <1>8. TxEarlier(s)
    BY <1>1, <1>2, <1>3, <1>4, <1>6, <1>7 DEF Sound, TxEarlier
  <1>9. SettledOnce(s)
    <2>1. \A i \in DOMAIN s : s[i].action = "committed" =>
            \E j \in 1 .. i - 1 : s[j].action = "request_authorized" /\ s[j].tx = s[i].tx
      <3>1. ASSUME e.action = "committed"
            PROVE  \E j \in DOMAIN d : d[j].action = "request_authorized" /\ d[j].tx = e.tx
        BY <3>1, StateFacts DEF Admissible
      <3> QED  BY <1>1, <1>2, <1>3, <1>4, <3>1 DEF Sound, SettledOnce
    <2>2. \A i, j \in DOMAIN s :
            s[i].action = "request_authorized" /\ s[j].action = "aborted_pre_request" =>
            s[i].tx # s[j].tx
      <3>1. ASSUME e.action \in {"request_authorized", "aborted_pre_request"},
                   NEW i \in DOMAIN d,
                   d[i].action \in {"request_authorized", "aborted_pre_request"}
            PROVE  d[i].tx # e.tx
        BY <3>1, StateFacts DEF Admissible
      <3> QED  BY <1>1, <1>2, <1>3, <1>4, <3>1 DEF Sound, SettledOnce
    <2>3. \A i, j \in DOMAIN s :
            s[i].action = "committed" /\ s[j].action = "committed" /\ s[i].tx = s[j].tx =>
            i = j
      <3>1. ASSUME e.action = "committed", NEW i \in DOMAIN d, d[i].action = "committed"
            PROVE  d[i].tx # e.tx
        BY <3>1, StateFacts DEF Admissible
      <3> QED  BY <1>1, <1>2, <1>3, <1>4, <3>1 DEF Sound, SettledOnce
    <2> QED  BY <2>1, <2>2, <2>3 DEF SettledOnce
  <1>10. OneLive(s)
    <2>1. ASSUME e.action = "reserved", NEW t \in DOMAIN d,
                 d[t].action = "reserved", d[t].run = e.run
          PROVE  \E i \in DOMAIN d : d[i].tx = t /\ d[i].action = "aborted_pre_request"
      BY <1>6, <2>1, StateFacts DEF Live, Transactions
    <2>2. \A u \in DOMAIN d : \A i \in 1 .. u - 1 : i \in DOMAIN d
      BY <1>1
    <2>3. DOMAIN d = 1 .. n - 1
      BY <1>1 DEF n
    <2> SUFFICES ASSUME NEW t \in DOMAIN s, NEW u \in DOMAIN s,
                        s[t].action = "reserved", s[u].action = "reserved",
                        t < u, s[t].run = s[u].run
                 PROVE  \E i \in 1 .. u - 1 : s[i].action = "aborted_pre_request" /\ s[i].tx = t
      BY DEF OneLive
    <2>4. t \in Int /\ u \in Int /\ u <= n
      BY <1>2
    <2>5. t \in DOMAIN d /\ s[t] = d[t]
      BY <1>3, <2>3, <2>4, <1>2
    <2>6. CASE u = n
      <3>1. PICK i \in DOMAIN d : d[i].tx = t /\ d[i].action = "aborted_pre_request"
        BY <1>2, <2>1, <2>5, <2>6
      <3> QED  BY <1>3, <2>3, <2>6, <3>1
    <2>7. CASE u \in DOMAIN d
      <3>1. PICK i \in 1 .. u - 1 : d[i].action = "aborted_pre_request" /\ d[i].tx = t
        BY <1>3, <2>5, <2>7 DEF Sound, OneLive
      <3> QED  BY <1>3, <2>2, <2>7, <3>1
    <2> QED  BY <1>4, <2>6, <2>7
  <1> QED  BY <1>2, <1>8, <1>9, <1>10 DEF Sound, s

-----------------------------------------------------------------------------
(* What a document exposes                                                   *)

LEMMA TransactionsFinite ==
  ASSUME NEW d, Sound(d)
  PROVE  IsFiniteSet(Transactions(d))
  <1>1. Len(d) \in Nat /\ DOMAIN d = 1 .. Len(d)
    BY DEF Sound
  <1>2. IsFiniteSet(DOMAIN d)
    BY <1>1, FS_Interval
  <1> QED  BY <1>2, FS_Subset DEF Transactions

LEMMA ExposureIs ==
  ASSUME NEW d, Sound(d)
  PROVE  Exposure(d) = SumOver([t \in Transactions(d) |-> Charge(d, t)], Transactions(d))
  <1> DEFINE S == Transactions(d)
             w == [t \in S |-> Charge(d, t)]
             Charges(G) == G = [s \in SUBSET S |->
               IF s = {} THEN 0
               ELSE Charge(d, CHOOSE t \in s : TRUE) + G[s \ {CHOOSE t \in s : TRUE}]]
             F == CHOOSE G : Charges(G)
  <1>1. IsFiniteSet(S)
    BY TransactionsFinite
  <1>2. ASSUME NEW G
        PROVE  Charges(G) <=> SumsOf(G, w, S)
    <2>1. \A s \in SUBSET S : s # {} =>
            w[CHOOSE t \in s : TRUE] = Charge(d, CHOOSE t \in s : TRUE)
      OBVIOUS
    <2> HIDE DEF S, w
    <2> QED  BY <2>1 DEF SumsOf
  <1>3. Exposure(d) = F[S]
    BY DEF Exposure, MapThenSumSet, MapThenFoldSet
  <1> HIDE DEF Charges, w, S
  <1>4. \E G : Charges(G)
    BY <1>1, <1>2, SumsExist
  <1>5. SumsOf(F, w, S)
    BY <1>2, <1>4
  <1>6. PICK G : SumsOf(G, w, S) /\ SumOver(w, S) = G[S]
    BY <1>1, SumOverIs
  <1>7. F[S] = G[S]
    BY <1>1, <1>5, <1>6, SumsSame
  <1> QED  BY <1>3, <1>6, <1>7 DEF w, S

LEMMA NothingExposed == Exposure(<<>>) = 0
  <1>1. Transactions(<<>>) = {}
    BY DEF Transactions
  <1>2. Sound(<<>>)
    BY DEF Sound, TxEarlier, SettledOnce, OneLive
  <1> QED  BY <1>1, <1>2, ExposureIs, SumOfNone

LEMMA PrefixReplays ==
  ASSUME NEW d \in Seq(AnyEvent), Replays(d), NEW n \in 0 .. Len(d)
  PROVE  Replays(SubSeq(d, 1, n))
  <1> DEFINE s == SubSeq(d, 1, n)
  <1>1. DOMAIN d = 1 .. Len(d) /\ DOMAIN s = 1 .. n /\ Len(d) \in Nat
    OBVIOUS
  <1>2. ASSUME NEW i \in DOMAIN s
        PROVE  i \in DOMAIN d /\ s[i] = d[i] /\ SubSeq(s, 1, i - 1) = SubSeq(d, 1, i - 1)
    OBVIOUS
  <1> QED  BY <1>2 DEF Replays

LEMMA AppendReplays ==
  ASSUME NEW d \in Seq(AnyEvent), Replays(d), NEW e \in AnyEvent, Admissible(d, e)
  PROVE  Replays(Append(d, e))
  <1> DEFINE s == Append(d, e)
  <1>1. DOMAIN s = 1 .. Len(d) + 1 /\ DOMAIN d = 1 .. Len(d) /\ Len(d) \in Nat
    OBVIOUS
  <1>2. ASSUME NEW i \in DOMAIN d
        PROVE  s[i] = d[i] /\ SubSeq(s, 1, i - 1) = SubSeq(d, 1, i - 1)
    OBVIOUS
  <1>3. s[Len(d) + 1] = e /\ SubSeq(s, 1, Len(d)) = d
    OBVIOUS
  <1>4. ASSUME NEW i \in DOMAIN s
        PROVE  Admissible(SubSeq(s, 1, i - 1), s[i])
    <2>1. CASE i \in DOMAIN d
      BY <1>2, <2>1 DEF Replays
    <2>2. CASE i = Len(d) + 1
      <3>1. SubSeq(s, 1, i - 1) = d /\ s[i] = e
        BY <1>1, <1>3, <2>2
      <3> QED  BY <3>1
    <2> QED  BY <1>1, <2>1, <2>2
  <1> QED  BY <1>4 DEF Replays

\* What replay accepts exposes no more than the authority allows.
LEMMA ReplaysWithin ==
  ASSUME NEW d \in Seq(AnyEvent), Replays(d)
  PROVE  Exposure(d) <= Total
  <1>1. CASE d = <<>>
    BY <1>1, NothingExposed, JournalAssumption
  <1>2. CASE d # <<>>
    <2> DEFINE n == Len(d)
               r == SubSeq(d, 1, n - 1)
    <2>1. n \in DOMAIN d /\ d = Append(r, d[n])
      BY <1>2
    <2>2. Admissible(r, d[n])
      BY <2>1 DEF Replays
    <2> HIDE DEF r, n
    <2> QED  BY <2>1, <2>2 DEF Admissible
  <1> QED  BY <1>1, <1>2

\* What a commit charges, and what any other transaction may.
LEMMA ChargeFacts ==
  ASSUME NEW d, Sound(d), Replays(d), NEW t
  PROVE  /\ Charge(d, t) \in 0 .. MaxCost
         /\ State(d, t) \in {"reserved", "request_authorized"} => Charge(d, t) = MaxCost
         /\ State(d, t) = "aborted_pre_request" => Charge(d, t) = 0
         /\ \A i \in DOMAIN d : d[i].action = "committed" /\ d[i].tx = t =>
               State(d, t) = "committed" /\ Charge(d, t) = d[i].cost
  <1>1. ASSUME NEW i \in DOMAIN d, d[i].action = "committed"
        PROVE  d[i].cost \in 0 .. MaxCost
    BY <1>1 DEF Replays, Admissible
  <1>2. ASSUME NEW i \in DOMAIN d, d[i].action = "committed", d[i].tx = t
        PROVE  State(d, t) = "committed" /\ Charge(d, t) = d[i].cost
    <2>1. State(d, t) = "committed"
      BY <1>2 DEF State, Has
    <2>2. \A j \in Events(d, t, "committed") : j = i
      BY <1>2 DEF Events, Sound, SettledOnce
    <2>3. i \in Events(d, t, "committed")
      BY <1>2 DEF Events
    <2>4. (CHOOSE j \in Events(d, t, "committed") : TRUE) = i
      BY <2>2, <2>3
    <2> QED  BY <2>1, <2>4 DEF Charge
  <1>3. State(d, t) = "committed" => \E i \in DOMAIN d : d[i].action = "committed" /\ d[i].tx = t
    BY DEF State, Has
  <1>4. MaxCost \in Nat
    BY JournalAssumption
  <1>5. State(d, t) # "committed" => Charge(d, t) =
          IF State(d, t) \in {"reserved", "request_authorized"} THEN MaxCost ELSE 0
    BY DEF Charge
  <1>6. CASE State(d, t) = "committed"
    BY <1>1, <1>2, <1>3, <1>6
  <1>7. CASE State(d, t) # "committed"
    BY <1>2, <1>4, <1>5, <1>7
  <1> QED  BY <1>6, <1>7

\* A document that continues another loses nothing it says of a transaction.
LEMMA Continued ==
  ASSUME NEW c, Sound(c), Replays(c), NEW d, Sound(d), Replays(d),
         \A i \in DOMAIN c : i \in DOMAIN d /\ d[i] = c[i], NEW t \in Transactions(c)
  PROVE  /\ t \in Transactions(d) /\ d[t].run = c[t].run
         /\ State(c, t) # "reserved" =>
               \/ State(d, t) = State(c, t)
               \/ State(c, t) = "request_authorized" /\ State(d, t) = "committed"
         /\ State(c, t) = "committed" => Charge(d, t) = Charge(c, t)
  <1>1. t \in Transactions(d) /\ d[t].run = c[t].run
    BY DEF Transactions
  <1>2. \A a : Has(c, t, a) => Has(d, t, a)
    BY DEF Has
  <1>3. /\ Has(d, t, "committed") => Has(d, t, "request_authorized")
        /\ ~(Has(d, t, "aborted_pre_request") /\ Has(d, t, "request_authorized"))
        /\ Has(c, t, "committed") => Has(c, t, "request_authorized")
    <2>1. \A s : Sound(s) => DOMAIN s = 1 .. Len(s) /\ Len(s) \in Nat
      BY DEF Sound
    <2> QED  BY <2>1 DEF Has, Sound, SettledOnce
  <1>4. Has(c, t, "reserved")
    BY DEF Has, Transactions, Sound, TxEarlier
  <1>5. /\ State(c, t) # "reserved" =>
              \/ State(d, t) = State(c, t)
              \/ State(c, t) = "request_authorized" /\ State(d, t) = "committed"
        /\ State(c, t) = "committed" => Has(c, t, "committed")
    BY <1>2, <1>3, <1>4 DEF State
  <1>6. ASSUME State(c, t) = "committed"
        PROVE  Charge(d, t) = Charge(c, t)
    <2>1. PICK i \in DOMAIN c : c[i].tx = t /\ c[i].action = "committed"
      BY <1>5, <1>6 DEF Has
    <2> QED  BY <2>1, ChargeFacts
  <1> QED  BY <1>1, <1>5, <1>6

\* Of two transactions of a run, the first was aborted.
LEMMA OneEntry ==
  ASSUME NEW d, Sound(d), NEW t \in Transactions(d), NEW u \in Transactions(d),
         d[t].run = d[u].run, State(d, t) # "aborted_pre_request",
         State(d, u) # "aborted_pre_request"
  PROVE  t = u
  <1>1. ASSUME NEW x \in Transactions(d), NEW y \in Transactions(d), d[x].run = d[y].run, x < y
        PROVE  State(d, x) = "aborted_pre_request"
    <2>1. DOMAIN d = 1 .. Len(d) /\ Len(d) \in Nat /\ x \in DOMAIN d /\ y \in DOMAIN d
      BY DEF Sound, Transactions
    <2>2. PICK i \in 1 .. y - 1 : d[i].action = "aborted_pre_request" /\ d[i].tx = x
      BY <1>1, <2>1 DEF Sound, OneLive, Transactions
    <2>3. i \in DOMAIN d
      BY <2>1, <2>2
    <2>4. Has(d, x, "aborted_pre_request") /\ ~Has(d, x, "request_authorized")
      BY <2>2, <2>3 DEF Has, Sound, SettledOnce
    <2>5. ~Has(d, x, "committed")
      BY <2>1, <2>4 DEF Has, Sound, SettledOnce
    <2> QED  BY <2>4, <2>5 DEF State
  <1>2. t \in Int /\ u \in Int
    BY DEF Sound, Transactions
  <1> QED  BY <1>1, <1>2

-----------------------------------------------------------------------------
(* The invariant of the append protocol                                      *)

IsPrefixOf(c, d) == \E n \in 0 .. Len(d) : c = SubSeq(d, 1, n)

\* What is about to be written was found admissible after what is on the disk.
Pending1 ==
    \/ jevent = Creation /\ jdisk = <<>>
    \/ jevent \in AnyEvent /\ Admissible(jdisk, jevent)

JInv ==
    /\ Sound(jdisk) /\ Replays(jdisk)
    /\ IsPrefixOf(jsynced, jdisk)
    /\ jstep \in Steps
    /\ jlock = Nobody => jstep = "idle"
    /\ jlock # Nobody /\ jstep \in {"idle", "write", "replace"} => jmem = jdisk
    /\ jstep \in {"write", "replace"} => Pending1
    /\ jstep = "sync" => jdisk = Appended

\* What is synced stays, and what is on the disk does too.
SyncedKept == \A i \in DOMAIN jsynced : i \in DOMAIN jsynced' /\ jsynced'[i] = jsynced[i]
DiskKept   == \A i \in DOMAIN jdisk : i \in DOMAIN jdisk' /\ jdisk'[i] = jdisk[i]

LEMMA PrefixFacts ==
  ASSUME NEW c, NEW d, Sound(d), IsPrefixOf(c, d)
  PROVE  /\ Sound(c) /\ Len(c) \in Nat /\ Len(c) <= Len(d)
         /\ c = SubSeq(d, 1, Len(c))
         /\ \A i \in DOMAIN c : i \in DOMAIN d /\ c[i] = d[i]
  <1>1. PICK n \in 0 .. Len(d) : c = SubSeq(d, 1, n)
    BY DEF IsPrefixOf
  <1>2. d \in Seq(AnyEvent) /\ Len(d) \in Nat
    BY DEF Sound
  <1>3. Sound(c)
    BY <1>1, PrefixSound
  <1>4. Len(c) = n
    BY <1>1, <1>2
  <1>5. \A i \in DOMAIN c : i \in DOMAIN d /\ c[i] = d[i]
    BY <1>1, <1>2
  <1> QED  BY <1>1, <1>2, <1>3, <1>4, <1>5

\* What is synced is as sound as what is on the disk.
LEMMA SyncedSound == JInv => Sound(jsynced) /\ Replays(jsynced)
  <1> SUFFICES ASSUME JInv
               PROVE  Sound(jsynced) /\ Replays(jsynced)
    OBVIOUS
  <1>1. Sound(jdisk) /\ Replays(jdisk) /\ IsPrefixOf(jsynced, jdisk)
    BY DEF JInv
  <1>2. PICK n \in 0 .. Len(jdisk) : jsynced = SubSeq(jdisk, 1, n)
    BY <1>1 DEF IsPrefixOf
  <1>3. jdisk \in Seq(AnyEvent)
    BY <1>1 DEF Sound
  <1>4. Replays(jsynced)
    BY <1>1, <1>2, <1>3, PrefixReplays
  <1> QED  BY <1>1, <1>4, PrefixFacts

LEMMA PrefixReflexive ==
  ASSUME NEW d, Sound(d)
  PROVE  IsPrefixOf(d, d)
  <1>1. d \in Seq(AnyEvent) /\ Len(d) \in Nat
    BY DEF Sound
  <1>2. d = SubSeq(d, 1, Len(d))
    BY <1>1
  <1>3. Len(d) \in 0 .. Len(d)
    BY <1>1
  <1> QED  BY <1>2, <1>3 DEF IsPrefixOf

LEMMA EmptySound == Sound(<<>>) /\ Replays(<<>>) /\ IsPrefixOf(<<>>, <<>>)
  <1>1. <<>> \in Seq(AnyEvent) /\ DOMAIN <<>> = {} /\ Len(<<>>) = 0
    OBVIOUS
  <1>2. Sound(<<>>)
    BY <1>1 DEF Sound, TxEarlier, SettledOnce, OneLive
  <1>3. Replays(<<>>)
    BY <1>1 DEF Replays
  <1> QED  BY <1>2, <1>3, PrefixReflexive

LEMMA JInitInv == JInit => JInv
  BY EmptySound DEF JInit, JInv, Steps

LEMMA JQuietInv ==
  ASSUME JInv, UNCHANGED <<jdisk, jsynced>>,
         \/ UNCHANGED journalVars
         \/ \E p \in Proc : JOpen(p) \/ JClose(p) \/ JRefuse(p)
         \/ JInspect \/ JFail
  PROVE  JInv' /\ SyncedKept /\ DiskKept
  <1>0. ASSUME UNCHANGED <<jmem, jevent>>
        PROVE  Pending1' = Pending1 /\ Appended' = Appended
    BY <1>0 DEF Pending1, Appended
  <1>1. SyncedKept /\ DiskKept
    BY DEF SyncedKept, DiskKept
  <1>2. CASE UNCHANGED journalVars
    BY <1>0, <1>1, <1>2 DEF journalVars, JInv
  <1>3. ASSUME NEW p \in Proc, JOpen(p)
        PROVE  JInv'
    BY <1>3, JournalAssumption DEF JInv, JOpen, Pending1, Steps
  <1>4. ASSUME NEW p \in Proc, JClose(p)
        PROVE  JInv'
    BY <1>4 DEF JInv, JClose, Pending1, Appended, Steps
  <1>5. ASSUME NEW p \in Proc, JRefuse(p)
        PROVE  JInv'
    BY <1>5, JournalAssumption DEF JInv, JRefuse, JReady, Pending1, Appended, Steps
  <1>6. CASE JInspect
    BY <1>0, <1>1, <1>6 DEF JInv, JInspect
  <1>7. CASE JFail
    BY <1>0, <1>1, <1>7 DEF JInv, JFail, Steps
  <1> QED  BY <1>1, <1>2, <1>3, <1>4, <1>5, <1>6, <1>7

LEMMA JAppendInv ==
  ASSUME JInv, NEW p \in Proc, NEW e \in AnyEvent, JAppend(p, e)
  PROVE  JInv' /\ SyncedKept /\ DiskKept
  BY JournalAssumption DEF JInv, JAppend, JReady, Pending1, Appended, Steps, SyncedKept, DiskKept

\* The event of a call about transaction t that replay knows.
LEMMA EventTyped ==
  ASSUME NEW d, Sound(d), NEW t, t \in Transactions(d), NEW a \in Action,
         NEW cost \in Int, NEW note \in Note
  PROVE  EventOf(a, t, d[t].run, cost, note) \in AnyEvent
  <1>1. d[t] \in AnyEvent
    BY DEF Sound, Transactions
  <1>2. d[t].run \in Run
    BY <1>1 DEF AnyEvent
  <1>3. t \in Int
    BY DEF Sound, Transactions
  <1> QED  BY <1>2, <1>3 DEF EventOf, AnyEvent

LEMMA JAbortInv ==
  ASSUME JInv, NEW p \in Proc, NEW t, NEW note \in Note, JAbort(p, t, note)
  PROVE  JInv' /\ SyncedKept /\ DiskKept
  <1>1. SyncedKept /\ DiskKept
    BY DEF JAbort, SyncedKept, DiskKept
  <1>2. ASSUME jstep' = "write", jmem = jdisk, State(jmem, t) = "reserved"
        PROVE  jevent' \in AnyEvent
    <2>1. t \in Transactions(jdisk) /\ Sound(jdisk)
      BY <1>2, StateFacts DEF JInv
    <2>2. "aborted_pre_request" \in Action /\ Unsettled \in Int
      BY DEF Action, Unsettled
    <2> QED  BY <1>2, <2>1, <2>2, EventTyped DEF JAbort
  <1> QED
    BY <1>1, <1>2, JournalAssumption DEF JInv, JAbort, Pending1, Appended, Steps

LEMMA AppendFacts ==
  ASSUME NEW d \in Seq(AnyEvent), NEW e \in AnyEvent
  PROVE  /\ Len(Append(d, e)) = Len(d) + 1
         /\ \A i \in DOMAIN d : i \in DOMAIN Append(d, e) /\ Append(d, e)[i] = d[i]
         /\ \A n \in 0 .. Len(d) : SubSeq(Append(d, e), 1, n) = SubSeq(d, 1, n)
  <1>1. /\ Append(d, e) \in Seq(AnyEvent) /\ Len(Append(d, e)) = Len(d) + 1
        /\ DOMAIN Append(d, e) = 1 .. Len(d) + 1
        /\ DOMAIN d = 1 .. Len(d) /\ Len(d) \in Nat
    OBVIOUS
  <1>2. \A i \in 1 .. Len(d) : Append(d, e)[i] = d[i]
    OBVIOUS
  <1> QED  BY <1>1, <1>2

\* The authorization appended.
LEMMA AuthorizedState ==
  ASSUME NEW d \in Seq(AnyEvent), NEW e \in AnyEvent,
         e.action = "request_authorized", State(d, e.tx) = "reserved"
  PROVE  State(Append(d, e), e.tx) = "request_authorized"
  <1> DEFINE s == Append(d, e)
  <1>1. /\ DOMAIN s = 1 .. Len(d) + 1 /\ DOMAIN d = 1 .. Len(d) /\ Len(d) \in Nat
        /\ s[Len(d) + 1] = e /\ \A i \in DOMAIN d : s[i] = d[i]
    OBVIOUS
  <1> HIDE DEF s
  <1>2. \A a : Has(s, e.tx, a) <=> Has(d, e.tx, a) \/ e.action = a
    BY <1>1 DEF Has
  <1>3. ~Has(d, e.tx, "committed") /\ ~Has(d, e.tx, "aborted_pre_request")
    BY DEF State
  <1> QED  BY <1>2, <1>3 DEF State, s

LEMMA JReplaceInv ==
  ASSUME JInv, JReplace
  PROVE  JInv' /\ SyncedKept /\ DiskKept
  <1>1. /\ Sound(jdisk) /\ Replays(jdisk) /\ IsPrefixOf(jsynced, jdisk) /\ Pending1
        /\ jlock # Nobody /\ jmem = jdisk
    BY DEF JInv, JReplace
  <1>2. jdisk \in Seq(AnyEvent)
    BY <1>1 DEF Sound
  <1>3. CASE jevent = Creation
    <2>1. jdisk' = jdisk /\ jdisk' = Appended'
      BY <1>1, <1>3 DEF JReplace, Appended
    <2> QED  BY <1>1, <2>1 DEF JInv, JReplace, Steps, SyncedKept, DiskKept
  <1>4. CASE jevent # Creation
    <2>1. jevent \in AnyEvent /\ Admissible(jdisk, jevent)
      BY <1>1, <1>4 DEF Pending1
    <2>2. jdisk' = Append(jdisk, jevent) /\ jdisk' = Appended'
      BY <1>1, <1>4 DEF JReplace, Appended
    <2>3. Sound(jdisk') /\ Replays(jdisk')
      BY <1>1, <1>2, <2>1, <2>2, AppendSound, AppendReplays
    <2>4. DiskKept
      BY <1>2, <2>1, <2>2, AppendFacts DEF DiskKept
    <2>5. IsPrefixOf(jsynced', jdisk')
      <3>1. PICK n \in 0 .. Len(jdisk) : jsynced = SubSeq(jdisk, 1, n)
        BY <1>1 DEF IsPrefixOf
      <3>2. SubSeq(jdisk', 1, n) = SubSeq(jdisk, 1, n) /\ n \in 0 .. Len(jdisk')
        <4>1. Len(jdisk) \in Nat /\ Len(jdisk') = Len(jdisk) + 1
          <5>1. Len(Append(jdisk, jevent)) = Len(jdisk) + 1
            BY <1>2, <2>1, AppendFacts
          <5> QED  BY <1>2, <2>2, <5>1
        <4>2. SubSeq(jdisk', 1, n) = SubSeq(jdisk, 1, n)
          BY <1>2, <2>1, <2>2, AppendFacts
        <4> QED  BY <4>1, <4>2
      <3> QED  BY <3>1, <3>2 DEF IsPrefixOf, JReplace
    <2> QED  BY <1>1, <2>2, <2>3, <2>4, <2>5 DEF JInv, JReplace, Steps, SyncedKept
  <1> QED  BY <1>3, <1>4

LEMMA JSyncInv ==
  ASSUME JInv, JSync
  PROVE  JInv' /\ SyncedKept /\ DiskKept
  <1>1. Sound(jdisk) /\ Replays(jdisk) /\ IsPrefixOf(jdisk, jdisk)
    BY PrefixReflexive DEF JInv
  <1>2. SyncedKept /\ DiskKept
    BY PrefixFacts DEF JInv, JSync, SyncedKept, DiskKept
  <1> QED  BY <1>1, <1>2 DEF JInv, JSync, Steps

LEMMA JWorkInv ==
  ASSUME JInv, JWork
  PROVE  JInv' /\ SyncedKept /\ DiskKept
  <1>1. CASE JWrite
    BY <1>1 DEF JInv, JWrite, Pending1, Steps, SyncedKept, DiskKept
  <1>2. CASE JFail
    BY <1>2, JQuietInv DEF JFail
  <1> QED  BY <1>1, <1>2, JReplaceInv, JSyncInv DEF JWork

LEMMA JPowerLossInv ==
  ASSUME JInv, JPowerLoss
  PROVE  JInv' /\ SyncedKept
  <1>1. Sound(jdisk) /\ Replays(jdisk) /\ IsPrefixOf(jsynced, jdisk)
    BY DEF JInv
  <1>2. PICK n \in Len(jsynced) .. Len(jdisk) :
          jdisk' = SubSeq(jdisk, 1, n) /\ jsynced' = SubSeq(jdisk, 1, n)
    BY DEF JPowerLoss
  <1>3. /\ n \in 0 .. Len(jdisk) /\ jdisk \in Seq(AnyEvent) /\ Len(jdisk) \in Nat
        /\ Len(jsynced) \in Nat /\ Len(jsynced) <= n
        /\ jsynced = SubSeq(jdisk, 1, Len(jsynced))
    BY <1>1, <1>2, PrefixFacts DEF Sound
  <1>4. Sound(jdisk') /\ Replays(jdisk') /\ IsPrefixOf(jsynced', jdisk')
    BY <1>1, <1>2, <1>3, PrefixSound, PrefixReplays, PrefixReflexive
  <1>5. SyncedKept
    BY <1>2, <1>3 DEF SyncedKept
  <1> QED  BY <1>4, <1>5 DEF JInv, JPowerLoss, Steps
-----------------------------------------------------------------------------
(* Types.  A document has room for the event that is being written; the one  *)
(* a process believes in is itself sound, also after an append that raised.  *)

Asked == [action : Action, tx : 1 .. MaxRevision + 1, run : Run, cost : Int, note : Note]

JTypes ==
    /\ JTypeOK
    /\ Len(jdisk) <= MaxRevision /\ Len(jmem) <= MaxRevision
    /\ Sound(jmem)
    /\ jstep \in {"write", "replace"} /\ jevent # Creation => Len(jdisk) < MaxRevision

LEMMA StateKnown ==
  ASSUME NEW d, NEW t
  PROVE  State(d, t) \in {"committed", "aborted_pre_request", "request_authorized", "reserved",
                          "unknown"}
  BY DEF State

\* A transaction of a document has a number that fits, and a run.
LEMMA TransactionTyped ==
  ASSUME NEW d \in Seq(Event), Len(d) <= MaxRevision, Sound(d), NEW t,
         State(d, t) # "unknown" \/ t \in Transactions(d)
  PROVE  t \in 1 .. MaxRevision /\ d[t].run \in Run
  <1>0. ASSUME State(d, t) = "aborted_pre_request"
        PROVE  t \in Transactions(d)
    <2>1. PICK i \in DOMAIN d : d[i].tx = t /\ d[i].action = "aborted_pre_request"
      BY <1>0, StateFacts
    <2>2. DOMAIN d = 1 .. Len(d) /\ Len(d) \in Nat
      OBVIOUS
    <2>3. i \in Nat /\ t \in 1 .. i - 1 /\ d[t].action = "reserved"
      BY <2>1, <2>2 DEF Sound, TxEarlier
    <2>4. t \in DOMAIN d
      BY <2>2, <2>3
    <2> QED  BY <2>3, <2>4 DEF Transactions
  <1>1. t \in Transactions(d)
    <2>1. State(d, t) \in {"reserved", "request_authorized", "committed"} => t \in Transactions(d)
      BY StateFacts
    <2> QED  BY <1>0, <2>1, StateKnown
  <1>2. t \in DOMAIN d /\ d[t] \in Event /\ Len(d) \in Nat
    BY <1>1 DEF Transactions
  <1>3. t \in 1 .. Len(d)
    BY <1>2
  <1> QED  BY <1>2, <1>3, JournalAssumption DEF Event

\* An append is asked for.
LEMMA JAppendTyped ==
  ASSUME JInv, JTypes, NEW p \in Proc, NEW e \in Asked, JAppend(p, e)
  PROVE  JTypes'
  <1>1. /\ jmem = jdisk /\ jstep' \in {"write", "raised"} /\ jevent' = e
        /\ UNCHANGED <<jdisk, jsynced, jtmp, jlock, jmem>>
    BY JournalAssumption DEF JInv, JAppend, JReady
  <1>2. ASSUME jstep' = "write"
        PROVE  e \in Event /\ Len(jdisk) < MaxRevision
    <2>1. Admissible(jmem, e) /\ Len(jmem) < MaxRevision
      BY <1>2 DEF JAppend
    <2>2. e.cost \in Unsettled .. MaxCost
      BY <2>1, JournalAssumption DEF Admissible, Unsettled
    <2> QED  BY <1>1, <2>1, <2>2 DEF Asked, Event
  <1> QED  BY <1>1, <1>2 DEF JTypes, JTypeOK, Asked, Steps

LEMMA JRefuseTyped ==
  ASSUME JTypes, NEW p, JRefuse(p)
  PROVE  JTypes'
  BY DEF JTypes, JTypeOK, JRefuse, Steps

\* The event of a call about a transaction replay knows.
LEMMA AskedTyped ==
  ASSUME JTypes, NEW t, State(jmem, t) # "unknown", NEW a \in Action, NEW cost \in Int,
         NEW note \in Note
  PROVE  EventOf(a, t, jmem[t].run, cost, note) \in Asked
  <1>1. t \in 1 .. MaxRevision /\ jmem[t].run \in Run
    BY TransactionTyped DEF JTypes, JTypeOK
  <1>2. t \in 1 .. MaxRevision + 1
    BY <1>1, JournalAssumption
  <1> QED  BY <1>1, <1>2 DEF EventOf, Asked

\* The calls of a runner.
JCall(p) ==
    \/ UNCHANGED journalVars \/ JOpen(p) \/ JClose(p)
    \/ \E r \in Run, note \in Note : JReserve(p, r, note)
    \/ \E t, n : \E note \in Note : JAuthorize(p, t, n, note)
    \/ \E t : \E note \in Note : JResume(p, t, note) \/ JAbort(p, t, note)
    \/ \E t : \E cost \in Int, note \in Note : JCommit(p, t, cost, note)

LEMMA JCallTyped ==
  ASSUME JInv, JTypes, NEW p \in Proc, JCall(p)
  PROVE  JTypes'
  <1>0. /\ Action = {"reserved", "request_authorized", "trial_resume_authorized",
                     "committed", "aborted_pre_request"}
        /\ Unsettled \in Int
    BY DEF Action, Unsettled
  <1>1. UNCHANGED journalVars => JTypes'
    BY DEF JTypes, JTypeOK, journalVars
  <1>2. CASE JOpen(p)
    <2>1. Sound(jdisk)
      BY DEF JInv
    <2> QED  BY <1>2, <2>1 DEF JTypes, JTypeOK, JOpen, Steps
  <1>3. CASE JClose(p)
    <2>1. << >> \in Seq(Event) /\ Len(<< >>) = 0
      OBVIOUS
    <2> QED
      BY <1>3, <2>1, EmptySound, JournalAssumption DEF JTypes, JTypeOK, JClose, Steps
  <1>4. ASSUME NEW r \in Run, NEW note \in Note, JReserve(p, r, note)
        PROVE  JTypes'
    <2> DEFINE e == EventOf("reserved", Len(jmem) + 1, r, Unsettled, note)
    <2>1. jmem \in Seq(Event) /\ Len(jmem) <= MaxRevision
      BY DEF JTypes, JTypeOK
    <2>2. Len(jmem) + 1 \in 1 .. MaxRevision + 1
      BY <2>1, JournalAssumption
    <2>3. e \in Asked
      BY <1>0, <2>2 DEF EventOf, Asked
    <2>4. JAppend(p, e) \/ JRefuse(p) \/ UNCHANGED journalVars
      BY <1>4 DEF JReserve
    <2> HIDE DEF e
    <2> QED  BY <1>1, <2>3, <2>4, JAppendTyped, JRefuseTyped
  <1>5. ASSUME NEW t, NEW n, NEW note \in Note, JAuthorize(p, t, n, note)
        PROVE  JTypes'
    <2> DEFINE e == EventOf("request_authorized", t, jmem[t].run, Unsettled, note)
    <2>1. CASE State(jmem, t) = "reserved"
      <3>1. e \in Asked
        BY <1>0, <2>1, AskedTyped
      <3>2. JAppend(p, e) \/ JRefuse(p)
        BY <1>5 DEF JAuthorize
      <3> HIDE DEF e
      <3> QED  BY <3>1, <3>2, JAppendTyped, JRefuseTyped
    <2> QED  BY <1>5, <2>1, JRefuseTyped DEF JAuthorize
  <1>6. ASSUME NEW t, NEW note \in Note, JResume(p, t, note)
        PROVE  JTypes'
    <2> DEFINE e == EventOf("trial_resume_authorized", t, jmem[t].run, Unsettled, note)
    <2>1. CASE State(jmem, t) = "request_authorized"
      <3>1. e \in Asked
        BY <1>0, <2>1, AskedTyped
      <3>2. JAppend(p, e) \/ JRefuse(p)
        BY <1>6 DEF JResume
      <3> HIDE DEF e
      <3> QED  BY <3>1, <3>2, JAppendTyped, JRefuseTyped
    <2> QED  BY <1>6, <2>1, JRefuseTyped DEF JResume
  <1>7. ASSUME NEW t, NEW cost \in Int, NEW note \in Note, JCommit(p, t, cost, note)
        PROVE  JTypes'
    <2> DEFINE e == EventOf("committed", t, jmem[t].run, cost, note)
    <2>1. CASE State(jmem, t) = "request_authorized"
      <3>1. e \in Asked
        BY <1>0, <2>1, AskedTyped
      <3>2. JAppend(p, e)
        <4>1. Events(jmem, t, "committed") = {}
          BY <2>1 DEF State, Has, Events
        <4> QED  BY <1>7, <2>1, <4>1 DEF JCommit
      <3> HIDE DEF e
      <3> QED  BY <3>1, <3>2, JAppendTyped
    <2>2. CASE State(jmem, t) # "request_authorized"
      BY <1>1, <1>7, <2>2, JRefuseTyped DEF JCommit
    <2> QED  BY <2>1, <2>2
  <1>8. ASSUME NEW t, NEW note \in Note, JAbort(p, t, note)
        PROVE  JTypes'
    <2> DEFINE e == EventOf("aborted_pre_request", t, jmem[t].run, Unsettled, note)
    <2>1. State(jmem, t) # "unknown"
      BY <1>8 DEF JAbort
    <2>2. e \in Asked /\ jevent' = e
      BY <1>0, <1>8, <2>1, AskedTyped DEF JAbort
    <2>3. /\ UNCHANGED <<jdisk, jsynced, jtmp, jlock>> /\ jmem' \in {jmem, jdisk}
          /\ jstep' \in {"idle", "raised", "write"}
          /\ jstep' = "write" => jmem = jdisk /\ Len(jmem) < MaxRevision
      BY <1>8 DEF JAbort
    <2>4. e \in Asked => e \in Event
      BY JournalAssumption DEF EventOf, Asked, Event, Unsettled
    <2>5. /\ jdisk \in Seq(Event) /\ Len(jdisk) <= MaxRevision /\ Sound(jdisk)
          /\ jmem \in Seq(Event) /\ Len(jmem) <= MaxRevision /\ Sound(jmem)
      BY DEF JTypes, JTypeOK, JInv
    <2> HIDE DEF e
    <2>6. jmem' \in Seq(Event) /\ Len(jmem') <= MaxRevision /\ Sound(jmem')
      BY <2>3, <2>5
    <2>7. JTypeOK'
      BY <2>2, <2>3, <2>4, <2>6 DEF JTypes, JTypeOK, Asked, Steps
    <2> QED  BY <2>3, <2>5, <2>6, <2>7 DEF JTypes
  <1> QED  BY <1>1, <1>2, <1>3, <1>4, <1>5, <1>6, <1>7, <1>8 DEF JCall

\* The append moves on.
LEMMA JWorkTyped ==
  ASSUME JInv, JInv', JTypes, JWork
  PROVE  JTypes'
  <1>1. CASE JWrite
    BY <1>1 DEF JTypes, JTypeOK, JWrite, Steps
  <1>2. CASE JFail
    BY <1>2 DEF JTypes, JTypeOK, JFail, Steps
  <1>3. ASSUME jevent # Creation, jevent \in Event, Len(jmem) < MaxRevision
        PROVE  Appended \in Seq(Event) /\ Len(Appended) <= MaxRevision
    <2>1. jmem \in Seq(Event) /\ Len(jmem) \in Nat
      BY DEF JTypes, JTypeOK
    <2>2. Append(jmem, jevent) \in Seq(Event) /\ Len(Append(jmem, jevent)) = Len(jmem) + 1
      BY <1>3, <2>1
    <2> QED  BY <1>3, <2>1, <2>2, JournalAssumption DEF Appended
  <1>4. CASE JReplace
    <2>1. /\ jmem = jdisk /\ jstep = "replace" /\ jstep' = "sync" /\ jdisk' = Appended
          /\ UNCHANGED <<jsynced, jlock, jmem, jevent>> /\ jtmp' = FALSE
      BY <1>4, JournalAssumption DEF JInv, JReplace
    <2>2. jevent # Creation => jevent \in Event /\ Len(jmem) < MaxRevision
      BY <2>1 DEF JTypes, JTypeOK
    <2>3. jdisk' \in Seq(Event) /\ Len(jdisk') <= MaxRevision
      BY <1>3, <2>1, <2>2 DEF Appended, JTypes, JTypeOK
    <2> QED  BY <2>1, <2>3 DEF JTypes, JTypeOK, Steps
  <1>5. CASE JSync
    <2>1. jmem' = jdisk /\ jsynced' = jdisk /\ jdisk' = jdisk /\ Sound(jdisk)
      BY <1>5 DEF JInv, JSync
    <2> QED  BY <1>5, <2>1 DEF JTypes, JTypeOK, JSync, Steps
  <1> QED  BY <1>1, <1>2, <1>4, <1>5 DEF JWork

\* The machine stops, or the operator looks.
LEMMA JPowerLossTyped ==
  ASSUME JInv, JTypes, JPowerLoss
  PROVE  JTypes'
  <1>1. Sound(jdisk) /\ IsPrefixOf(jsynced, jdisk)
    BY DEF JInv
  <1>2. PICK n \in Len(jsynced) .. Len(jdisk) :
          jdisk' = SubSeq(jdisk, 1, n) /\ jsynced' = SubSeq(jdisk, 1, n)
    BY DEF JPowerLoss
  <1>3. /\ n \in 0 .. Len(jdisk) /\ jdisk \in Seq(Event) /\ Len(jdisk) \in Nat
        /\ Len(jdisk) <= MaxRevision
    BY <1>1, <1>2, PrefixFacts DEF JTypes, JTypeOK, Sound
  <1>4. SubSeq(jdisk, 1, n) \in Seq(Event) /\ Len(SubSeq(jdisk, 1, n)) = n
    BY <1>3
  <1>5. << >> \in Seq(Event) /\ Len(<< >>) = 0
    OBVIOUS
  <1>6. /\ jlock' = Nobody /\ jmem' = << >> /\ jstep' = "idle" /\ jevent' = Creation
        /\ jtmp' \in BOOLEAN
    BY DEF JPowerLoss
  <1>7. Len(jdisk') <= MaxRevision /\ Len(jmem') <= MaxRevision
    BY <1>2, <1>3, <1>4, <1>5, <1>6, JournalAssumption
  <1> QED  BY <1>2, <1>4, <1>5, <1>6, <1>7, EmptySound DEF JTypes, JTypeOK, Steps

LEMMA JInspectTyped == JTypes /\ JInspect => JTypes'
  BY DEF JTypes, JTypeOK, JInspect

LEMMA JInitTyped == JInit => JTypes
  <1>1. << >> \in Seq(Event) /\ Len(<< >>) = 0
    OBVIOUS
  <1>2. JInit => JTypeOK
    BY <1>1 DEF JInit, JTypeOK, Steps
  <1> QED  BY <1>1, <1>2, EmptySound, JournalAssumption DEF JInit, JTypes
-----------------------------------------------------------------------------
(* The ledger (LedgerKept).  No call touches what is durable, only the sync  *)
(* of the directory does; what it adds continues what was there.             *)

LEMMA JCallKeeps ==
  ASSUME NEW p, JCall(p)
  PROVE  SyncedKept
  <1>1. \A e : JAppend(p, e) => jsynced' = jsynced
    BY DEF JAppend
  <1>2. JRefuse(p) \/ UNCHANGED journalVars => jsynced' = jsynced
    BY DEF JRefuse, journalVars
  <1>3. JOpen(p) \/ JClose(p) => jsynced' = jsynced
    BY DEF JOpen, JClose
  <1>4. \A r, note : JReserve(p, r, note) => jsynced' = jsynced
    BY <1>1, <1>2 DEF JReserve
  <1>5. \A t, n, note : JAuthorize(p, t, n, note) => jsynced' = jsynced
    BY <1>1, <1>2 DEF JAuthorize
  <1>6. \A t, note : JResume(p, t, note) \/ JAbort(p, t, note) => jsynced' = jsynced
    BY <1>1, <1>2 DEF JResume, JAbort
  <1>7. \A t, amount, note : JCommit(p, t, amount, note) => jsynced' = jsynced
    BY <1>1, <1>2 DEF JCommit
  <1>8. jsynced' = jsynced
    BY <1>2, <1>3, <1>4, <1>5, <1>6, <1>7 DEF JCall
  <1> QED  BY <1>8 DEF SyncedKept

LEMMA LedgerInit == JInit => Ledger!Init
  <1>1. jsynced = <<>> => Transactions(jsynced) = {}
    BY DEF Transactions
  <1>2. jsynced = <<>> => Entries = << >>
    BY <1>1 DEF Entries
  <1> QED  BY <1>2 DEF JInit, Ledger!Init

\* The ledger's sum of its charges is what the journal calls its exposure.
LEMMA LedgerSum ==
  ASSUME Sound(jsynced), Replays(jsynced)
  PROVE  Ledger!MapThenSumSet(LAMBDA i : Entries[i].charge, DOMAIN Entries) <= Total
  <1> DEFINE S == Transactions(jsynced)
             w == [t \in S |-> Charge(jsynced, t)]
             Charges(G) == G = [s \in SUBSET S |->
               IF s = {} THEN 0
               ELSE Entries[CHOOSE t \in s : TRUE].charge + G[s \ {CHOOSE t \in s : TRUE}]]
             F == CHOOSE G : Charges(G)
  <1>1. IsFiniteSet(S)
    BY TransactionsFinite
  <1>2. DOMAIN Entries = S
    BY DEF Entries
  <1>3. ASSUME NEW G
        PROVE  Charges(G) <=> SumsOf(G, w, S)
    <2>1. \A s \in SUBSET S : s # {} =>
            w[CHOOSE t \in s : TRUE] = Entries[CHOOSE t \in s : TRUE].charge
      BY DEF Entries
    <2> HIDE DEF S, w
    <2> QED  BY <2>1 DEF SumsOf
  <1>4. Ledger!MapThenSumSet(LAMBDA i : Entries[i].charge, DOMAIN Entries) = F[S]
    BY <1>2 DEF Ledger!MapThenSumSet, Ledger!MapThenFoldSet
  <1> HIDE DEF Charges, w, S
  <1>5. \E G : Charges(G)
    BY <1>1, <1>3, SumsExist
  <1>6. SumsOf(F, w, S)
    BY <1>3, <1>5
  <1>7. PICK G : SumsOf(G, w, S) /\ SumOver(w, S) = G[S]
    BY <1>1, SumOverIs
  <1>8. F[S] = G[S]
    BY <1>1, <1>6, <1>7, SumsSame
  <1>9. SumOver(w, S) = Exposure(jsynced)
    BY ExposureIs DEF w, S
  <1>10. Exposure(jsynced) <= Total
    BY ReplaysWithin DEF Sound
  <1> QED  BY <1>4, <1>7, <1>8, <1>9, <1>10

\* The states of an entry.
Settings == {"reserved", "request_authorized", "committed", "aborted_pre_request"}

LEMMA EntryState ==
  ASSUME NEW d, Sound(d), NEW t \in Transactions(d)
  PROVE  State(d, t) \in Settings
  BY DEF Settings, State, Has, Transactions, Sound, TxEarlier

LEMMA LedgerSound == Sound(jsynced) /\ Replays(jsynced) => Ledger!Sound(Entries)
  <1> SUFFICES ASSUME Sound(jsynced), Replays(jsynced)
               PROVE  Ledger!Sound(Entries)
    OBVIOUS
  <1>1. DOMAIN Entries = Transactions(jsynced)
    BY DEF Entries
  <1>2. ASSUME NEW t \in Transactions(jsynced)
        PROVE  /\ Entries[t].run = jsynced[t].run /\ Entries[t].state = State(jsynced, t)
               /\ Entries[t].charge = Charge(jsynced, t)
    BY DEF Entries
  <1>3. ASSUME NEW t \in Transactions(jsynced)
        PROVE  Ledger!Charged(Entries[t])
    <2>1. State(jsynced, t) \in Settings
      BY EntryState
    <2> QED  BY <1>2, <2>1, ChargeFacts DEF Ledger!Charged, Settings
  <1>4. ASSUME NEW t \in Transactions(jsynced), NEW u \in Transactions(jsynced),
               Entries[t].run = Entries[u].run,
               Entries[t].state # "aborted_pre_request", Entries[u].state # "aborted_pre_request"
        PROVE  t = u
    BY <1>2, <1>4, OneEntry
  <1> QED  BY <1>1, <1>3, <1>4, LedgerSum DEF Ledger!Sound

LEMMA LedgerStep ==
  ASSUME JInv, JInv', SyncedKept
  PROVE  [Ledger!Next]_Entries
  <1>1. Sound(jsynced) /\ Replays(jsynced)
    BY SyncedSound
  <1>2. (Sound(jsynced) /\ Replays(jsynced))'
    BY SyncedSound, PTL
  <1>3. Ledger!Sound(Entries)'
    BY <1>2, LedgerSound, PTL
  <1>4. DOMAIN Entries = Transactions(jsynced) /\ DOMAIN Entries' = Transactions(jsynced')
    BY DEF Entries
  <1>5. ASSUME NEW t \in Transactions(jsynced)
        PROVE  /\ t \in Transactions(jsynced')
               /\ Entries'[t].run = Entries[t].run
               /\ <<Entries[t].state, Entries'[t].state>> \in Ledger!Advances
               /\ Entries[t].state = "committed" => Entries'[t].charge = Entries[t].charge
    <2>1. /\ t \in Transactions(jsynced') /\ jsynced'[t].run = jsynced[t].run
          /\ State(jsynced, t) # "reserved" =>
                \/ State(jsynced', t) = State(jsynced, t)
                \/ /\ State(jsynced, t) = "request_authorized"
                   /\ State(jsynced', t) = "committed"
          /\ State(jsynced, t) = "committed" => Charge(jsynced', t) = Charge(jsynced, t)
      BY <1>1, <1>2, Continued DEF SyncedKept
    <2>2. State(jsynced, t) \in Settings /\ State(jsynced', t) \in Settings
      BY <1>1, <1>2, <2>1, EntryState
    <2>3. <<State(jsynced, t), State(jsynced', t)>> \in Ledger!Advances
      BY <2>1, <2>2 DEF Ledger!Advances, Settings
    <2>4. /\ Entries[t].run = jsynced[t].run /\ Entries[t].state = State(jsynced, t)
          /\ Entries[t].charge = Charge(jsynced, t)
      BY DEF Entries
    <2>5. /\ Entries'[t].run = jsynced'[t].run /\ Entries'[t].state = State(jsynced', t)
          /\ Entries'[t].charge = Charge(jsynced', t)
      BY <2>1 DEF Entries
    <2> QED  BY <2>1, <2>3, <2>4, <2>5
  <1>6. Transactions(jsynced) \subseteq Transactions(jsynced')
    BY <1>5
  <1> QED  BY <1>3, <1>4, <1>5, <1>6 DEF Ledger!Next
=============================================================================
