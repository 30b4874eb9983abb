--------------------------- MODULE VersionChainProofs ------------------------
(***************************************************************************)
(* The version chain of one tuple, for every set of updaters.              *)
(*                                                                         *)
(* What the versions of a tuple look like depends on how far each updater  *)
(* has got with it: its phase.  KeyOK says, of the version headers h, the  *)
(* index entry hd, the phases ph and the set del of the updaters that      *)
(* delete the tuple, what holds between any two steps.  Each step of an    *)
(* updater is a change of these four values: the lemmas here are free of   *)
(* the variables of the program, and TimestampProofs applies them to it.   *)
(***************************************************************************)
EXTENDS TimestampOrdering, WellFoundedInduction, FiniteSetTheorems, TLAPS

PhaseNames == {"none", "written", "c1", "c2", "c3", "a1", "installed", "undone"}

-----------------------------------------------------------------------------
(* The versions of one tuple.                                              *)

\* The committed versions, from the step that releases them ...
InChain(v, ph) == v = Loader \/ (v \in Updaters /\ ph[v] \in {"c3", "installed"})
\* ... and the updater that has a version on top of them.
Owns(t, ph) == t \in Updaters /\ ph[t] \in {"written", "c1", "c2", "a1"}

\* v is the newest committed version up to s.
Newest(v, s, ph) == /\ v \in Versions /\ InChain(v, ph) /\ v <= s
                    /\ \A w \in Versions : InChain(w, ph) /\ w <= s => w <= v

\* v is the newest of all.
Top(v, ph) == \A w \in Versions : InChain(w, ph) => w <= v

\* The committed versions are linked in the order of their commit ids, and the
\* life of one ends where that of the next begins.
LinkOK(v, h, ph, del) ==
  /\ h[v].begin = v
  /\ h[v].txn = INVALID_TXN_ID <=> v \in del
  /\ h[v].prev = NULL \/ InChain(h[v].prev, ph) \/ (Owns(h[v].prev, ph) /\ Top(v, ph))
  /\ v # Loader => /\ h[v].next \in Versions /\ InChain(h[v].next, ph)
                   /\ h[v].next < v
  /\ v = Loader => h[v].next = NULL
  /\ \/ h[v].end = MAX_CID
     \/ /\ h[v].end \in Updaters /\ v < h[v].end /\ h[h[v].end].next = v
        /\ InChain(h[v].end, ph) \/ ph[h[v].end] = "c2"
  /\ \A w \in Versions : InChain(w, ph) /\ v < w =>
       h[v].end <= w /\ v <= h[w].next

ChainOK(h, ph, del) == \A v \in Versions : InChain(v, ph) => LinkOK(v, h, ph, del)

\* An updater that has written the tuple owns the newest committed version and
\* its own, which is on top of it and which the index entry leads to until it
\* is rolled back.
OwnedOK(t, h, hd, ph) ==
  LET old == h[t].next
  IN  /\ old \in Versions /\ InChain(old, ph) /\ old < t
      /\ \A w \in Versions : InChain(w, ph) => w <= old
      /\ h[t].txn = t /\ h[t].prev = NULL
      /\ h[t].begin = IF ph[t] \in {"c1", "c2"} THEN t ELSE MAX_CID
      /\ ph[t] \in {"c1", "c2"} => h[t].end = MAX_CID
      /\ h[old].txn = t /\ h[old].prev = t /\ t <= h[old].reader
      /\ h[old].end = IF ph[t] = "c2" THEN t ELSE MAX_CID
      /\ hd = IF ph[t] = "a1" THEN old ELSE t

OwnerOK(h, hd, ph) == \A t \in Updaters : Owns(t, ph) => OwnedOK(t, h, hd, ph)

\* Nobody else owns a version.
HeldOK(v, h, ph) ==
  /\ h[v].txn = INITIAL_TXN_ID => InChain(v, ph)
  /\ \A u \in Updaters : h[v].txn = u =>
       \/ Owns(u, ph) /\ (v = u \/ v = h[u].next)
       \/ ph[u] = "c3" /\ v = h[u].next
  /\ ~InChain(v, ph) /\ ~Owns(v, ph) => h[v].begin = MAX_CID

TxnOK(h, ph) == /\ \A v \in Versions : HeldOK(v, h, ph)
                /\ \A t \in Updaters : ph[t] = "c3" => h[h[t].next].txn = t

\* The index entry leads to the newest version.
HeadOK(h, hd, ph) ==
  /\ InChain(hd, ph) \/ Owns(hd, ph)
  /\ InChain(hd, ph) => \A w \in Versions : InChain(w, ph) => w <= hd
  /\ (\A t \in Updaters : ~Owns(t, ph)) => h[hd].prev = NULL

Headers == [txn : {INVALID_TXN_ID, INITIAL_TXN_ID} \cup Updaters,
            begin : Nat, end : Nat,
            prev : Versions \cup {NULL}, next : Versions \cup {NULL},
            reader : Nat]

KeyType(h, hd, ph, del) == /\ h \in [Versions -> Headers] /\ hd \in Versions
                           /\ ph \in [Updaters -> PhaseNames]
                           /\ del \in SUBSET Updaters

KeyOK(h, hd, ph, del) ==
  /\ KeyType(h, hd, ph, del)
  /\ ChainOK(h, ph, del) /\ OwnerOK(h, hd, ph) /\ TxnOK(h, ph) /\ HeadOK(h, hd, ph)

\* What a step of updater a may do to a version that others are looking at.
SafeFor(a, v, h, ph, del, h2, ph2, del2) ==
  /\ InChain(v, ph) => InChain(v, ph2) /\ (v \in del2 <=> v \in del)
  /\ InChain(v, ph2) /\ ~InChain(v, ph) => v = a /\ ph[v] = "c2"
  /\ InChain(v, ph) => h[v].reader <= h2[v].reader
  /\ v \in Updaters /\ ph[v] # "none" => ph2[v] # "none" /\ h2[v].next = h[v].next
  /\ \A u \in Updaters \ {a} :
       /\ h[v].txn = u => h2[v].txn = u
       /\ InChain(v, ph) /\ u <= h[v].reader
          /\ (u < h[v].reader \/ (h[v].txn = INITIAL_TXN_ID /\ h[v].end = MAX_CID))
          => (u < h2[v].reader \/ (h2[v].txn = INITIAL_TXN_ID /\ h2[v].end = MAX_CID))

StepOK(a, h, ph, del, h2, ph2, del2) ==
  \A v \in Versions : SafeFor(a, v, h, ph, del, h2, ph2, del2)

-----------------------------------------------------------------------------
(* Numbers.                                                                *)

\* A nonempty set of numbers has a smallest one.
LEMMA Smallest ==
  ASSUME NEW S \in SUBSET Nat, S # {}
  PROVE  \E x \in S : \A y \in S : x <= y
<1> DEFINE R == OpToRel(<, Nat)
<1>1. \A a, b \in Nat : a < b => <<a, b>> \in R
  BY DEF OpToRel
<1>2. IsWellFoundedOn(R, Nat)
  BY NatLessThanWellFounded
<1> HIDE DEF R
<1>3. S \subseteq Nat /\ S # {} /\ IsWellFoundedOn(R, Nat)
  BY <1>2
<1>4. PICK x \in S : \A y \in S : ~(<<y, x>> \in R)
  BY ONLY <1>3, WFMin
<1>5. \A y \in S : x \in Nat /\ y \in Nat /\ ~(y < x)
  BY <1>1, <1>4
<1>6. QED
  BY <1>5

\* A nonempty finite set of numbers has a largest one.
LEMMA Largest ==
  ASSUME NEW S \in SUBSET Nat, IsFiniteSet(S), S # {}
  PROVE  \E x \in S : \A y \in S : y <= x
<1> DEFINE HasLargest(U) == \E x \in U : \A y \in U : y <= x
           Sizes == {n \in Nat : \E U \in SUBSET S :
                       Cardinality(U) = n /\ U # {} /\ ~HasLargest(U)}
<1>1. SUFFICES ASSUME ~HasLargest(S) PROVE FALSE
  OBVIOUS
<1>2. Cardinality(S) \in Sizes
  BY <1>1, FS_CardinalityType
<1>3. PICK n \in Sizes : \A m \in Sizes : n <= m
  BY <1>2, Smallest
<1>4. PICK U \in SUBSET S : Cardinality(U) = n /\ U # {} /\ ~HasLargest(U)
  BY <1>3
<1>5. PICK x \in U : TRUE
  BY <1>4
<1> DEFINE V == U \ {x}
<1>6. IsFiniteSet(U)
  BY FS_Subset
<1>7. Cardinality(V) = n - 1 /\ n \in Nat /\ Cardinality(V) \in Nat
  <2>1. Cardinality(V) = n - 1
    BY <1>4, <1>5, <1>6, FS_RemoveElement
  <2>2. IsFiniteSet(V)
    BY <1>6, FS_RemoveElement
  <2>3. QED
    BY <2>1, <2>2, <1>3, FS_CardinalityType
<1>8. V # {}
  BY <1>4, <1>5
<1>9. HasLargest(V)
  <2>1. Cardinality(V) \notin Sizes
    BY <1>3, <1>7
  <2>2. V \in SUBSET S
    OBVIOUS
  <2>3. QED
    BY <2>1, <2>2, <1>7, <1>8
<1>10. PICK z \in V : \A y \in V : y <= z
  BY <1>9
<1>11. x \in Nat /\ z \in Nat /\ z \in U
  BY <1>10
<1>12. CASE x <= z
  BY <1>4, <1>10, <1>11, <1>12
<1>13. CASE z < x
  <2>1. \A y \in U : y \in Nat /\ y <= x
    BY <1>10, <1>11, <1>13
  <2>2. QED
    BY <2>1, <1>4
<1>14. QED
  BY <1>11, <1>12, <1>13

\* MAX_CID is larger than every commit id.
LEMMA MaxCid ==
  /\ Versions \subseteq Nat /\ Loader \in Versions /\ Updaters \subseteq Versions
  /\ \A t \in Updaters : t \in Nat /\ t > 1
  /\ MAX_CID \in Nat /\ \A v \in Versions : v < MAX_CID
  /\ Readers \cap Updaters = {} /\ Readers \cap Nat = {}
  /\ Loader \notin Updaters
<1>1. Versions \subseteq Nat /\ Loader \in Versions /\ Updaters \subseteq Versions
  BY UpdatersAssumption DEF Versions, Loader
<1>2. IsFiniteSet(Versions)
  BY UpdatersAssumption, FS_AddElement DEF Versions
<1>3. \E c \in Versions : \A d \in Versions : d <= c
  BY <1>1, <1>2, Largest
<1> DEFINE c == CHOOSE c \in Versions : \A d \in Versions : d <= c
<1>4. c \in Versions /\ \A d \in Versions : d <= c
  BY <1>3
<1>5. MAX_CID = 1 + c
  BY DEF MAX_CID
<1> HIDE DEF c
<1>6. c \in Nat
  BY <1>1, <1>4
<1>7. MAX_CID \in Nat
  BY <1>5, <1>6
<1>8. ASSUME NEW v \in Versions PROVE v < MAX_CID
  <2>1. v \in Nat /\ v <= c
    BY <1>1, <1>4
  <2>2. QED
    BY <2>1, <1>5, <1>6
<1>9. \A t \in Updaters : t \in Nat /\ t > 1
  BY UpdatersAssumption
<1>10. QED
  BY <1>1, <1>7, <1>8, <1>9, UpdatersAssumption, ReadersAssumption DEF Loader

-----------------------------------------------------------------------------
(* The steps, one tuple at a time.                                         *)

\* Facts about phases that every step uses.
LEMMA PhaseFacts ==
  ASSUME NEW ph
  PROVE  /\ InChain(Loader, ph)
         /\ \A v : Owns(v, ph) => v \in Updaters /\ ~InChain(v, ph)
         /\ \A v : InChain(v, ph) => v \in Versions
<1>1. Loader \notin Updaters /\ Updaters \subseteq Versions /\ Loader \in Versions
  BY MaxCid
<1>2. QED
  BY <1>1 DEF InChain, Owns

\* At most one updater owns a version of the tuple.
LEMMA OneOwner ==
  ASSUME NEW h, NEW hd, NEW ph, NEW del, KeyOK(h, hd, ph, del),
         NEW t \in Updaters, NEW u \in Updaters, Owns(t, ph), Owns(u, ph)
  PROVE  t = u
<1> DEFINE a == h[t].next
           b == h[u].next
<1>1. a \in Versions /\ InChain(a, ph) /\ (\A w \in Versions : InChain(w, ph) => w <= a)
      /\ h[a].txn = t
  BY DEF KeyOK, OwnerOK, OwnedOK
<1>2. b \in Versions /\ InChain(b, ph) /\ (\A w \in Versions : InChain(w, ph) => w <= b)
      /\ h[b].txn = u
  BY DEF KeyOK, OwnerOK, OwnedOK
<1> HIDE DEF a, b
<1>3. a <= b /\ b <= a /\ a \in Nat /\ b \in Nat
  BY <1>1, <1>2, MaxCid
<1>4. QED
  BY <1>1, <1>2, <1>3

\* An updater that has released its version still owns the one before.
LEMMA Releasing ==
  ASSUME NEW h, NEW hd, NEW ph, NEW del, KeyOK(h, hd, ph, del),
         NEW u \in Updaters, ph[u] = "c3"
  PROVE  /\ InChain(u, ph) /\ u \in Versions /\ u # Loader
         /\ h[u].next \in Versions /\ InChain(h[u].next, ph) /\ h[u].next < u
         /\ h[h[u].next].txn = u
<1>1. InChain(u, ph) /\ u \in Versions /\ u # Loader
  BY MaxCid DEF InChain
<1>2. QED
  BY <1>1 DEF KeyOK, ChainOK, LinkOK, TxnOK

\* A committed version keeps its place when its commit ids, its link to the
\* older version and its deletion are left alone.
LEMMA ChainFrame ==
  ASSUME NEW h, NEW ph, NEW del, NEW h2, NEW ph2, NEW del2, ChainOK(h, ph, del),
         \A v : InChain(v, ph2) <=> InChain(v, ph),
         \A v \in Versions : InChain(v, ph) =>
           /\ h2[v].begin = h[v].begin /\ h2[v].end = h[v].end /\ h2[v].next = h[v].next
           /\ h2[v].txn = INVALID_TXN_ID <=> h[v].txn = INVALID_TXN_ID
           /\ v \in del2 <=> v \in del
           /\ h2[v].prev = NULL \/ InChain(h2[v].prev, ph)
             \/ (Owns(h2[v].prev, ph2) /\ Top(v, ph)),
         \A u \in Updaters : ph[u] = "c2" => ph2[u] = "c2" /\ h2[u].next = h[u].next
  PROVE  ChainOK(h2, ph2, del2)
<1> SUFFICES ASSUME NEW v \in Versions, InChain(v, ph) PROVE LinkOK(v, h2, ph2, del2)
  BY DEF ChainOK
<1>1. LinkOK(v, h, ph, del)
  BY DEF ChainOK
<1>2. Updaters \subseteq Versions
  BY MaxCid
<1>3. Top(v, ph) => Top(v, ph2)
  BY DEF Top
<1>4. h2[v].prev = NULL \/ InChain(h2[v].prev, ph2)
      \/ (Owns(h2[v].prev, ph2) /\ Top(v, ph2))
  BY <1>3
<1>5. \/ h2[v].end = MAX_CID
      \/ /\ h2[v].end \in Updaters /\ v < h2[v].end /\ h2[h2[v].end].next = v
         /\ InChain(h2[v].end, ph2) \/ ph2[h2[v].end] = "c2"
  BY <1>1, <1>2 DEF LinkOK
<1>6. \A w \in Versions : InChain(w, ph2) /\ v < w =>
        h2[v].end <= w /\ v <= h2[w].next
  BY <1>1 DEF LinkOK
<1>7. QED
  BY <1>1, <1>4, <1>5, <1>6 DEF LinkOK

\* CommitTransaction sets the commit ids of the new version.
LEMMA BeginStep ==
  ASSUME NEW h, NEW hd, NEW ph, NEW del, KeyOK(h, hd, ph, del),
         NEW t \in Updaters, ph[t] = "written", NEW h2, NEW ph2,
         h2 = [h EXCEPT ![t] = [h[t] EXCEPT !.begin = t, !.end = h[h[t].next].end]],
         ph2 = [ph EXCEPT ![t] = "c1"]
  PROVE  KeyOK(h2, hd, ph2, del) /\ StepOK(t, h, ph, del, h2, ph2, del)
<1> DEFINE old == h[t].next
<1>0. KeyType(h, hd, ph, del) /\ ChainOK(h, ph, del) /\ OwnerOK(h, hd, ph)
      /\ TxnOK(h, ph) /\ HeadOK(h, hd, ph) /\ t \in Versions /\ t \in Nat
  BY MaxCid DEF KeyOK
<1>1. Owns(t, ph) /\ OwnedOK(t, h, hd, ph) /\ old \in Versions /\ h[old].end = MAX_CID
      /\ old # t
  <2>1. Owns(t, ph) /\ OwnedOK(t, h, hd, ph)
    BY <1>0 DEF Owns, OwnerOK
  <2>2. QED
    BY <2>1, MaxCid DEF OwnedOK
<1>2. KeyType(h2, hd, ph2, del)
  <2>1. h[t] \in Headers /\ h[old].end \in Nat
    BY <1>0, <1>1 DEF KeyType, Headers
  <2>2. [h[t] EXCEPT !.begin = t, !.end = h[h[t].next].end] \in Headers
    BY <2>1, <1>0 DEF Headers
  <2>3. QED
    BY <2>2, <1>0 DEF KeyType, PhaseNames
<1>3. \A v : (InChain(v, ph2) <=> InChain(v, ph)) /\ (Owns(v, ph2) <=> Owns(v, ph))
  BY <1>0 DEF KeyType, InChain, Owns
<1>4. \A u \in Updaters : ph2[u] = IF u = t THEN "c1" ELSE ph[u]
  BY <1>0 DEF KeyType
<1>5. \A v \in Versions :
        /\ v # t => h2[v] = h[v]
        /\ h2[v].txn = h[v].txn /\ h2[v].prev = h[v].prev /\ h2[v].next = h[v].next
        /\ h2[v].reader = h[v].reader
  BY <1>0, <1>1 DEF KeyType, Headers
<1>6. h2[t].begin = t /\ h2[t].end = MAX_CID
  BY <1>0, <1>1 DEF KeyType, Headers
<1>7. \A u \in Updaters : Owns(u, ph) => u = t
  BY <1>1, OneOwner
<1>8. ~InChain(t, ph)
  BY <1>1, PhaseFacts
<1>9. ChainOK(h2, ph2, del)
  <2>1. \A v \in Versions : InChain(v, ph) => h2[v] = h[v] /\ LinkOK(v, h, ph, del)
    BY <1>0, <1>5, <1>8 DEF ChainOK
  <2>2. \A v \in Versions : InChain(v, ph) =>
          h[v].prev = NULL \/ InChain(h[v].prev, ph)
             \/ (Owns(h[v].prev, ph2) /\ Top(v, ph))
    BY <2>1, <1>3 DEF LinkOK
  <2>3. \A u \in Updaters : ph[u] = "c2" => ph2[u] = "c2" /\ h2[u].next = h[u].next
    BY <1>4, <1>5, MaxCid
  <2>4. QED
    BY ONLY <2>1, <2>2, <2>3, <1>0, <1>3, ChainFrame
<1>10. OwnerOK(h2, hd, ph2)
  <2>1. OwnedOK(t, h2, hd, ph2)
    <3>1. h2[t].next = old /\ h2[old] = h[old] /\ ph2[t] = "c1" /\ ph[t] = "written"
          /\ h2[t].txn = h[t].txn /\ h2[t].prev = h[t].prev
      BY <1>0, <1>1, <1>4, <1>5
    <3>2. QED
      BY ONLY <3>1, <1>1, <1>3, <1>6 DEF OwnedOK
  <2>2. QED
    BY <2>1, <1>3, <1>7 DEF OwnerOK
<1>11. TxnOK(h2, ph2)
  <2>1. ASSUME NEW v \in Versions PROVE HeldOK(v, h2, ph2)
    <3>1. HeldOK(v, h, ph)
      BY <1>0 DEF TxnOK
    <3>2. \A u \in Updaters : h2[u].next = h[u].next
      BY <1>5, MaxCid
    <3>3. h2[v].txn = h[v].txn /\ (v # t => h2[v].begin = h[v].begin)
      BY <1>5
    <3>4. QED
      BY <3>1, <3>2, <3>3, <1>1, <1>3, <1>4 DEF HeldOK
  <2>2. ASSUME NEW u \in Updaters, ph2[u] = "c3" PROVE h2[h2[u].next].txn = u
    BY <2>2, <1>0, <1>4, <1>5, MaxCid DEF TxnOK, KeyType, Headers, ChainOK
  <2>3. QED
    BY <2>1, <2>2 DEF TxnOK
<1>12. HeadOK(h2, hd, ph2)
  BY <1>0, <1>3, <1>5 DEF HeadOK, KeyType
<1>13. StepOK(t, h, ph, del, h2, ph2, del)
  <2>1. ASSUME NEW v \in Versions PROVE SafeFor(t, v, h, ph, del, h2, ph2, del)
    <3>1. h[v].reader <= h2[v].reader
      BY <1>0, <1>5 DEF KeyType, Headers
    <3>2. v # t => h2[v].end = h[v].end
      BY <1>5
    <3>3. h2[v].txn = h[v].txn /\ h2[v].reader = h[v].reader /\ h2[v].next = h[v].next
      BY <1>5
    <3>4. v \in Updaters /\ ph[v] # "none" => ph2[v] # "none"
      BY <1>4
    <3>5. QED
      BY ONLY <3>1, <3>2, <3>3, <3>4, <1>3, <1>8 DEF SafeFor
  <2>2. QED
    BY <2>1 DEF StepOK
<1>14. QED
  BY <1>2, <1>9, <1>10, <1>11, <1>12, <1>13 DEF KeyOK

\* PerformRead raises the last reader of a version.
LEMMA ReadStep ==
  ASSUME NEW h, NEW hd, NEW ph, NEW del, KeyOK(h, hd, ph, del),
         NEW t \in Updaters, NEW r \in Versions, NEW h2,
         h2 = [h EXCEPT ![r] = SetLastReaderCommitId(h[r], t)]
  PROVE  /\ KeyOK(h2, hd, ph, del) /\ StepOK(t, h, ph, del, h2, ph, del)
         /\ t <= h2[r].reader /\ \A v \in Versions : h[v].reader <= h2[v].reader
<1>0. KeyType(h, hd, ph, del) /\ ChainOK(h, ph, del) /\ OwnerOK(h, hd, ph)
      /\ TxnOK(h, ph) /\ HeadOK(h, hd, ph) /\ t \in Versions /\ t \in Nat
  BY MaxCid DEF KeyOK
<1>1. h[r] \in Headers /\ SetLastReaderCommitId(h[r], t) \in Headers
      /\ h2 \in [Versions -> Headers]
  <2>1. h[r] \in Headers
    BY <1>0 DEF KeyType
  <2>2. SetLastReaderCommitId(h[r], t) \in Headers
    BY <2>1, <1>0 DEF SetLastReaderCommitId, Headers
  <2>3. QED
    BY <2>1, <2>2, <1>0 DEF KeyType
<1>2. \A v \in Versions :
        /\ h2[v].txn = h[v].txn /\ h2[v].begin = h[v].begin /\ h2[v].end = h[v].end
        /\ h2[v].prev = h[v].prev /\ h2[v].next = h[v].next
        /\ h2[v].reader \in Nat /\ h[v].reader \in Nat /\ h[v].reader <= h2[v].reader
  BY <1>0, <1>1 DEF SetLastReaderCommitId, KeyType, Headers
<1>3. t <= h2[r].reader
  BY <1>0, <1>1 DEF SetLastReaderCommitId, KeyType, Headers
<1>4. KeyType(h2, hd, ph, del)
  BY ONLY <1>0, <1>1 DEF KeyType
<1>5. ChainOK(h2, ph, del)
  <2>1. \A v \in Versions : InChain(v, ph) => LinkOK(v, h, ph, del)
    BY <1>0 DEF ChainOK
  <2>2. \A v \in Versions : InChain(v, ph) =>
          h[v].prev = NULL \/ InChain(h[v].prev, ph)
             \/ (Owns(h[v].prev, ph) /\ Top(v, ph))
    BY <2>1 DEF LinkOK
  <2>3. \A u \in Updaters : h2[u].next = h[u].next
    BY <1>2, MaxCid
  <2>4. QED
    BY ONLY <2>2, <2>3, <1>0, <1>2, ChainFrame
<1>6. OwnerOK(h2, hd, ph)
  <2>1. ASSUME NEW u \in Updaters, Owns(u, ph) PROVE OwnedOK(u, h2, hd, ph)
    <3> DEFINE old == h[u].next
    <3>1. OwnedOK(u, h, hd, ph) /\ u \in Versions /\ u \in Nat
      BY <2>1, <1>0, MaxCid DEF OwnerOK
    <3>2. old \in Versions /\ u <= h[old].reader
      BY <3>1 DEF OwnedOK
    <3>3. h2[old].txn = h[old].txn /\ h2[old].prev = h[old].prev
          /\ h2[old].end = h[old].end /\ u <= h2[old].reader
      <4> HIDE DEF old
      <4>1. h[old].reader \in Nat /\ h2[old].reader \in Nat
            /\ h[old].reader <= h2[old].reader
        BY ONLY <3>2, <1>2
      <4>2. u <= h2[old].reader
        BY ONLY <3>1, <3>2, <4>1
      <4>3. QED
        BY ONLY <3>2, <4>2, <1>2
    <3>4. h2[u].next = old /\ h2[u].txn = h[u].txn /\ h2[u].prev = h[u].prev
          /\ h2[u].begin = h[u].begin /\ h2[u].end = h[u].end
      BY ONLY <3>1, <1>2
    <3>5. QED
      BY ONLY <3>1, <3>3, <3>4 DEF OwnedOK
  <2>2. QED
    BY <2>1 DEF OwnerOK
<1>7. TxnOK(h2, ph)
  <2>1. \A u \in Updaters : h2[u].next = h[u].next
    BY <1>2, MaxCid
  <2>2. ASSUME NEW v \in Versions PROVE HeldOK(v, h2, ph)
    <3>1. HeldOK(v, h, ph)
      BY <1>0 DEF TxnOK
    <3>2. QED
      BY ONLY <3>1, <2>1, <2>2, <1>2 DEF HeldOK
  <2>3. ASSUME NEW u \in Updaters, ph[u] = "c3" PROVE h2[h2[u].next].txn = u
    <3>1. h[u].next \in Versions
      BY <2>3, Releasing
    <3>2. QED
      BY <3>1, <2>1, <2>3, <1>0, <1>2 DEF TxnOK
  <2>4. QED
    BY <2>2, <2>3 DEF TxnOK
<1>8. HeadOK(h2, hd, ph)
  BY <1>0, <1>2 DEF HeadOK, KeyType
<1>9. StepOK(t, h, ph, del, h2, ph, del)
  <2>1. ASSUME NEW v \in Versions PROVE SafeFor(t, v, h, ph, del, h2, ph, del)
    <3>1. \A u \in Updaters : u \in Nat
      BY MaxCid
    <3>2. QED
      BY ONLY <2>1, <3>1, <1>2 DEF SafeFor
  <2>2. QED
    BY <2>1 DEF StepOK
<1>10. QED
  BY <1>2, <1>3, <1>4, <1>5, <1>6, <1>7, <1>8, <1>9 DEF KeyOK

\* The delete executor deletes a version of its own transaction in place.
LEMMA DeleteStep ==
  ASSUME NEW h, NEW hd, NEW ph, NEW del, KeyOK(h, hd, ph, del),
         NEW t \in Updaters, ph[t] = "written", NEW h2,
         h2 = [h EXCEPT ![t] = [h[t] EXCEPT !.end = INVALID_CID]]
  PROVE  KeyOK(h2, hd, ph, del \cup {t}) /\ StepOK(t, h, ph, del, h2, ph, del \cup {t})
<1> DEFINE old == h[t].next
           del2 == del \cup {t}
<1>0. KeyType(h, hd, ph, del) /\ ChainOK(h, ph, del) /\ OwnerOK(h, hd, ph)
      /\ TxnOK(h, ph) /\ HeadOK(h, hd, ph) /\ t \in Versions /\ t \in Nat
  BY MaxCid DEF KeyOK
<1>1. Owns(t, ph) /\ OwnedOK(t, h, hd, ph) /\ old \in Versions /\ old # t
  <2>1. Owns(t, ph) /\ OwnedOK(t, h, hd, ph)
    BY <1>0 DEF Owns, OwnerOK
  <2>2. QED
    BY <2>1, MaxCid DEF OwnedOK
<1>2. [h[t] EXCEPT !.end = INVALID_CID] \in Headers /\ h2 \in [Versions -> Headers]
      /\ KeyType(h2, hd, ph, del2)
  <2>1. h[t] \in Headers
    BY <1>0 DEF KeyType
  <2>2. [h[t] EXCEPT !.end = INVALID_CID] \in Headers
    BY <2>1 DEF Headers, INVALID_CID
  <2>3. QED
    BY <2>2, <1>0 DEF KeyType
<1>3. \A v \in Versions :
        /\ v # t => h2[v] = h[v]
        /\ h2[v].txn = h[v].txn /\ h2[v].prev = h[v].prev /\ h2[v].next = h[v].next
        /\ h2[v].begin = h[v].begin /\ h2[v].reader = h[v].reader
  BY <1>0 DEF KeyType, Headers
<1>4. \A u \in Updaters : Owns(u, ph) => u = t
  BY <1>1, OneOwner
<1>5. ~InChain(t, ph)
  BY <1>1, PhaseFacts
<1>6. ChainOK(h2, ph, del2)
  <2>1. \A v \in Versions : InChain(v, ph) => h2[v] = h[v] /\ LinkOK(v, h, ph, del)
                                              /\ (v \in del2 <=> v \in del)
    BY <1>0, <1>3, <1>5 DEF ChainOK
  <2>2. \A v \in Versions : InChain(v, ph) =>
          h[v].prev = NULL \/ InChain(h[v].prev, ph)
             \/ (Owns(h[v].prev, ph) /\ Top(v, ph))
    BY <2>1 DEF LinkOK
  <2>3. \A u \in Updaters : h2[u].next = h[u].next
    BY <1>3, MaxCid
  <2>4. QED
    BY ONLY <2>1, <2>2, <2>3, <1>0, ChainFrame
<1>7. OwnerOK(h2, hd, ph)
  <2>1. OwnedOK(t, h2, hd, ph)
    <3>1. h2[t].next = old /\ h2[old] = h[old] /\ h2[t].begin = h[t].begin
          /\ h2[t].txn = h[t].txn /\ h2[t].prev = h[t].prev /\ ph[t] = "written"
      BY <1>0, <1>1, <1>3
    <3>2. QED
      BY ONLY <3>1, <1>1 DEF OwnedOK
  <2>2. QED
    BY <2>1, <1>4 DEF OwnerOK
<1>8. TxnOK(h2, ph)
  <2>1. \A u \in Updaters : h2[u].next = h[u].next
    BY <1>3, MaxCid
  <2>2. ASSUME NEW v \in Versions PROVE HeldOK(v, h2, ph)
    <3>1. HeldOK(v, h, ph)
      BY <1>0 DEF TxnOK
    <3>2. QED
      BY ONLY <3>1, <2>1, <2>2, <1>3 DEF HeldOK
  <2>3. ASSUME NEW u \in Updaters, ph[u] = "c3" PROVE h2[h2[u].next].txn = u
    <3>1. h[u].next \in Versions
      BY <2>3, Releasing
    <3>2. QED
      BY <3>1, <2>1, <2>3, <1>0, <1>3 DEF TxnOK
  <2>4. QED
    BY <2>2, <2>3 DEF TxnOK
<1>9. HeadOK(h2, hd, ph)
  BY <1>0, <1>3 DEF HeadOK, KeyType
<1>10. StepOK(t, h, ph, del, h2, ph, del2)
  <2>1. ASSUME NEW v \in Versions PROVE SafeFor(t, v, h, ph, del, h2, ph, del2)
    <3>1. h[v].reader <= h2[v].reader
      BY <1>0, <1>3 DEF KeyType, Headers
    <3>2. v # t => h2[v].end = h[v].end /\ (v \in del2 <=> v \in del)
      BY <1>3
    <3>3. h2[v].txn = h[v].txn /\ h2[v].reader = h[v].reader /\ h2[v].next = h[v].next
      BY <1>3
    <3>4. QED
      BY ONLY <3>1, <3>2, <3>3, <1>5 DEF SafeFor
  <2>2. QED
    BY <2>1 DEF StepOK
<1>11. QED
  BY <1>2, <1>6, <1>7, <1>8, <1>9, <1>10 DEF KeyOK

\* The headers with a version of t on top of version old ...
NewHeaders(h, t, old, prev, e) ==
  [v \in Versions |-> CASE v = t -> [EmptySlot EXCEPT !.txn = t, !.end = e,
                                           !.prev = prev, !.next = old]
                        [] v = old -> [h[v] EXCEPT !.txn = t, !.prev = t]
                        [] v = prev -> [h[v] EXCEPT !.next = t]
                        [] OTHER -> h[v]]
\* ... and without it again.
OldHeaders(h, t, old, prev) ==
  [v \in Versions |-> CASE v = t -> [h[v] EXCEPT !.txn = INVALID_TXN_ID]
                        [] v = old -> [h[v] EXCEPT !.prev = prev, !.txn = INITIAL_TXN_ID]
                        [] v = prev -> [h[v] EXCEPT !.next = old]
                        [] OTHER -> h[v]]

\* Updater t, the last reader of version old, which nobody owns, puts its own
\* version on top.
Installs(h, hd, ph, del, t, old, e, h2, ph2, del2) ==
  /\ KeyOK(h, hd, ph, del) /\ t \in Updaters /\ ph[t] \in {"none", "written"}
  /\ old \in Versions /\ InChain(old, ph) /\ old < t /\ h[old].reader = t
  /\ h[old].txn = INITIAL_TXN_ID /\ h[old].end = MAX_CID /\ e \in Nat
  /\ h2 = NewHeaders(h, t, old, h[old].prev, e) /\ ph2 = [ph EXCEPT ![t] = "written"]
  /\ del2 \in SUBSET Updaters /\ \A v \in Versions : v # t => (v \in del2 <=> v \in del)

\* PerformUpdate and PerformDelete put a new version on top of the newest one.
LEMMA InstallStep ==
  ASSUME NEW h, NEW hd, NEW ph, NEW del, NEW t, NEW old, NEW e, NEW h2, NEW ph2, NEW del2,
         Installs(h, hd, ph, del, t, old, e, h2, ph2, del2)
  PROVE  /\ ph[t] = "none" /\ h[old].prev = NULL
         /\ KeyOK(h2, t, ph2, del2) /\ StepOK(t, h, ph, del, h2, ph2, del2)
<1> SUFFICES ASSUME KeyOK(h, hd, ph, del), t \in Updaters, ph[t] \in {"none", "written"},
                    old \in Versions, InChain(old, ph), old < t, h[old].reader = t,
                    h[old].txn = INITIAL_TXN_ID, h[old].end = MAX_CID, e \in Nat,
                    h2 = NewHeaders(h, t, old, h[old].prev, e),
                    ph2 = [ph EXCEPT ![t] = "written"], del2 \in SUBSET Updaters,
                    \A v \in Versions : v # t => (v \in del2 <=> v \in del)
             PROVE  /\ ph[t] = "none" /\ h[old].prev = NULL
                    /\ KeyOK(h2, t, ph2, del2) /\ StepOK(t, h, ph, del, h2, ph2, del2)
  BY DEF Installs
<1>0. KeyType(h, hd, ph, del) /\ ChainOK(h, ph, del) /\ OwnerOK(h, hd, ph)
      /\ TxnOK(h, ph) /\ HeadOK(h, hd, ph)
  BY DEF KeyOK
<1>a. /\ t \in Updaters /\ t \in Versions /\ t \in Nat /\ old \in Versions /\ old \in Nat
      /\ old # t /\ old < t /\ InChain(old, ph) /\ Updaters \subseteq Versions
      /\ Versions \subseteq Nat /\ h[old].txn = INITIAL_TXN_ID /\ h[old].end = MAX_CID
      /\ h[old].reader = t
  <2>1. t \in Updaters /\ old \in Versions /\ old < t /\ InChain(old, ph)
        /\ h[old].txn = INITIAL_TXN_ID /\ h[old].end = MAX_CID /\ h[old].reader = t
    OBVIOUS
  <2>2. QED
    BY ONLY <2>1, MaxCid
<1>b. \A u \in Updaters : u # INITIAL_TXN_ID /\ u # INVALID_TXN_ID
  BY ONLY UpdatersAssumption DEF INITIAL_TXN_ID, INVALID_TXN_ID
<1>c. INITIAL_TXN_ID # INVALID_TXN_ID
  BY ONLY DEF INITIAL_TXN_ID, INVALID_TXN_ID
<1>1. \A w \in Versions : InChain(w, ph) => w <= old
  <2>1. LinkOK(old, h, ph, del)
    BY <1>0 DEF ChainOK
  <2>2. \A w \in Versions : InChain(w, ph) /\ old < w => MAX_CID <= w
    BY <2>1 DEF LinkOK
  <2>3. \A w \in Versions : w \in Nat /\ w < MAX_CID /\ MAX_CID \in Nat
    BY ONLY MaxCid
  <2>4. \A w \in Versions : InChain(w, ph) => ~(old < w)
    BY ONLY <2>2, <2>3
  <2>5. QED
    BY ONLY <2>3, <2>4, <1>a
<1>2. \A u \in Updaters : ~Owns(u, ph)
  <2>1. SUFFICES ASSUME NEW u \in Updaters, Owns(u, ph) PROVE FALSE
    OBVIOUS
  <2>2. OwnedOK(u, h, hd, ph)
    BY <2>1, <1>0 DEF OwnerOK
  <2>3. h[u].next \in Versions /\ InChain(h[u].next, ph) /\ h[h[u].next].txn = u
        /\ \A w \in Versions : InChain(w, ph) => w <= h[u].next
    BY <2>2 DEF OwnedOK
  <2>4. h[u].next = old
    <3>1. h[u].next \in Nat /\ h[u].next <= old /\ old <= h[u].next
      BY ONLY <2>3, <1>1, <1>a
    <3>2. QED
      BY ONLY <3>1, <1>a
  <2>5. QED
    BY ONLY <2>1, <2>3, <2>4, <1>a, <1>b
<1>3. \A v : ~Owns(v, ph)
  BY <1>2 DEF Owns
<1>4. hd = old /\ h[old].prev = NULL
  <2>1. InChain(hd, ph) /\ hd \in Versions /\ (\A w \in Versions : InChain(w, ph) => w <= hd)
    BY <1>0, <1>3 DEF HeadOK, KeyType
  <2>2. hd = old
    BY ONLY <2>1, <1>1, <1>a
  <2>3. QED
    BY <2>2, <1>0, <1>2 DEF HeadOK
<1>5. NULL \notin Versions
  BY ONLY UpdatersAssumption DEF NULL, Versions, Loader
<1>6. ph[t] = "none" /\ ~InChain(t, ph)
  BY <1>a, <1>3, MaxCid DEF Owns, InChain
<1>7. /\ \A v \in Versions : v # t /\ v # old => h2[v] = h[v]
      /\ h2[t] = [EmptySlot EXCEPT !.txn = t, !.end = e, !.prev = NULL, !.next = old]
      /\ h2[old] = [h[old] EXCEPT !.txn = t, !.prev = t]
  BY <1>a, <1>4, <1>5 DEF NewHeaders
<1>8. /\ h2[t].txn = t /\ h2[t].begin = MAX_CID /\ h2[t].prev = NULL /\ h2[t].next = old
      /\ h2[old].txn = t /\ h2[old].prev = t /\ h2[old].begin = h[old].begin
      /\ h2[old].end = h[old].end /\ h2[old].next = h[old].next
      /\ h2[old].reader = h[old].reader
  <2>1. h[old] \in Headers
    BY <1>0 DEF KeyType
  <2>2. QED
    BY ONLY <2>1, <1>7 DEF Headers, EmptySlot
<1>9. KeyType(h2, t, ph2, del2)
  <2>1. h2[t] \in Headers /\ h2[old] \in Headers
    <3>1. h[old] \in Headers /\ MAX_CID \in Nat /\ e \in Nat
      BY <1>0, MaxCid DEF KeyType
    <3>2. QED
      <4>1. h2[t] = [txn |-> t, begin |-> MAX_CID, end |-> e, prev |-> 0, next |-> old,
                     reader |-> 0]
        BY ONLY <1>7 DEF EmptySlot, NULL
      <4>2. h2[t] \in Headers
        BY ONLY <4>1, <3>1, <1>a DEF Headers, NULL
      <4>3. h2[old] \in Headers
        BY ONLY <3>1, <1>a, <1>7 DEF Headers
      <4>4. QED
        BY ONLY <4>2, <4>3
  <2>2. \A v \in Versions : h2[v] \in Headers
    BY <2>1, <1>0, <1>7 DEF KeyType
  <2>3. h2 \in [Versions -> Headers]
    BY <2>2 DEF NewHeaders
  <2>4. QED
    <3>1. ph2 \in [Updaters -> PhaseNames]
      BY <1>0 DEF KeyType, PhaseNames
    <3>2. del2 \in SUBSET Updaters
      BY <1>0 DEF KeyType
    <3>3. QED
      BY ONLY <2>3, <3>1, <3>2, <1>a DEF KeyType
<1>10. \A v : /\ InChain(v, ph2) <=> InChain(v, ph)
              /\ Owns(v, ph2) <=> v = t
  BY <1>0, <1>3, <1>6 DEF KeyType, InChain, Owns
<1>11. \A u \in Updaters : ph2[u] = IF u = t THEN "written" ELSE ph[u]
  BY <1>0 DEF KeyType
<1>12. ChainOK(h2, ph2, del2)
  <2>1. \A v \in Versions : InChain(v, ph) =>
          /\ h2[v].begin = h[v].begin /\ h2[v].end = h[v].end /\ h2[v].next = h[v].next
          /\ v \in del2 <=> v \in del
          /\ v # old => h2[v] = h[v]
    <3>1. \A v \in Versions : InChain(v, ph) => v # t /\ (v \in del2 <=> v \in del)
      BY <1>6
    <3>2. QED
      BY ONLY <3>1, <1>7, <1>8
  <2>2. \A v \in Versions : InChain(v, ph) => LinkOK(v, h, ph, del)
    BY <1>0 DEF ChainOK
  <2>3. \A v \in Versions : InChain(v, ph) =>
          h2[v].prev = NULL \/ InChain(h2[v].prev, ph)
             \/ (Owns(h2[v].prev, ph2) /\ Top(v, ph))
    <3>1. SUFFICES ASSUME NEW v \in Versions, InChain(v, ph)
                   PROVE  h2[v].prev = NULL \/ InChain(h2[v].prev, ph)
                          \/ (Owns(h2[v].prev, ph2) /\ Top(v, ph))
      OBVIOUS
    <3>2. CASE v = old
      <4>1. Top(old, ph)
        BY ONLY <1>1 DEF Top
      <4>2. QED
        BY ONLY <3>2, <4>1, <1>8, <1>10
    <3>3. CASE v # old
      BY ONLY <3>1, <3>3, <2>1, <2>2, <1>3 DEF LinkOK
    <3>4. QED
      BY ONLY <3>2, <3>3
  <2>4. \A v \in Versions : InChain(v, ph) =>
          (h2[v].txn = INVALID_TXN_ID <=> h[v].txn = INVALID_TXN_ID)
    BY ONLY <2>1, <1>a, <1>b, <1>c, <1>8
  <2>5. \A u \in Updaters : ph[u] # "c2"
    BY <1>2 DEF Owns
  <2>6. QED
    BY ONLY <2>1, <2>3, <2>4, <2>5, <1>0, <1>10, ChainFrame
<1>13. OwnerOK(h2, t, ph2)
  <2>1. OwnedOK(t, h2, t, ph2)
    <3>1. InChain(old, ph2) /\ ph2[t] = "written"
      BY <1>10, <1>11
    <3>2. QED
      BY ONLY <3>1, <1>1, <1>a, <1>8, <1>10 DEF OwnedOK
  <2>2. QED
    BY ONLY <2>1, <1>10 DEF OwnerOK
<1>14. TxnOK(h2, ph2)
  <2>1. ASSUME NEW v \in Versions PROVE HeldOK(v, h2, ph2)
    <3>1. HeldOK(v, h, ph)
      BY <1>0 DEF TxnOK
    <3>2. CASE v = t
      BY ONLY <3>2, <1>a, <1>b, <1>8, <1>10 DEF HeldOK
    <3>3. CASE v = old
      BY ONLY <3>3, <1>a, <1>b, <1>8, <1>10 DEF HeldOK
    <3>4. CASE v # t /\ v # old
      <4>1. h2[v] = h[v]
        BY <3>4, <1>7
      <4>2. \A u \in Updaters : h[v].txn = u => u # t /\ ph2[u] = "c3" /\ v = h2[u].next
        <5>1. SUFFICES ASSUME NEW u \in Updaters, h[v].txn = u
                       PROVE  u # t /\ ph2[u] = "c3" /\ v = h2[u].next
          OBVIOUS
        <5>2. ph[u] = "c3" /\ v = h[u].next /\ u \in Versions
          BY <5>1, <3>1, <1>3, MaxCid DEF HeldOK
        <5>3. u # t
          BY <5>2, <1>6
        <5>4. u = old => h2[u].next = h[u].next
          BY <1>8
        <5>5. QED
          BY ONLY <5>1, <5>2, <5>3, <5>4, <1>7, <1>11
      <4>3. QED
        BY ONLY <3>1, <3>4, <4>1, <4>2, <1>3, <1>10 DEF HeldOK
    <3>5. QED
      BY <3>2, <3>3, <3>4
  <2>2. ASSUME NEW u \in Updaters, ph2[u] = "c3" PROVE h2[h2[u].next].txn = u
    <3>1. ph[u] = "c3" /\ u # t
      BY ONLY <2>2, <1>11
    <3>2. h[u].next \in Versions /\ InChain(h[u].next, ph) /\ h[h[u].next].txn = u
          /\ u \in Versions
      <4>1. KeyOK(h, hd, ph, del) /\ u \in Updaters
        OBVIOUS
      <4>2. QED
        BY ONLY <4>1, <3>1, Releasing
    <3>3. h2[u].next = h[u].next
      BY ONLY <3>1, <3>2, <1>7, <1>8
    <3>4. h[u].next # t /\ h[u].next # old
      BY ONLY <2>2, <3>2, <1>a, <1>b, <1>6
    <3>5. QED
      BY ONLY <3>2, <3>3, <3>4, <1>7
  <2>3. QED
    BY <2>1, <2>2 DEF TxnOK
<1>15. HeadOK(h2, t, ph2)
  BY ONLY <1>a, <1>6, <1>10 DEF HeadOK
<1>16. StepOK(t, h, ph, del, h2, ph2, del2)
  <2>1. ASSUME NEW v \in Versions PROVE SafeFor(t, v, h, ph, del, h2, ph2, del2)
    <3>1. h[v].reader \in Nat /\ \A u \in Updaters : u \in Nat
      BY <1>0, MaxCid DEF KeyType, Headers
    <3>2. v # t => h2[v].reader = h[v].reader /\ h2[v].next = h[v].next
                   /\ (v \in del2 <=> v \in del)
      <4>1. v # t => (v \in del2 <=> v \in del)
        OBVIOUS
      <4>2. QED
        BY ONLY <2>1, <4>1, <1>7, <1>8
    <3>3. v \in Updaters /\ ph[v] # "none" => ph2[v] # "none" /\ v # t
      BY <1>6, <1>11
    <3>4. ASSUME NEW u \in Updaters \ {t}, h[v].txn = u PROVE h2[v].txn = u
      <4>1. v # t
        <5>1. HeldOK(v, h, ph)
          BY <1>0 DEF TxnOK
        <5>2. ph[u] = "c3" /\ v = h[u].next
          BY <5>1, <3>4, <1>3 DEF HeldOK
        <5>3. InChain(v, ph)
          BY <5>2, Releasing
        <5>4. QED
          BY <5>3, <1>6
      <4>2. QED
        BY ONLY <2>1, <4>1, <3>4, <1>a, <1>b, <1>7
    <3>5. ASSUME NEW u \in Updaters \ {t}, InChain(v, ph), u <= h[v].reader,
                 u < h[v].reader \/ (h[v].txn = INITIAL_TXN_ID /\ h[v].end = MAX_CID)
          PROVE  u < h2[v].reader \/ (h2[v].txn = INITIAL_TXN_ID /\ h2[v].end = MAX_CID)
      <4>1. CASE v = old
        <5>1. u < h[old].reader
          BY ONLY <4>1, <3>1, <3>5, <1>a
        <5>2. QED
          BY ONLY <4>1, <5>1, <1>8
      <4>2. CASE v # old
        BY ONLY <2>1, <4>2, <3>5, <1>6, <1>7
      <4>3. QED
        BY <4>1, <4>2
    <3>6. QED
      BY ONLY <2>1, <3>1, <3>2, <3>3, <3>4, <3>5, <1>6, <1>10 DEF SafeFor
  <2>2. QED
    BY <2>1 DEF StepOK
<1>17. QED
  BY <1>4, <1>6, <1>9, <1>12, <1>13, <1>14, <1>15, <1>16 DEF KeyOK

\* CommitTransaction ends the life of the old version.
LEMMA EndStep ==
  ASSUME NEW h, NEW hd, NEW ph, NEW del, KeyOK(h, hd, ph, del),
         NEW t \in Updaters, ph[t] = "c1", NEW h2, NEW ph2,
         h2 = [h EXCEPT ![h[t].next] = [h[h[t].next] EXCEPT !.end = t]],
         ph2 = [ph EXCEPT ![t] = "c2"]
  PROVE  KeyOK(h2, hd, ph2, del) /\ StepOK(t, h, ph, del, h2, ph2, del)
<1> DEFINE old == h[t].next
<1>0. KeyType(h, hd, ph, del) /\ ChainOK(h, ph, del) /\ OwnerOK(h, hd, ph)
      /\ TxnOK(h, ph) /\ HeadOK(h, hd, ph)
  BY DEF KeyOK
<1>1. Owns(t, ph) /\ OwnedOK(t, h, hd, ph)
  BY <1>0 DEF Owns, OwnerOK
<1>a. /\ t \in Updaters /\ t \in Versions /\ t \in Nat /\ old \in Versions /\ old \in Nat
      /\ old # t /\ old < t /\ InChain(old, ph) /\ h[old].txn = t /\ h[old].end = MAX_CID
      /\ Updaters \subseteq Versions /\ Versions \subseteq Nat
      /\ \A w \in Versions : InChain(w, ph) => w <= old
  BY <1>1, MaxCid DEF OwnedOK
<1>b. \A u \in Updaters : u # INITIAL_TXN_ID /\ u # INVALID_TXN_ID
  BY ONLY UpdatersAssumption DEF INITIAL_TXN_ID, INVALID_TXN_ID
<1>2. KeyType(h2, hd, ph2, del)
  <2>1. h[old] \in Headers
    BY <1>0, <1>a DEF KeyType
  <2>2. [h[old] EXCEPT !.end = t] \in Headers
    BY ONLY <2>1, <1>a DEF Headers
  <2>3. QED
    BY <2>2, <1>0 DEF KeyType, PhaseNames
<1>3. \A v : (InChain(v, ph2) <=> InChain(v, ph)) /\ (Owns(v, ph2) <=> Owns(v, ph))
  BY <1>0 DEF KeyType, InChain, Owns
<1>4. \A u \in Updaters : ph2[u] = IF u = t THEN "c2" ELSE ph[u]
  BY <1>0 DEF KeyType
<1>5. \A v \in Versions :
        /\ v # old => h2[v] = h[v]
        /\ h2[v].txn = h[v].txn /\ h2[v].prev = h[v].prev /\ h2[v].next = h[v].next
        /\ h2[v].begin = h[v].begin /\ h2[v].reader = h[v].reader
  BY <1>0, <1>a DEF KeyType, Headers
<1>6. h2[old].end = t
  BY <1>0, <1>a DEF KeyType, Headers
<1>7. \A u \in Updaters : Owns(u, ph) => u = t
  BY <1>1, OneOwner
<1>8. ~InChain(t, ph)
  BY <1>1, PhaseFacts
<1>9. ChainOK(h2, ph2, del)
  <2>1. ASSUME NEW v \in Versions, InChain(v, ph) PROVE LinkOK(v, h2, ph2, del)
    <3>1. LinkOK(v, h, ph, del)
      BY <2>1, <1>0 DEF ChainOK
    <3>a. Top(v, ph2) <=> Top(v, ph)
      BY ONLY <1>3 DEF Top
    <3>2. CASE v = old
      <4>1. h2[v].end \in Updaters /\ v < h2[v].end /\ h2[h2[v].end].next = v
            /\ ph2[h2[v].end] = "c2"
        BY ONLY <3>2, <1>a, <1>4, <1>5, <1>6
      <4>2. \A w \in Versions : InChain(w, ph2) => ~(v < w)
        <5>1. \A w \in Versions : w \in Nat /\ (InChain(w, ph2) => w <= v)
          BY ONLY <3>2, <1>a, <1>3
        <5>2. v \in Nat
          BY ONLY <3>2, <1>a
        <5>3. QED
          BY ONLY <5>1, <5>2
      <4>3. v # Loader => h2[v].next < v
        BY ONLY <2>1, <3>1, <1>5 DEF LinkOK
      <4>4. QED
        BY ONLY <2>1, <3>1, <3>a, <3>2, <4>1, <4>2, <4>3, <1>3, <1>5 DEF LinkOK
    <3>3. CASE v # old
      <4>1. h2[v] = h[v]
        BY ONLY <3>3, <2>1, <1>5
      <4>2. h[v].end # MAX_CID => ph2[h[v].end] = ph[h[v].end] \/ ph2[h[v].end] = "c2"
        BY ONLY <3>1, <1>4 DEF LinkOK
      <4>3. h[v].end # MAX_CID => h2[h[v].end].next = h[h[v].end].next
        BY ONLY <3>1, <1>a, <1>5 DEF LinkOK
      <4>4. QED
        BY ONLY <2>1, <3>1, <3>a, <4>1, <4>2, <4>3, <1>3, <1>5 DEF LinkOK
    <3>4. QED
      BY <3>2, <3>3
  <2>2. QED
    BY <2>1, <1>3 DEF ChainOK
<1>10. OwnerOK(h2, hd, ph2)
  <2>1. OwnedOK(t, h2, hd, ph2)
    <3>1. h2[t].next = old /\ h2[t] = h[t] /\ ph2[t] = "c2" /\ ph[t] = "c1"
          /\ h2[old].txn = h[old].txn /\ h2[old].prev = h[old].prev
          /\ h2[old].reader = h[old].reader
      BY <1>a, <1>4, <1>5
    <3>2. QED
      BY ONLY <3>1, <1>1, <1>3, <1>6 DEF OwnedOK
  <2>2. QED
    BY <2>1, <1>3, <1>7 DEF OwnerOK
<1>11. TxnOK(h2, ph2)
  <2>1. \A u \in Updaters : h2[u].next = h[u].next
    BY ONLY <1>5, <1>a
  <2>2. ASSUME NEW v \in Versions PROVE HeldOK(v, h2, ph2)
    <3>1. HeldOK(v, h, ph)
      BY <1>0 DEF TxnOK
    <3>2. h2[v].txn = h[v].txn /\ h2[v].begin = h[v].begin
      BY <1>5
    <3>3. QED
      BY <3>1, <3>2, <2>1, <1>1, <1>3, <1>4 DEF HeldOK
  <2>3. ASSUME NEW u \in Updaters, ph2[u] = "c3" PROVE h2[h2[u].next].txn = u
    <3>1. ph[u] = "c3"
      BY ONLY <2>3, <1>4
    <3>2. h[u].next \in Versions /\ h[h[u].next].txn = u
      BY <3>1, Releasing
    <3>3. QED
      BY ONLY <3>2, <2>1, <2>3, <1>5
  <2>4. QED
    BY <2>2, <2>3 DEF TxnOK
<1>12. HeadOK(h2, hd, ph2)
  BY <1>0, <1>3, <1>5 DEF HeadOK, KeyType
<1>13. StepOK(t, h, ph, del, h2, ph2, del)
  <2>1. ASSUME NEW v \in Versions PROVE SafeFor(t, v, h, ph, del, h2, ph2, del)
    <3>1. h[v].reader <= h2[v].reader
      BY <1>0, <1>5 DEF KeyType, Headers
    <3>2. v # old => h2[v].end = h[v].end
      BY <1>5
    <3>3. h2[v].txn = h[v].txn /\ h2[v].reader = h[v].reader /\ h2[v].next = h[v].next
      BY <1>5
    <3>4. v \in Updaters /\ ph[v] # "none" => ph2[v] # "none"
      BY <1>4
    <3>5. v = old => h[v].txn # INITIAL_TXN_ID
      BY ONLY <1>a, <1>b
    <3>6. QED
      BY ONLY <3>1, <3>2, <3>3, <3>4, <3>5, <1>3 DEF SafeFor
  <2>2. QED
    BY <2>1 DEF StepOK
<1>14. QED
  BY <1>2, <1>9, <1>10, <1>11, <1>12, <1>13 DEF KeyOK

\* CommitTransaction releases the new version, which is in the chain from then on.
LEMMA NewStep ==
  ASSUME NEW h, NEW hd, NEW ph, NEW del, KeyOK(h, hd, ph, del),
         NEW t \in Updaters, ph[t] = "c2", NEW h2, NEW ph2,
         h2 = [h EXCEPT ![t] = [h[t] EXCEPT !.txn =
                 IF t \in del THEN INVALID_TXN_ID ELSE INITIAL_TXN_ID]],
         ph2 = [ph EXCEPT ![t] = "c3"]
  PROVE  KeyOK(h2, hd, ph2, del) /\ StepOK(t, h, ph, del, h2, ph2, del)
<1> DEFINE old == h[t].next
<1>0. KeyType(h, hd, ph, del) /\ ChainOK(h, ph, del) /\ OwnerOK(h, hd, ph)
      /\ TxnOK(h, ph) /\ HeadOK(h, hd, ph)
  BY DEF KeyOK
<1>1. Owns(t, ph) /\ OwnedOK(t, h, hd, ph)
  BY <1>0 DEF Owns, OwnerOK
<1>a. /\ t \in Updaters /\ t \in Versions /\ t \in Nat /\ old \in Versions /\ old \in Nat
      /\ old # t /\ old < t /\ InChain(old, ph) /\ h[old].txn = t /\ h[old].end = t
      /\ h[t].begin = t /\ h[t].end = MAX_CID /\ h[t].prev = NULL /\ hd = t
      /\ Updaters \subseteq Versions /\ Versions \subseteq Nat /\ Loader # t
      /\ \A w \in Versions : InChain(w, ph) => w <= old
  BY <1>1, MaxCid DEF OwnedOK
<1>b. \A u \in Updaters : u # INITIAL_TXN_ID /\ u # INVALID_TXN_ID
  BY ONLY UpdatersAssumption DEF INITIAL_TXN_ID, INVALID_TXN_ID
<1>c. INITIAL_TXN_ID # INVALID_TXN_ID
  BY ONLY DEF INITIAL_TXN_ID, INVALID_TXN_ID
<1>d. \A u \in Updaters : Owns(u, ph) => u = t
  BY <1>1, OneOwner
<1>2. KeyType(h2, hd, ph2, del)
  <2>1. h[t] \in Headers
    BY <1>0, <1>a DEF KeyType
  <2>2. [h[t] EXCEPT !.txn = IF t \in del THEN INVALID_TXN_ID ELSE INITIAL_TXN_ID] \in Headers
    BY ONLY <2>1, <1>a DEF Headers
  <2>3. QED
    BY <2>2, <1>0 DEF KeyType, PhaseNames
<1>3. \A v : /\ InChain(v, ph2) <=> (InChain(v, ph) \/ v = t)
             /\ ~Owns(v, ph2)
  <2>1. \A v : InChain(v, ph2) <=> (InChain(v, ph) \/ v = t)
    BY <1>0 DEF KeyType, InChain
  <2>2. \A v : Owns(v, ph2) => Owns(v, ph) /\ v # t
    BY <1>0 DEF KeyType, Owns
  <2>3. \A v : Owns(v, ph) => v \in Updaters
    BY DEF Owns
  <2>4. QED
    BY ONLY <2>1, <2>2, <2>3, <1>d
<1>4. \A u \in Updaters : ph2[u] = IF u = t THEN "c3" ELSE ph[u]
  BY <1>0 DEF KeyType
<1>5. \A v \in Versions :
        /\ v # t => h2[v] = h[v]
        /\ h2[v].end = h[v].end /\ h2[v].prev = h[v].prev /\ h2[v].next = h[v].next
        /\ h2[v].begin = h[v].begin /\ h2[v].reader = h[v].reader
  BY <1>0, <1>a DEF KeyType, Headers
<1>6. h2[t].txn = IF t \in del THEN INVALID_TXN_ID ELSE INITIAL_TXN_ID
  BY <1>0, <1>a DEF KeyType, Headers
<1>8. ~InChain(t, ph)
  BY <1>1, PhaseFacts
<1>9. ChainOK(h2, ph2, del)
  <2>1. ASSUME NEW v \in Versions, InChain(v, ph) PROVE LinkOK(v, h2, ph2, del)
    <3>1. LinkOK(v, h, ph, del) /\ h2[v] = h[v] /\ v <= old /\ v \in Nat
      BY <2>1, <1>0, <1>a, <1>5, <1>8 DEF ChainOK
    <3>2. h[v].prev = NULL \/ InChain(h[v].prev, ph2)
      <4>1. Owns(h[v].prev, ph) => h[v].prev = t
        BY <1>d DEF Owns
      <4>2. QED
        BY ONLY <4>1, <3>1, <1>3 DEF LinkOK
    <3>3. \/ h[v].end = MAX_CID
          \/ /\ h[v].end \in Updaters /\ v < h[v].end /\ h2[h[v].end].next = v
             /\ InChain(h[v].end, ph2)
      <4>1. \A u \in Updaters : ph[u] = "c2" => u = t
        BY <1>d DEF Owns
      <4>2. QED
        BY ONLY <4>1, <3>1, <1>a, <1>3, <1>5 DEF LinkOK
    <3>4. h[v].end <= t /\ v <= old
      <4>1. CASE v = old
        BY ONLY <4>1, <3>1, <1>a
      <4>2. CASE v # old
        <5>1. h[v].end <= old /\ h[v].end \in Nat
          <6>1. h[v].end \in Nat
            BY ONLY <3>1, <1>a, MaxCid DEF LinkOK
          <6>2. v < old
            BY ONLY <4>2, <3>1, <1>a
          <6>3. QED
            BY ONLY <3>1, <6>1, <6>2, <1>a DEF LinkOK
        <5>2. QED
          BY ONLY <5>1, <3>1, <1>a
      <4>3. QED
        BY ONLY <4>1, <4>2
    <3>5. \A w \in Versions : InChain(w, ph2) /\ v < w => h[v].end <= w /\ v <= h2[w].next
      BY ONLY <3>1, <3>4, <1>a, <1>3, <1>5 DEF LinkOK
    <3>6. QED
      BY ONLY <3>1, <3>2, <3>3, <3>5, <1>3 DEF LinkOK
  <2>2. LinkOK(t, h2, ph2, del)
    <3>1. h2[t].begin = t /\ h2[t].end = MAX_CID /\ h2[t].prev = NULL /\ h2[t].next = old
      BY ONLY <1>a, <1>5
    <3>2. h2[t].txn = INVALID_TXN_ID <=> t \in del
      BY ONLY <1>6, <1>c
    <3>3. \A w \in Versions : InChain(w, ph2) => ~(t < w)
      BY ONLY <1>a, <1>3
    <3>4. QED
      BY ONLY <3>1, <3>2, <3>3, <1>a, <1>3 DEF LinkOK
  <2>3. QED
    BY <2>1, <2>2, <1>3 DEF ChainOK
<1>10. OwnerOK(h2, hd, ph2)
  BY <1>3 DEF OwnerOK
<1>11. TxnOK(h2, ph2)
  <2>1. \A u \in Updaters : h2[u].next = h[u].next
    BY ONLY <1>5, <1>a
  <2>2. ASSUME NEW v \in Versions PROVE HeldOK(v, h2, ph2)
    <3>1. HeldOK(v, h, ph)
      BY <1>0 DEF TxnOK
    <3>2. CASE v = t
      BY ONLY <3>2, <1>b, <1>3, <1>6 DEF HeldOK
    <3>3. CASE v # t
      <4>1. h2[v] = h[v]
        BY ONLY <2>2, <3>3, <1>5
      <4>2. \A u : Owns(u, ph) => u = t
        BY <1>d DEF Owns
      <4>3. QED
        BY ONLY <3>1, <3>3, <4>1, <4>2, <2>1, <1>3, <1>4 DEF HeldOK
    <3>4. QED
      BY <3>2, <3>3
  <2>3. ASSUME NEW u \in Updaters, ph2[u] = "c3" PROVE h2[h2[u].next].txn = u
    <3>1. CASE u = t
      BY ONLY <3>1, <2>1, <2>3, <1>a, <1>5
    <3>2. CASE u # t
      <4>1. ph[u] = "c3"
        BY ONLY <2>3, <3>2, <1>4
      <4>2. h[u].next \in Versions /\ h[h[u].next].txn = u /\ InChain(h[u].next, ph)
        BY <4>1, Releasing
      <4>3. QED
        BY ONLY <4>2, <2>1, <2>3, <1>5, <1>8
    <3>3. QED
      BY <3>1, <3>2
  <2>4. QED
    BY <2>2, <2>3 DEF TxnOK
<1>12. HeadOK(h2, hd, ph2)
  <2>1. \A w \in Versions : InChain(w, ph2) => w <= t
    BY ONLY <1>a, <1>3
  <2>2. QED
    BY ONLY <2>1, <1>a, <1>3, <1>5 DEF HeadOK
<1>13. StepOK(t, h, ph, del, h2, ph2, del)
  <2>1. ASSUME NEW v \in Versions PROVE SafeFor(t, v, h, ph, del, h2, ph2, del)
    <3>1. h[v].reader <= h2[v].reader
      BY <1>0, <1>5 DEF KeyType, Headers
    <3>2. v # t => h2[v] = h[v]
      BY <1>5
    <3>3. h2[v].next = h[v].next
      BY <1>5
    <3>4. v \in Updaters /\ ph[v] # "none" => ph2[v] # "none"
      BY <1>4
    <3>5. h[t].txn = t /\ ph[t] = "c2"
      BY <1>1 DEF OwnedOK
    <3>6. QED
      BY ONLY <3>1, <3>2, <3>3, <3>4, <3>5, <1>3, <1>8 DEF SafeFor
  <2>2. QED
    BY <2>1 DEF StepOK
<1>14. QED
  BY <1>2, <1>9, <1>10, <1>11, <1>12, <1>13 DEF KeyOK

\* CommitTransaction releases the old version.
LEMMA OldStep ==
  ASSUME NEW h, NEW hd, NEW ph, NEW del, KeyOK(h, hd, ph, del),
         NEW t \in Updaters, ph[t] = "c3", NEW h2, NEW ph2,
         h2 = [h EXCEPT ![h[t].next] = [h[h[t].next] EXCEPT !.txn = INITIAL_TXN_ID]],
         ph2 = [ph EXCEPT ![t] = "installed"]
  PROVE  KeyOK(h2, hd, ph2, del) /\ StepOK(t, h, ph, del, h2, ph2, del)
<1> DEFINE old == h[t].next
<1>0. KeyType(h, hd, ph, del) /\ ChainOK(h, ph, del) /\ OwnerOK(h, hd, ph)
      /\ TxnOK(h, ph) /\ HeadOK(h, hd, ph)
  BY DEF KeyOK
<1>1. InChain(t, ph) /\ t \in Versions /\ old \in Versions /\ InChain(old, ph) /\ old < t
      /\ h[old].txn = t
  BY Releasing
<1>a. /\ t \in Updaters /\ t \in Versions /\ t \in Nat /\ old \in Nat /\ old # t
      /\ Updaters \subseteq Versions /\ Versions \subseteq Nat
  BY <1>1, MaxCid
<1>b. \A u \in Updaters : u # INITIAL_TXN_ID /\ u # INVALID_TXN_ID
  BY ONLY UpdatersAssumption DEF INITIAL_TXN_ID, INVALID_TXN_ID
<1>c. INITIAL_TXN_ID # INVALID_TXN_ID
  BY ONLY DEF INITIAL_TXN_ID, INVALID_TXN_ID
<1>2. KeyType(h2, hd, ph2, del)
  <2>1. h[old] \in Headers
    BY <1>0, <1>1 DEF KeyType
  <2>2. [h[old] EXCEPT !.txn = INITIAL_TXN_ID] \in Headers
    BY ONLY <2>1 DEF Headers
  <2>3. QED
    BY <2>2, <1>0 DEF KeyType, PhaseNames
<1>3. \A v : (InChain(v, ph2) <=> InChain(v, ph)) /\ (Owns(v, ph2) <=> Owns(v, ph))
  BY <1>0 DEF KeyType, InChain, Owns
<1>4. \A u \in Updaters : ph2[u] = IF u = t THEN "installed" ELSE ph[u]
  BY <1>0 DEF KeyType
<1>5. \A v \in Versions :
        /\ v # old => h2[v] = h[v]
        /\ h2[v].end = h[v].end /\ h2[v].prev = h[v].prev /\ h2[v].next = h[v].next
        /\ h2[v].begin = h[v].begin /\ h2[v].reader = h[v].reader
  BY <1>0, <1>1 DEF KeyType, Headers
<1>6. h2[old].txn = INITIAL_TXN_ID
  BY <1>0, <1>1 DEF KeyType, Headers
<1>7. \A u \in Updaters : h2[u].next = h[u].next
  BY ONLY <1>5, <1>a
<1>8. ~Owns(t, ph)
  BY <1>1, PhaseFacts
<1>9. ChainOK(h2, ph2, del)
  <2>1. \A v \in Versions : InChain(v, ph) => LinkOK(v, h, ph, del)
    BY <1>0 DEF ChainOK
  <2>2. \A v \in Versions : InChain(v, ph) =>
          h2[v].prev = NULL \/ InChain(h2[v].prev, ph)
             \/ (Owns(h2[v].prev, ph2) /\ Top(v, ph))
    BY ONLY <2>1, <1>3, <1>5 DEF LinkOK
  <2>3. \A v \in Versions : InChain(v, ph) =>
          (h2[v].txn = INVALID_TXN_ID <=> h[v].txn = INVALID_TXN_ID)
    BY ONLY <1>1, <1>5, <1>6, <1>a, <1>b, <1>c
  <2>4. \A u \in Updaters : ph[u] = "c2" => ph2[u] = "c2"
    BY <1>4
  <2>5. QED
    BY ONLY <2>2, <2>3, <2>4, <1>0, <1>3, <1>5, <1>7, ChainFrame
<1>10. OwnerOK(h2, hd, ph2)
  <2>1. ASSUME NEW u \in Updaters, Owns(u, ph) PROVE OwnedOK(u, h2, hd, ph2)
    <3>1. OwnedOK(u, h, hd, ph) /\ u # t /\ u \in Versions
      BY <2>1, <1>0, <1>8, <1>a DEF OwnerOK
    <3>2. ph2[u] = ph[u]
      BY ONLY <2>1, <3>1, <1>4
    <3>3. u # old
      BY <2>1, <1>1, PhaseFacts
    <3>4. h[u].next # old /\ h[u].next \in Versions
      BY ONLY <3>1, <1>1 DEF OwnedOK
    <3>5. h2[u] = h[u] /\ h2[h[u].next] = h[h[u].next]
      BY ONLY <3>1, <3>3, <3>4, <1>5
    <3>6. QED
      BY ONLY <3>1, <3>2, <3>5, <1>3 DEF OwnedOK
  <2>2. QED
    BY <2>1, <1>3 DEF OwnerOK
<1>11. TxnOK(h2, ph2)
  <2>1. ASSUME NEW v \in Versions PROVE HeldOK(v, h2, ph2)
    <3>1. HeldOK(v, h, ph)
      BY <1>0 DEF TxnOK
    <3>2. CASE v = old
      BY ONLY <2>1, <3>1, <3>2, <1>1, <1>3, <1>5, <1>6, <1>b DEF HeldOK
    <3>3. CASE v # old
      <4>1. h2[v] = h[v]
        BY ONLY <2>1, <3>3, <1>5
      <4>2. \A u \in Updaters : h[v].txn = u => u # t
        BY ONLY <3>1, <3>3, <1>8 DEF HeldOK
      <4>3. QED
        BY ONLY <3>1, <4>1, <4>2, <1>3, <1>4, <1>7 DEF HeldOK
    <3>4. QED
      BY <3>2, <3>3
  <2>2. ASSUME NEW u \in Updaters, ph2[u] = "c3" PROVE h2[h2[u].next].txn = u
    <3>1. ph[u] = "c3" /\ u # t
      BY ONLY <2>2, <1>4
    <3>2. h[u].next \in Versions /\ h[h[u].next].txn = u
      BY <3>1, Releasing
    <3>3. h[u].next # old
      BY ONLY <3>1, <3>2, <1>1
    <3>4. QED
      BY ONLY <2>2, <3>2, <3>3, <1>5, <1>7
  <2>3. QED
    BY <2>1, <2>2 DEF TxnOK
<1>12. HeadOK(h2, hd, ph2)
  BY <1>0, <1>3, <1>5 DEF HeadOK, KeyType
<1>13. StepOK(t, h, ph, del, h2, ph2, del)
  <2>1. ASSUME NEW v \in Versions PROVE SafeFor(t, v, h, ph, del, h2, ph2, del)
    <3>1. h[v].reader <= h2[v].reader
      BY <1>0, <1>5 DEF KeyType, Headers
    <3>2. v # old => h2[v] = h[v]
      BY <1>5
    <3>3. h2[v].next = h[v].next /\ h2[v].end = h[v].end /\ h2[v].reader = h[v].reader
      BY <1>5
    <3>4. v \in Updaters /\ ph[v] # "none" => ph2[v] # "none"
      BY <1>4
    <3>5. QED
      BY ONLY <3>1, <3>2, <3>3, <3>4, <1>1, <1>3, <1>6, <1>b DEF SafeFor
  <2>2. QED
    BY <2>1 DEF StepOK
<1>14. QED
  BY <1>2, <1>9, <1>10, <1>11, <1>12, <1>13 DEF KeyOK

\* AbortTransaction resets the index entry.
LEMMA AbortStep ==
  ASSUME NEW h, NEW hd, NEW ph, NEW del, KeyOK(h, hd, ph, del),
         NEW t \in Updaters, ph[t] = "written", NEW h2, NEW ph2,
         h2 = [h EXCEPT ![t] = [h[t] EXCEPT !.begin = MAX_CID, !.end = MAX_CID]],
         ph2 = [ph EXCEPT ![t] = "a1"]
  PROVE  /\ h[t].prev = NULL
         /\ KeyOK(h2, h[t].next, ph2, del) /\ StepOK(t, h, ph, del, h2, ph2, del)
<1> DEFINE old == h[t].next
<1>0. KeyType(h, hd, ph, del) /\ ChainOK(h, ph, del) /\ OwnerOK(h, hd, ph)
      /\ TxnOK(h, ph) /\ HeadOK(h, hd, ph)
  BY DEF KeyOK
<1>1. Owns(t, ph) /\ OwnedOK(t, h, hd, ph)
  BY <1>0 DEF Owns, OwnerOK
<1>a. /\ t \in Updaters /\ t \in Versions /\ t \in Nat /\ old \in Versions /\ old \in Nat
      /\ old # t /\ old < t /\ InChain(old, ph) /\ h[t].prev = NULL
      /\ Updaters \subseteq Versions /\ Versions \subseteq Nat /\ MAX_CID \in Nat
      /\ \A w \in Versions : InChain(w, ph) => w <= old
  BY <1>1, MaxCid DEF OwnedOK
<1>2. KeyType(h2, old, ph2, del)
  <2>1. h[t] \in Headers
    BY <1>0, <1>a DEF KeyType
  <2>2. [h[t] EXCEPT !.begin = MAX_CID, !.end = MAX_CID] \in Headers
    BY ONLY <2>1, <1>a DEF Headers
  <2>3. QED
    BY <2>2, <1>0, <1>a DEF KeyType, PhaseNames
<1>3. \A v : (InChain(v, ph2) <=> InChain(v, ph)) /\ (Owns(v, ph2) <=> Owns(v, ph))
  BY <1>0 DEF KeyType, InChain, Owns
<1>4. \A u \in Updaters : ph2[u] = IF u = t THEN "a1" ELSE ph[u]
  BY <1>0 DEF KeyType
<1>5. \A v \in Versions :
        /\ v # t => h2[v] = h[v]
        /\ h2[v].txn = h[v].txn /\ h2[v].prev = h[v].prev /\ h2[v].next = h[v].next
        /\ h2[v].reader = h[v].reader
  BY <1>0, <1>a DEF KeyType, Headers
<1>6. h2[t].begin = MAX_CID
  BY <1>0, <1>a DEF KeyType, Headers
<1>7. \A u \in Updaters : Owns(u, ph) => u = t
  BY <1>1, OneOwner
<1>8. ~InChain(t, ph)
  BY <1>1, PhaseFacts
<1>9. ChainOK(h2, ph2, del)
  <2>1. \A v \in Versions : InChain(v, ph) => h2[v] = h[v] /\ LinkOK(v, h, ph, del)
    BY <1>0, <1>5, <1>8 DEF ChainOK
  <2>2. \A v \in Versions : InChain(v, ph) =>
          h[v].prev = NULL \/ InChain(h[v].prev, ph)
             \/ (Owns(h[v].prev, ph2) /\ Top(v, ph))
    BY ONLY <2>1, <1>3 DEF LinkOK
  <2>3. \A u \in Updaters : ph[u] = "c2" => ph2[u] = "c2" /\ h2[u].next = h[u].next
    BY <1>4, <1>5, <1>a
  <2>4. QED
    BY ONLY <2>1, <2>2, <2>3, <1>0, <1>3, ChainFrame
<1>10. OwnerOK(h2, old, ph2)
  <2>1. OwnedOK(t, h2, old, ph2)
    <3>1. h2[t].next = old /\ h2[old] = h[old] /\ ph2[t] = "a1" /\ ph[t] = "written"
          /\ h2[t].txn = h[t].txn /\ h2[t].prev = h[t].prev
      BY <1>a, <1>4, <1>5
    <3>2. QED
      BY ONLY <3>1, <1>1, <1>3, <1>6 DEF OwnedOK
  <2>2. QED
    BY <2>1, <1>3, <1>7 DEF OwnerOK
<1>11. TxnOK(h2, ph2)
  <2>1. \A u \in Updaters : h2[u].next = h[u].next
    BY ONLY <1>5, <1>a
  <2>2. ASSUME NEW v \in Versions PROVE HeldOK(v, h2, ph2)
    <3>1. HeldOK(v, h, ph)
      BY <1>0 DEF TxnOK
    <3>2. h2[v].txn = h[v].txn /\ (v # t => h2[v].begin = h[v].begin)
      BY <1>5
    <3>3. QED
      BY <3>1, <3>2, <2>1, <1>1, <1>3, <1>4 DEF HeldOK
  <2>3. ASSUME NEW u \in Updaters, ph2[u] = "c3" PROVE h2[h2[u].next].txn = u
    <3>1. ph[u] = "c3"
      BY ONLY <2>3, <1>4
    <3>2. h[u].next \in Versions /\ h[h[u].next].txn = u
      BY <3>1, Releasing
    <3>3. QED
      BY ONLY <3>2, <2>1, <2>3, <1>5
  <2>4. QED
    BY <2>2, <2>3 DEF TxnOK
<1>12. HeadOK(h2, old, ph2)
  BY ONLY <1>1, <1>3, <1>a DEF HeadOK
<1>13. StepOK(t, h, ph, del, h2, ph2, del)
  <2>1. ASSUME NEW v \in Versions PROVE SafeFor(t, v, h, ph, del, h2, ph2, del)
    <3>1. h[v].reader <= h2[v].reader
      BY <1>0, <1>5 DEF KeyType, Headers
    <3>2. v # t => h2[v].end = h[v].end
      BY <1>5
    <3>3. h2[v].txn = h[v].txn /\ h2[v].reader = h[v].reader /\ h2[v].next = h[v].next
      BY <1>5
    <3>4. v \in Updaters /\ ph[v] # "none" => ph2[v] # "none"
      BY <1>4
    <3>5. QED
      BY ONLY <3>1, <3>2, <3>3, <3>4, <1>3, <1>8 DEF SafeFor
  <2>2. QED
    BY <2>1 DEF StepOK
<1>14. QED
  BY <1>2, <1>9, <1>10, <1>11, <1>12, <1>13, <1>a DEF KeyOK

\* AbortTransaction unlinks the new version and releases the old one.
LEMMA UnlinkStep ==
  ASSUME NEW h, NEW hd, NEW ph, NEW del, KeyOK(h, hd, ph, del),
         NEW t \in Updaters, ph[t] = "a1", NEW h2, NEW ph2,
         h2 = OldHeaders(h, t, h[t].next, h[t].prev),
         ph2 = [ph EXCEPT ![t] = "undone"]
  PROVE  KeyOK(h2, hd, ph2, del) /\ StepOK(t, h, ph, del, h2, ph2, del)
<1> DEFINE old == h[t].next
<1>0. KeyType(h, hd, ph, del) /\ ChainOK(h, ph, del) /\ OwnerOK(h, hd, ph)
      /\ TxnOK(h, ph) /\ HeadOK(h, hd, ph) /\ KeyOK(h, hd, ph, del)
      /\ t \in Updaters /\ ph[t] = "a1"
  BY DEF KeyOK
<1>1. Owns(t, ph) /\ OwnedOK(t, h, hd, ph)
  BY ONLY <1>0 DEF Owns, OwnerOK
<1>a. /\ t \in Updaters /\ t \in Versions /\ t \in Nat /\ old \in Versions /\ old \in Nat
      /\ old # t /\ old < t /\ InChain(old, ph) /\ h[t].prev = NULL
      /\ h[old].txn = t /\ h[t].txn = t /\ h[t].begin = MAX_CID /\ hd = old
      /\ Updaters \subseteq Versions /\ Versions \subseteq Nat /\ MAX_CID \in Nat
      /\ \A w \in Versions : InChain(w, ph) => w <= old
  <2>1. /\ old \in Versions /\ InChain(old, ph) /\ old < t /\ h[t].prev = NULL
        /\ h[old].txn = t /\ h[t].txn = t /\ h[t].begin = MAX_CID /\ hd = old
        /\ \A w \in Versions : InChain(w, ph) => w <= old
    BY ONLY <1>0, <1>1 DEF OwnedOK
  <2>2. /\ t \in Versions /\ t \in Nat /\ old \in Nat
        /\ Updaters \subseteq Versions /\ Versions \subseteq Nat /\ MAX_CID \in Nat
    BY ONLY <2>1, <1>0, MaxCid
  <2>3. old # t
    BY ONLY <2>1, <2>2
  <2>4. QED
    BY ONLY <2>1, <2>2, <2>3, <1>0
<1>b. \A u \in Updaters : u # INITIAL_TXN_ID /\ u # INVALID_TXN_ID
  BY ONLY UpdatersAssumption DEF INITIAL_TXN_ID, INVALID_TXN_ID
<1>c. INITIAL_TXN_ID # INVALID_TXN_ID /\ NULL \notin Versions
  BY ONLY UpdatersAssumption DEF INITIAL_TXN_ID, INVALID_TXN_ID, NULL, Versions, Loader
<1>d. \A u \in Updaters : Owns(u, ph) => u = t
  BY ONLY <1>0, <1>1, OneOwner
<1>e. ~InChain(t, ph)
  BY ONLY <1>1, PhaseFacts
<1>5. /\ \A v \in Versions : v # t /\ v # old => h2[v] = h[v]
      /\ h2[t] = [h[t] EXCEPT !.txn = INVALID_TXN_ID]
      /\ h2[old] = [h[old] EXCEPT !.prev = NULL, !.txn = INITIAL_TXN_ID]
      /\ h2 = [v \in Versions |-> h2[v]]
  BY <1>a, <1>c DEF OldHeaders
<1>6. /\ h2[t].txn = INVALID_TXN_ID /\ h2[t].begin = MAX_CID
      /\ h2[old].txn = INITIAL_TXN_ID /\ h2[old].prev = NULL
      /\ \A v \in Versions :
           /\ h2[v].begin = h[v].begin /\ h2[v].end = h[v].end /\ h2[v].next = h[v].next
           /\ h2[v].reader = h[v].reader /\ h2[v].reader \in Nat
           /\ v # old => h2[v].prev = h[v].prev
  <2>1. \A v \in Versions : h[v] \in Headers
    BY ONLY <1>0 DEF KeyType
  <2>2. h2[t].txn = INVALID_TXN_ID /\ h2[t].begin = h[t].begin /\ h2[t].end = h[t].end
        /\ h2[t].next = h[t].next /\ h2[t].reader = h[t].reader /\ h2[t].prev = h[t].prev
    BY ONLY <2>1, <1>5, <1>a DEF Headers
  <2>3. h2[old].txn = INITIAL_TXN_ID /\ h2[old].begin = h[old].begin
        /\ h2[old].end = h[old].end /\ h2[old].next = h[old].next
        /\ h2[old].reader = h[old].reader /\ h2[old].prev = NULL
    BY ONLY <2>1, <1>5, <1>a DEF Headers
  <2>4. \A v \in Versions : h[v].reader \in Nat
    BY ONLY <2>1 DEF Headers
  <2>5. QED
    BY ONLY <2>2, <2>3, <2>4, <1>5, <1>a
<1>2. KeyType(h2, hd, ph2, del)
  <2>1. h[t] \in Headers /\ h[old] \in Headers
    BY ONLY <1>0, <1>a DEF KeyType
  <2>2. h2[t] \in Headers /\ h2[old] \in Headers
    BY ONLY <2>1, <1>5, <1>a DEF Headers
  <2>3. \A v \in Versions : h2[v] \in Headers
    BY ONLY <2>2, <1>0, <1>5 DEF KeyType
  <2>4. h2 \in [Versions -> Headers]
    BY ONLY <2>3, <1>5
  <2>5. ph2 \in [Updaters -> PhaseNames]
    BY <1>0 DEF KeyType, PhaseNames
  <2>6. QED
    BY ONLY <2>4, <2>5, <1>0 DEF KeyType
<1>3. \A v : (InChain(v, ph2) <=> InChain(v, ph)) /\ ~Owns(v, ph2)
  <2>1. \A v : InChain(v, ph2) <=> InChain(v, ph)
    BY <1>0 DEF KeyType, InChain
  <2>2. \A v : Owns(v, ph2) => Owns(v, ph) /\ v # t /\ v \in Updaters
    BY <1>0 DEF KeyType, Owns
  <2>3. QED
    BY ONLY <2>1, <2>2, <1>d
<1>4. \A u \in Updaters : ph2[u] = IF u = t THEN "undone" ELSE ph[u]
  BY <1>0 DEF KeyType
<1>9. ChainOK(h2, ph2, del)
  <2>1. \A v \in Versions : InChain(v, ph) => LinkOK(v, h, ph, del)
    BY ONLY <1>0 DEF ChainOK
  <2>2. ASSUME NEW v \in Versions, InChain(v, ph)
        PROVE  /\ h2[v].prev = NULL \/ InChain(h2[v].prev, ph)
               /\ h2[v].txn = INVALID_TXN_ID <=> h[v].txn = INVALID_TXN_ID
    <3>1. CASE v = old
      BY ONLY <3>1, <1>6, <1>a, <1>b, <1>c
    <3>2. CASE v # old
      <4>1. h2[v] = h[v]
        BY ONLY <2>2, <3>2, <1>5, <1>e
      <4>2. ~Owns(h[v].prev, ph)
        <5>1. SUFFICES ASSUME Owns(h[v].prev, ph) PROVE FALSE
          OBVIOUS
        <5>2. h[v].prev = t
          BY ONLY <5>1, <1>d, PhaseFacts
        <5>3. Top(v, ph)
          BY ONLY <2>1, <2>2, <5>2, <1>a, <1>c, <1>e DEF LinkOK
        <5>4. v <= old /\ old <= v /\ v \in Nat /\ old \in Nat
          BY ONLY <5>3, <2>2, <1>a DEF Top
        <5>5. QED
          BY ONLY <5>4, <3>2
      <4>3. QED
        BY ONLY <2>1, <2>2, <4>1, <4>2 DEF LinkOK
    <3>3. QED
      BY ONLY <3>1, <3>2
  <2>3. \A u \in Updaters : ph[u] # "c2"
    BY ONLY <1>d, <1>0 DEF Owns
  <2>4. QED
    BY ONLY <2>2, <2>3, <1>0, <1>3, <1>6, ChainFrame
<1>10. OwnerOK(h2, hd, ph2)
  BY ONLY <1>3 DEF OwnerOK
<1>11. TxnOK(h2, ph2)
  <2>1. \A u \in Updaters : h2[u].next = h[u].next
    BY ONLY <1>6, <1>a
  <2>2. ASSUME NEW v \in Versions PROVE HeldOK(v, h2, ph2)
    <3>1. HeldOK(v, h, ph)
      BY ONLY <2>2, <1>0 DEF TxnOK
    <3>2. CASE v = t
      BY ONLY <3>2, <1>b, <1>c, <1>3, <1>6 DEF HeldOK
    <3>3. CASE v = old
      BY ONLY <3>3, <1>b, <1>3, <1>6, <1>a DEF HeldOK
    <3>4. CASE v # t /\ v # old
      <4>1. h2[v] = h[v]
        BY ONLY <2>2, <3>4, <1>5
      <4>2. \A u \in Updaters : h[v].txn = u => ph[u] = "c3" /\ v = h[u].next /\ u # t
        BY ONLY <3>1, <3>4, <1>0, <1>d DEF HeldOK
      <4>3. ~InChain(v, ph) => ~Owns(v, ph)
        BY ONLY <3>4, <1>d, PhaseFacts
      <4>4. QED
        BY ONLY <3>1, <4>1, <4>2, <4>3, <2>1, <1>3, <1>4 DEF HeldOK
    <3>5. QED
      BY ONLY <3>2, <3>3, <3>4
  <2>3. ASSUME NEW u \in Updaters, ph2[u] = "c3" PROVE h2[h2[u].next].txn = u
    <3>1. ph[u] = "c3" /\ u # t
      BY ONLY <2>3, <1>4
    <3>2. h[u].next \in Versions /\ h[h[u].next].txn = u
      BY ONLY <2>3, <3>1, <1>0, Releasing
    <3>3. h[u].next # t /\ h[u].next # old
      BY ONLY <3>1, <3>2, <1>a
    <3>4. QED
      BY ONLY <2>3, <3>2, <3>3, <2>1, <1>5
  <2>4. QED
    BY ONLY <2>2, <2>3 DEF TxnOK
<1>12. HeadOK(h2, hd, ph2)
  BY ONLY <1>3, <1>6, <1>a DEF HeadOK
<1>13. StepOK(t, h, ph, del, h2, ph2, del)
  <2>1. ASSUME NEW v \in Versions PROVE SafeFor(t, v, h, ph, del, h2, ph2, del)
    <3>1. v # t /\ v # old => h2[v] = h[v]
      BY ONLY <2>1, <1>5
    <3>2. h2[v].next = h[v].next /\ h2[v].reader = h[v].reader /\ h[v].reader \in Nat
          /\ h2[v].end = h[v].end
      BY ONLY <2>1, <1>6
    <3>3. v \in Updaters /\ ph[v] # "none" => ph2[v] # "none"
      BY ONLY <1>4
    <3>4. \A u \in Updaters : u \in Nat
      BY ONLY <1>a
    <3>5. QED
      BY ONLY <3>1, <3>2, <3>3, <3>4, <1>3, <1>6, <1>a, <1>b, <1>e DEF SafeFor
  <2>2. QED
    BY ONLY <2>1 DEF StepOK
<1>14. QED
  BY ONLY <1>2, <1>9, <1>10, <1>11, <1>12, <1>13 DEF KeyOK
=============================================================================
