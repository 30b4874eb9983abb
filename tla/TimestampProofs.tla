--------------------------- MODULE TimestampProofs ---------------------------
(***************************************************************************)
(* Proofs about timestamp ordering, for every set of tuples, updaters and  *)
(* readers and any number of statements.                                   *)
(*                                                                         *)
(* The inductive invariant Inv holds the version chain of every tuple in   *)
(* order (KeyOK of VersionChainProofs) and says where a transaction on its *)
(* way through a chain can be.  An updater that has reached AcquireOwner-  *)
(* ship has been counted as a reader of its version, so the version is     *)
(* still the newest when nobody later has read it; a READ_ONLY transaction *)
(* has not walked past its version, since every transaction up to its      *)
(* snapshot has ended.                                                     *)
(***************************************************************************)
EXTENDS VersionChainProofs

Running == {"idle", "visible", "cids", "step", "perform", "own", "acquire"}

\* How far updater t has got with tuple k.
PhaseOf(t, k) ==
  IF rw_set[t][k] = "NONE" THEN "none"
  ELSE IF \/ pc[t] \in Running
          \/ k \in todo[t] /\ (pc[t] \in {"commit", "abort"} \/ op[t].key # k)
       THEN "written"
  ELSE IF k \in todo[t] THEN pc[t]
  ELSE IF pc[t] \in Committing \cup {"committed"} THEN "installed"
  ELSE "undone"

Phases(k) == [t \in Updaters |-> PhaseOf(t, k)]
Deleters(k) == {t \in Updaters : rw_set[t][k] = "DELETE"}

PCs == Running \cup Committing \cup {"abort", "a1", "committed", "aborted"}

-----------------------------------------------------------------------------
(* Transactions.                                                           *)

Walking == {"visible", "cids", "step", "perform", "own", "acquire"}

Ops == [kind : Kinds \cup {"none"}, key : Keys \cup {NULL}, loc : Versions \cup {NULL},
        len : Nat, txn : {INVALID_TXN_ID, INITIAL_TXN_ID} \cup Updaters]

\* Types, and how the variables of a transaction go together.
TypeOK ==
  /\ tuple \in [Keys -> [Versions -> Headers]]
  /\ head \in [Keys -> Versions]
  /\ rw_set \in [Txns -> [Keys -> {"NONE", "UPDATE", "DELETE"}]]
  /\ pc \in [Txns -> PCs]
  /\ op \in [Txns -> Ops]
  /\ todo \in [Txns -> SUBSET Keys]
  /\ read_id \in [Txns -> Nat]
  /\ reads \in [Txns -> [Keys -> SUBSET (Versions \cup {NULL})]]

ControlOK(t) ==
  /\ pc[t] \in Walking => op[t].key \in Keys /\ op[t].loc \in Versions
  /\ pc[t] \in {"c1", "c2", "c3", "a1"} => op[t].key \in todo[t]
  /\ todo[t] \subseteq Written(t)
  /\ pc[t] \in Running \cup {"committed", "aborted"} => todo[t] = {}
  /\ t \in Updaters => read_id[t] = t
  /\ t \in Readers => /\ Written(t) = {}
                      /\ pc[t] \in {"idle", "visible", "cids", "step", "perform",
                                    "committed"}

\* An updater on its way to the version it will own.
UpdaterOK(t, p, o, h, ph) ==
  LET v == o.loc
  IN  /\ p = "cids" /\ o.txn = t => h[v].txn = t
      /\ p \in {"perform", "own", "acquire"} => v <= t
      /\ p = "own" => h[v].txn = t \/ (InChain(v, ph) /\ t <= h[v].reader)
      /\ p = "acquire" =>
           /\ InChain(v, ph) /\ v < t /\ t <= h[v].reader
           /\ t < h[v].reader \/ (h[v].txn = INITIAL_TXN_ID /\ h[v].end = MAX_CID)

\* A reader of snapshot s on its way: it has not gone past its version.
ReaderOK(s, p, o, h, ph, del) ==
  LET v == o.loc
  IN  p \in Walking =>
        /\ \A w \in Versions : InChain(w, ph) /\ w <= s => w <= v
        /\ ~InChain(v, ph) =>
             /\ s < v /\ v \in Updaters /\ ph[v] # "none"
             /\ h[v].next \in Versions /\ InChain(h[v].next, ph)
             /\ \A w \in Versions : InChain(w, ph) /\ w <= s => w <= h[v].next
        /\ p = "cids" /\ v <= s => (o.txn = INVALID_TXN_ID <=> v \in del)
        /\ p = "step" => s < v
        /\ p = "perform" => v <= s /\ v \notin del

KeyInv == \A k \in Keys : KeyOK(tuple[k], head[k], Phases(k), Deleters(k))

\* An updater, and what it has read: versions that it is a known reader of.
UpdaterInv(t) ==
  /\ pc[t] \in Walking =>
       UpdaterOK(t, pc[t], op[t], tuple[op[t].key], Phases(op[t].key))
  /\ \A k \in Keys : \A v \in reads[t][k] \ {NULL} :
       v \in Versions /\ InChain(v, Phases(k)) /\ t <= tuple[k][v].reader

\* A reader, whose snapshot nobody is writing any more, and what it has read.
ReaderInv(r) ==
  /\ pc[r] \in Walking =>
       ReaderOK(read_id[r], pc[r], op[r], tuple[op[r].key], Phases(op[r].key),
                Deleters(op[r].key))
  /\ \/ read_id[r] = 0 /\ pc[r] = "idle" /\ \A k \in Keys : reads[r][k] = {}
     \/ /\ read_id[r] \in Versions
        /\ \A t \in Updaters : t <= read_id[r] => Ended(t)
  /\ \A k \in Keys : \A v \in reads[r][k] :
       \E last \in Versions :
         /\ Newest(last, read_id[r], Phases(k))
         /\ v = IF last \in Deleters(k) THEN NULL ELSE last

Inv == /\ TypeOK /\ KeyInv
       /\ \A t \in Txns : ControlOK(t)
       /\ \A t \in Updaters : UpdaterInv(t)
       /\ \A r \in Readers : ReaderInv(r)

-----------------------------------------------------------------------------
(* A step of one transaction, seen by the others.                          *)

\* A step of t leaves what the others know alone.
Alone(t) ==
  \A u \in Txns \ {t} :
    /\ pc'[u] = pc[u] /\ op'[u] = op[u] /\ todo'[u] = todo[u]
    /\ rw_set'[u] = rw_set[u] /\ read_id'[u] = read_id[u] /\ reads'[u] = reads[u]

\* The types of what t knows.
TxnType(t) ==
  /\ rw_set[t] \in [Keys -> {"NONE", "UPDATE", "DELETE"}]
  /\ pc[t] \in PCs /\ op[t] \in Ops /\ todo[t] \in SUBSET Keys /\ read_id[t] \in Nat
  /\ reads[t] \in [Keys -> SUBSET (Versions \cup {NULL})]

\* The variables are functions.
Shape == /\ tuple = [k \in Keys |-> tuple[k]] /\ head = [k \in Keys |-> head[k]]
         /\ rw_set = [t \in Txns |-> rw_set[t]] /\ pc = [t \in Txns |-> pc[t]]
         /\ op = [t \in Txns |-> op[t]] /\ todo = [t \in Txns |-> todo[t]]
         /\ read_id = [t \in Txns |-> read_id[t]] /\ reads = [t \in Txns |-> reads[t]]

\* A step of t keeps the version chains in order.
KeyStep(t) ==
  \A k \in Keys :
    /\ KeyOK(tuple'[k], head'[k], Phases(k)', Deleters(k)')
    /\ StepOK(t, tuple[k], Phases(k), Deleters(k), tuple'[k], Phases(k)', Deleters(k)')

\* What the steps of t do to its own part of the invariant.
SelfStep(t) ==
  /\ TxnType(t)' /\ ControlOK(t)' /\ KeyStep(t)
  /\ t \in Updaters => UpdaterInv(t)'
  /\ t \in Readers => ReaderInv(t)'

\* Transactions are either updaters or readers.
LEMMA TxnKinds ==
  /\ Txns = Updaters \cup Readers /\ Updaters \subseteq Txns /\ Readers \subseteq Txns
  /\ \A t \in Txns : t \in Updaters <=> t \notin Readers
<1>1. QED
  BY MaxCid DEF Txns

\* The phase of a transaction depends on its own variables.
LEMMA PhaseAlone ==
  ASSUME NEW t \in Txns, Alone(t), NEW u \in Updaters, u # t, NEW k \in Keys
  PROVE  /\ PhaseOf(u, k)' = PhaseOf(u, k)
         /\ u \in Deleters(k)' <=> u \in Deleters(k)
<1>1. pc'[u] = pc[u] /\ op'[u] = op[u] /\ todo'[u] = todo[u] /\ rw_set'[u] = rw_set[u]
  BY TxnKinds DEF Alone
<1>2. QED
  BY <1>1 DEF PhaseOf, Deleters

\* So a step of t changes the phase of t only, if any.
LEMMA PhasesOf ==
  ASSUME NEW t \in Txns, Alone(t), NEW k \in Keys
  PROVE  /\ t \in Updaters => Phases(k)' = [Phases(k) EXCEPT ![t] = PhaseOf(t, k)']
         /\ t \in Readers => Phases(k)' = Phases(k) /\ Deleters(k)' = Deleters(k)
         /\ \A u \in Updaters : Phases(k)[u] = PhaseOf(u, k)
<1>1. \A u \in Updaters : u # t => PhaseOf(u, k)' = PhaseOf(u, k)
                                   /\ (u \in Deleters(k)' <=> u \in Deleters(k))
  BY PhaseAlone
<1>2. t \in Readers => \A u \in Updaters : u # t
  BY TxnKinds
<1>3. Deleters(k)' \subseteq Updaters /\ Deleters(k) \subseteq Updaters
  BY DEF Deleters
<1>4. \A u \in Updaters : Phases(k)[u] = PhaseOf(u, k)
  BY DEF Phases
<1>5. t \in Updaters => Phases(k)' = [Phases(k) EXCEPT ![t] = PhaseOf(t, k)']
  BY <1>1 DEF Phases
<1>6. t \in Readers => Phases(k)' = Phases(k)
  BY <1>1, <1>2 DEF Phases
<1>7. t \in Readers => Deleters(k)' = Deleters(k)
  BY ONLY <1>1, <1>2, <1>3
<1>8. QED
  BY <1>4, <1>5, <1>6, <1>7

\* A step that touches no version is harmless.
LEMMA NoStep ==
  ASSUME NEW a, NEW h \in [Versions -> Headers], NEW ph, NEW del
  PROVE  StepOK(a, h, ph, del, h, ph, del)
<1>1. ASSUME NEW v \in Versions PROVE SafeFor(a, v, h, ph, del, h, ph, del)
  <2>1. h[v].reader <= h[v].reader
    BY DEF Headers
  <2>2. QED
    BY ONLY <2>1 DEF SafeFor
<1>2. QED
  BY <1>1 DEF StepOK

\* An updater on its way is not disturbed by a step of another transaction.
LEMMA UpdaterFrame ==
  ASSUME NEW t \in Updaters, NEW a, a # t, NEW p, NEW o, o.loc \in Versions,
         NEW h \in [Versions -> Headers], NEW ph, NEW del,
         NEW h2 \in [Versions -> Headers], NEW ph2, NEW del2,
         StepOK(a, h, ph, del, h2, ph2, del2), UpdaterOK(t, p, o, h, ph)
  PROVE  UpdaterOK(t, p, o, h2, ph2)
<1> DEFINE v == o.loc
<1>1. v \in Versions /\ t \in Updaters /\ a # t /\ SafeFor(a, v, h, ph, del, h2, ph2, del2)
  BY DEF StepOK
<1>2. h[v].reader \in Nat /\ h2[v].reader \in Nat /\ t \in Nat
  BY <1>1, MaxCid DEF Headers
<1>3. UpdaterOK(t, p, o, h, ph)
  OBVIOUS
<1>4. h[v].txn = t => h2[v].txn = t
  BY ONLY <1>1 DEF SafeFor
<1>5. InChain(v, ph) /\ t <= h[v].reader => InChain(v, ph2) /\ t <= h2[v].reader
  BY ONLY <1>1, <1>2 DEF SafeFor
<1>6. InChain(v, ph) /\ t <= h[v].reader
      /\ (t < h[v].reader \/ (h[v].txn = INITIAL_TXN_ID /\ h[v].end = MAX_CID))
      => (t < h2[v].reader \/ (h2[v].txn = INITIAL_TXN_ID /\ h2[v].end = MAX_CID))
  BY ONLY <1>1 DEF SafeFor
<1>7. QED
  BY ONLY <1>3, <1>4, <1>5, <1>6 DEF UpdaterOK

\* A step of an updater that is later than snapshot s adds no version up to s.
LEMMA SnapshotFrame ==
  ASSUME NEW s \in Nat, NEW a, a \in Updaters => s < a, NEW h, NEW ph, NEW del,
         NEW h2, NEW ph2, NEW del2, StepOK(a, h, ph, del, h2, ph2, del2),
         NEW w \in Versions, w <= s
  PROVE  InChain(w, ph2) <=> InChain(w, ph)
<1>1. SafeFor(a, w, h, ph, del, h2, ph2, del2)
  BY DEF StepOK
<1>2. InChain(w, ph2) /\ ~InChain(w, ph) => w = a /\ w \in Updaters
  BY <1>1 DEF SafeFor, InChain
<1>3. w \in Nat
  BY MaxCid
<1>4. InChain(w, ph) => InChain(w, ph2)
  BY <1>1 DEF SafeFor
<1>5. QED
  BY <1>2, <1>3, <1>4

\* What a reader has read stays the newest version of its snapshot.
LEMMA NewestFrame ==
  ASSUME NEW s \in Nat, NEW a, a \in Updaters => s < a, NEW h, NEW ph, NEW del,
         NEW h2, NEW ph2, NEW del2, StepOK(a, h, ph, del, h2, ph2, del2),
         NEW v, Newest(v, s, ph)
  PROVE  Newest(v, s, ph2) /\ (v \in del2 <=> v \in del)
<1>1. v \in Versions /\ InChain(v, ph) /\ v <= s
  BY DEF Newest
<1>2. \A w \in Versions : w <= s => (InChain(w, ph2) <=> InChain(w, ph))
  BY SnapshotFrame
<1>3. v \in del2 <=> v \in del
  BY <1>1 DEF StepOK, SafeFor
<1>4. Newest(v, s, ph)
  OBVIOUS
<1>5. QED
  BY ONLY <1>1, <1>2, <1>3, <1>4 DEF Newest

\* A reader on its way is not disturbed by the updaters after its snapshot.
LEMMA ReaderFrame ==
  ASSUME NEW s \in Nat, NEW a, a \in Updaters => s < a, NEW p, NEW o,
         o.loc \in Versions, NEW h, NEW ph, NEW del, NEW h2, NEW ph2, NEW del2,
         StepOK(a, h, ph, del, h2, ph2, del2), ReaderOK(s, p, o, h, ph, del)
  PROVE  ReaderOK(s, p, o, h2, ph2, del2)
<1> DEFINE v == o.loc
<1>1. v \in Versions /\ v \in Nat /\ SafeFor(a, v, h, ph, del, h2, ph2, del2)
  BY MaxCid DEF StepOK
<1>2. \A w \in Versions : w <= s => (InChain(w, ph2) <=> InChain(w, ph))
  BY SnapshotFrame
<1>3. ReaderOK(s, p, o, h, ph, del) /\ s \in Nat
  OBVIOUS
<1>4. \A w \in Versions : InChain(w, ph) => InChain(w, ph2)
  BY DEF StepOK, SafeFor
<1>5. p \in Walking /\ v <= s => InChain(v, ph) /\ (v \in del2 <=> v \in del)
  <2>1. p \in Walking /\ v <= s => InChain(v, ph)
    BY ONLY <1>1, <1>3 DEF ReaderOK
  <2>2. QED
    BY ONLY <2>1, <1>1 DEF SafeFor
<1>6. p \in Walking /\ ~InChain(v, ph2) =>
        /\ s < v /\ v \in Updaters /\ ph2[v] # "none" /\ h2[v].next = h[v].next
        /\ h[v].next \in Versions /\ InChain(h[v].next, ph2)
        /\ \A w \in Versions : InChain(w, ph) /\ w <= s => w <= h[v].next
  <2>1. SUFFICES ASSUME p \in Walking, ~InChain(v, ph2)
                 PROVE  /\ s < v /\ v \in Updaters /\ ph2[v] # "none"
                        /\ h2[v].next = h[v].next
                        /\ h[v].next \in Versions /\ InChain(h[v].next, ph2)
                        /\ \A w \in Versions : InChain(w, ph) /\ w <= s => w <= h[v].next
    OBVIOUS
  <2>2. ~InChain(v, ph)
    BY ONLY <2>1, <1>1, <1>4
  <2>3. /\ s < v /\ v \in Updaters /\ ph[v] # "none"
        /\ h[v].next \in Versions /\ InChain(h[v].next, ph)
        /\ \A w \in Versions : InChain(w, ph) /\ w <= s => w <= h[v].next
    BY ONLY <2>1, <2>2, <1>3 DEF ReaderOK
  <2>4. ph2[v] # "none" /\ h2[v].next = h[v].next
    BY ONLY <2>3, <1>1 DEF SafeFor
  <2>5. QED
    BY ONLY <2>3, <2>4, <1>4
<1>7. p \in Walking => \A w \in Versions : InChain(w, ph2) /\ w <= s => w <= v
  BY ONLY <1>2, <1>3 DEF ReaderOK
<1>8. /\ p = "cids" /\ v <= s => (o.txn = INVALID_TXN_ID <=> v \in del2)
      /\ p = "step" => s < v
      /\ p = "perform" => v <= s /\ v \notin del2
  BY ONLY <1>3, <1>5 DEF ReaderOK, Walking
<1>9. QED
  BY ONLY <1>2, <1>6, <1>7, <1>8 DEF ReaderOK

\* A step of t that keeps its own part of the invariant keeps the invariant.
LEMMA OthersStep ==
  ASSUME Inv, NEW t \in Txns, Alone(t), Shape', SelfStep(t), t \in Updaters => ~Ended(t)
  PROVE  Inv'
<1>0. TypeOK /\ TypeOK' /\ KeyInv /\ KeyStep(t)
  <2>1. TypeOK /\ KeyInv /\ KeyStep(t) /\ TxnType(t)' /\ Shape' /\ Alone(t)
    BY DEF Inv, SelfStep
  <2>2. ASSUME NEW u \in Txns PROVE TxnType(u)'
    <3>1. CASE u = t
      BY <2>1, <3>1
    <3>2. CASE u # t
      <4>1. TxnType(u)
        BY ONLY <2>1, <2>2 DEF TypeOK, TxnType
      <4>2. QED
        BY ONLY <2>1, <2>2, <3>2, <4>1 DEF TxnType, Alone
    <3>3. QED
      BY <3>1, <3>2
  <2>3. ASSUME NEW k \in Keys
        PROVE  tuple'[k] \in [Versions -> Headers] /\ head'[k] \in Versions
    BY ONLY <2>1, <2>3 DEF KeyStep, KeyOK, KeyType
  <2>4. tuple' \in [Keys -> [Versions -> Headers]] /\ head' \in [Keys -> Versions]
    BY ONLY <2>1, <2>3 DEF Shape
  <2>5. /\ rw_set' \in [Txns -> [Keys -> {"NONE", "UPDATE", "DELETE"}]]
        /\ pc' \in [Txns -> PCs] /\ op' \in [Txns -> Ops]
    BY ONLY <2>1, <2>2 DEF Shape, TxnType
  <2>6. /\ todo' \in [Txns -> SUBSET Keys] /\ read_id' \in [Txns -> Nat]
        /\ reads' \in [Txns -> [Keys -> SUBSET (Versions \cup {NULL})]]
    BY ONLY <2>1, <2>2 DEF Shape, TxnType
  <2>7. QED
    BY ONLY <2>1, <2>4, <2>5, <2>6 DEF TypeOK
<1>1. KeyInv'
  BY <1>0 DEF KeyInv, KeyStep
<1>2. ASSUME NEW k \in Keys
      PROVE  /\ tuple[k] \in [Versions -> Headers] /\ tuple'[k] \in [Versions -> Headers]
             /\ StepOK(t, tuple[k], Phases(k), Deleters(k),
                       tuple'[k], Phases(k)', Deleters(k)')
  BY <1>0 DEF TypeOK, KeyStep
<1>3. ASSUME NEW u \in Txns, u # t
      PROVE  /\ pc'[u] = pc[u] /\ op'[u] = op[u] /\ todo'[u] = todo[u]
             /\ rw_set'[u] = rw_set[u] /\ read_id'[u] = read_id[u] /\ reads'[u] = reads[u]
  BY <1>3 DEF Alone
<1>4. ASSUME NEW u \in Txns PROVE ControlOK(u)'
  <2>1. CASE u = t
    BY <2>1 DEF SelfStep
  <2>2. CASE u # t
    <3>1. ControlOK(u)
      BY DEF Inv
    <3>2. QED
      BY ONLY <1>3, <2>2, <3>1, <1>4 DEF ControlOK, Written
  <2>3. QED
    BY <2>1, <2>2
<1>5. ASSUME NEW u \in Updaters PROVE UpdaterInv(u)'
  <2>1. CASE u = t
    BY <2>1 DEF SelfStep
  <2>2. CASE u # t
    <3>1. UpdaterInv(u) /\ u \in Txns /\ ControlOK(u) /\ u \in Nat
      BY TxnKinds, MaxCid DEF Inv
    <3>2. pc'[u] = pc[u] /\ op'[u] = op[u] /\ reads'[u] = reads[u]
      BY ONLY <1>3, <2>2, <3>1
    <3>3. ASSUME pc[u] \in Walking
          PROVE  UpdaterOK(u, pc[u], op[u], tuple'[op[u].key], Phases(op[u].key)')
      <4>1. op[u].key \in Keys /\ op[u].loc \in Versions
        BY ONLY <3>1, <3>3 DEF ControlOK
      <4>2. UpdaterOK(u, pc[u], op[u], tuple[op[u].key], Phases(op[u].key))
        BY ONLY <3>1, <3>3 DEF UpdaterInv
      <4>a. PICK k \in Keys : k = op[u].key
        BY ONLY <4>1
      <4>3. /\ tuple[k] \in [Versions -> Headers] /\ tuple'[k] \in [Versions -> Headers]
            /\ StepOK(t, tuple[k], Phases(k), Deleters(k),
                      tuple'[k], Phases(k)', Deleters(k)')
        BY ONLY <1>2, <4>a
      <4>4. u \in Updaters /\ t # u
        BY <1>5, <2>2
      <4>5. UpdaterOK(u, pc[u], op[u], tuple[k], Phases(k))
        BY ONLY <4>2, <4>a
      <4>6. UpdaterOK(u, pc[u], op[u], tuple'[k], Phases(k)')
        BY ONLY <4>1, <4>3, <4>4, <4>5, UpdaterFrame
      <4>7. QED
        BY ONLY <4>6, <4>a, <3>2
    <3>4. ASSUME NEW k \in Keys, NEW v \in reads[u][k] \ {NULL}
          PROVE  v \in Versions /\ InChain(v, Phases(k)') /\ u <= tuple'[k][v].reader
      <4>1. v \in Versions /\ InChain(v, Phases(k)) /\ u <= tuple[k][v].reader
        BY ONLY <3>1, <3>4 DEF UpdaterInv
      <4>2. SafeFor(t, v, tuple[k], Phases(k), Deleters(k),
                    tuple'[k], Phases(k)', Deleters(k)')
        BY ONLY <1>2, <3>4, <4>1 DEF StepOK
      <4>3. tuple[k][v].reader \in Nat /\ tuple'[k][v].reader \in Nat
        BY ONLY <1>2, <3>4, <4>1 DEF Headers
      <4>4. QED
        BY ONLY <4>1, <4>2, <4>3, <3>1 DEF SafeFor
    <3>5. QED
      BY ONLY <3>2, <3>3, <3>4 DEF UpdaterInv
  <2>3. QED
    BY <2>1, <2>2
<1>6. ASSUME NEW u \in Readers PROVE ReaderInv(u)'
  <2>1. CASE u = t
    BY <2>1 DEF SelfStep
  <2>2. CASE u # t
    <3>1. ReaderInv(u) /\ u \in Txns /\ ControlOK(u) /\ read_id[u] \in Nat
      BY TxnKinds, <1>0 DEF Inv, TypeOK
    <3>2. pc'[u] = pc[u] /\ op'[u] = op[u] /\ reads'[u] = reads[u]
          /\ read_id'[u] = read_id[u]
      BY ONLY <1>3, <2>2, <3>1
    <3>3. CASE read_id[u] = 0
      <4>1. /\ pc[u] = "idle" /\ \A k \in Keys : reads[u][k] = {}
        <5>1. 0 \notin Versions
          BY UpdatersAssumption DEF Versions, Loader
        <5>2. QED
          BY ONLY <5>1, <3>1, <3>3 DEF ReaderInv
      <4>2. "idle" \notin Walking
        BY DEF Walking
      <4>3. QED
        BY ONLY <4>1, <4>2, <3>2, <3>3 DEF ReaderInv
    <3>4. CASE read_id[u] # 0
      <4>1. read_id[u] \in Versions /\ \A w \in Updaters : w <= read_id[u] => Ended(w)
        BY ONLY <3>1, <3>4 DEF ReaderInv
      <4>2. t \in Updaters => read_id[u] < t
        <5>1. t \in Updaters => t \in Nat
          BY MaxCid
        <5>2. QED
          BY <5>1, <4>1, <3>1
      <4>3. \A w \in Updaters : w <= read_id[u] => Ended(w)'
        <5>1. ASSUME NEW w \in Updaters, w <= read_id[u] PROVE Ended(w)'
          <6>1. w # t /\ w \in Txns
            BY <4>2, <5>1, <4>1, <3>1, TxnKinds
          <6>2. QED
            BY ONLY <6>1, <5>1, <4>1, <1>3 DEF Ended
        <5>2. QED
          BY <5>1
      <4>4. ASSUME pc[u] \in Walking
            PROVE  ReaderOK(read_id[u], pc[u], op[u], tuple'[op[u].key],
                            Phases(op[u].key)', Deleters(op[u].key)')
        <5>1. op[u].key \in Keys /\ op[u].loc \in Versions
          BY ONLY <3>1, <4>4 DEF ControlOK
        <5>2. ReaderOK(read_id[u], pc[u], op[u], tuple[op[u].key],
                       Phases(op[u].key), Deleters(op[u].key))
          BY ONLY <3>1, <4>4 DEF ReaderInv
        <5>a. PICK k \in Keys : k = op[u].key
          BY ONLY <5>1
        <5>3. StepOK(t, tuple[k], Phases(k), Deleters(k),
                     tuple'[k], Phases(k)', Deleters(k)')
          BY ONLY <1>2, <5>a
        <5>4. ReaderOK(read_id[u], pc[u], op[u], tuple[k], Phases(k), Deleters(k))
          BY ONLY <5>2, <5>a
        <5>5. ReaderOK(read_id[u], pc[u], op[u], tuple'[k], Phases(k)', Deleters(k)')
          BY ONLY <3>1, <4>2, <5>1, <5>3, <5>4, ReaderFrame
        <5>6. QED
          BY ONLY <5>5, <5>a, <3>2
      <4>5. ASSUME NEW k \in Keys, NEW v \in reads[u][k]
            PROVE  \E last \in Versions :
                     /\ Newest(last, read_id[u], Phases(k)')
                     /\ v = IF last \in Deleters(k)' THEN NULL ELSE last
        <5>1. PICK last \in Versions :
                /\ Newest(last, read_id[u], Phases(k))
                /\ v = IF last \in Deleters(k) THEN NULL ELSE last
          BY ONLY <3>1, <4>5 DEF ReaderInv
        <5>2. Newest(last, read_id[u], Phases(k)')
              /\ (last \in Deleters(k)' <=> last \in Deleters(k))
          BY ONLY <5>1, <1>2, <3>1, <4>2, <4>5, NewestFrame
        <5>3. QED
          BY ONLY <5>1, <5>2
      <4>6. QED
        BY ONLY <3>2, <4>1, <4>3, <4>4, <4>5 DEF ReaderInv
    <3>5. QED
      BY <3>3, <3>4
  <2>3. QED
    BY <2>1, <2>2
<1>7. QED
  BY <1>0, <1>1, <1>4, <1>5, <1>6 DEF Inv

-----------------------------------------------------------------------------
(* The actions.                                                            *)

\* Every action changes the variables of its own transaction only.
LEMMA AloneStep ==
  ASSUME TypeOK, NEW t \in Txns, Work(t) \/ Client(t)
  PROVE  Alone(t) /\ Shape' /\ (t \in Updaters => ~Ended(t))
<1>0. Shape
  <2>1. tuple = [k \in Keys |-> tuple[k]] /\ head = [k \in Keys |-> head[k]]
    BY DEF TypeOK
  <2>2. rw_set = [u \in Txns |-> rw_set[u]] /\ pc = [u \in Txns |-> pc[u]]
    BY DEF TypeOK
  <2>3. op = [u \in Txns |-> op[u]] /\ todo = [u \in Txns |-> todo[u]]
    BY DEF TypeOK
  <2>4. read_id = [u \in Txns |-> read_id[u]] /\ reads = [u \in Txns |-> reads[u]]
    BY DEF TypeOK
  <2>5. QED
    BY <2>1, <2>2, <2>3, <2>4 DEF Shape
<1> USE DEF Move, Done, Fail, Finish, Set, Ended, Alone, Shape
<1>1. CASE LoadTransactionId(t)
  BY ONLY <1>0, <1>1 DEF LoadTransactionId
<1>2. CASE CheckVisible(t)
  BY ONLY <1>0, <1>2 DEF CheckVisible
<1>3. CASE StepChain(t)
  BY ONLY <1>0, <1>3 DEF StepChain
<1>4. CASE PerformRead(t)
  BY ONLY <1>0, <1>4 DEF PerformRead
<1>5. CASE UpdateInPlace(t)
  BY ONLY <1>0, <1>5 DEF UpdateInPlace, IsOwnVersion
<1>6. CASE DeleteInPlace(t)
  BY ONLY <1>0, <1>6 DEF DeleteInPlace, IsOwnVersion
<1>7. CASE IsOwnable(t)
  BY ONLY <1>0, <1>7 DEF IsOwnable
<1>8. CASE PerformUpdate(t)
  BY ONLY <1>0, <1>8 DEF PerformUpdate, Install
<1>9. CASE PerformDelete(t)
  BY ONLY <1>0, <1>9 DEF PerformDelete, Install
<1>10. CASE AcquireFails(t)
  BY ONLY <1>0, <1>10 DEF AcquireFails
<1>11. CASE CommitBegin(t)
  BY ONLY <1>0, <1>11 DEF CommitBegin
<1>12. CASE CommitEnd(t)
  BY ONLY <1>0, <1>12 DEF CommitEnd
<1>13. CASE CommitNew(t)
  BY ONLY <1>0, <1>13 DEF CommitNew
<1>14. CASE CommitOld(t)
  BY ONLY <1>0, <1>14 DEF CommitOld
<1>15. CASE AbortHead(t)
  BY ONLY <1>0, <1>15 DEF AbortHead
<1>16. CASE AbortUnlink(t)
  BY ONLY <1>0, <1>16 DEF AbortUnlink
<1>17. CASE BeginReader(t)
  BY ONLY <1>0, <1>17, TxnKinds DEF BeginReader
<1>18. CASE \E kind \in Kinds, k \in Keys : Start(t, kind, k)
  BY ONLY <1>0, <1>18 DEF Start
<1>19. CASE Commit(t)
  BY ONLY <1>0, <1>19 DEF Commit
<1>20. CASE UserAbort(t)
  BY ONLY <1>0, <1>20 DEF UserAbort
<1>21. QED
  BY <1>1, <1>2, <1>3, <1>4, <1>5, <1>6, <1>7, <1>8, <1>9, <1>10, <1>11, <1>12, <1>13,
     <1>14, <1>15, <1>16, <1>17, <1>18, <1>19, <1>20 DEF Work, Client

\* While a transaction executes statements, and when it starts to commit or to
\* roll back, its phases do not change as long as it writes nothing.
LEMMA QuietKeys ==
  ASSUME Inv, NEW t \in Txns, Alone(t), UNCHANGED <<tuple, head, rw_set>>,
         pc[t] \in Running,
         \/ pc'[t] \in Running
         \/ todo'[t] = Written(t) /\ pc'[t] \in {"commit", "abort"}
         \/ todo'[t] = Written(t) /\ Written(t) = {}
  PROVE  /\ KeyStep(t)
         /\ \A k \in Keys : Phases(k)' = Phases(k) /\ Deleters(k)' = Deleters(k)
<1>0. TypeOK /\ KeyInv /\ \A k \in Keys : tuple[k] \in [Versions -> Headers]
  BY DEF Inv, TypeOK
<1>1. ASSUME NEW k \in Keys
      PROVE  Phases(k)' = Phases(k) /\ Deleters(k)' = Deleters(k)
  <2>1. CASE t \in Readers
    BY <2>1, PhasesOf
  <2>2. CASE t \in Updaters
    <3>1. PhaseOf(t, k)' = PhaseOf(t, k)
      <4>1. rw_set'[t][k] = rw_set[t][k]
        OBVIOUS
      <4>2. CASE rw_set[t][k] = "NONE"
        BY <4>1, <4>2 DEF PhaseOf
      <4>3. CASE rw_set[t][k] # "NONE"
        <5>1. PhaseOf(t, k) = "written"
          BY <4>3 DEF PhaseOf
        <5>2. k \in Written(t)
          BY <4>3 DEF Written
        <5>3. PhaseOf(t, k)' = "written"
          BY <4>1, <4>3, <5>2 DEF PhaseOf, Running
        <5>4. QED
          BY <5>1, <5>3
      <4>4. QED
        BY <4>2, <4>3
    <3>2. Phases(k)[t] = PhaseOf(t, k) /\ Phases(k) = [u \in Updaters |-> Phases(k)[u]]
      BY <2>2 DEF Phases
    <3>3. Phases(k)' = [Phases(k) EXCEPT ![t] = PhaseOf(t, k)']
      BY <2>2, PhasesOf
    <3>4. Phases(k)' = Phases(k)
      BY ONLY <3>1, <3>2, <3>3
    <3>5. Deleters(k)' = Deleters(k)
      BY DEF Deleters
    <3>6. QED
      BY <3>4, <3>5
  <2>3. QED
    BY <2>1, <2>2, TxnKinds
<1>2. ASSUME NEW k \in Keys
      PROVE  /\ KeyOK(tuple[k], head[k], Phases(k), Deleters(k))
             /\ StepOK(t, tuple[k], Phases(k), Deleters(k),
                       tuple[k], Phases(k), Deleters(k))
  BY <1>0, NoStep DEF KeyInv
<1>3. QED
  BY <1>1, <1>2 DEF KeyStep

\* The part of the invariant that is about transaction t, after a step in which
\* it writes nothing.
LEMMA QuietSelf ==
  ASSUME Inv, NEW t \in Txns, Alone(t), UNCHANGED <<tuple, head, rw_set, read_id>>,
         pc[t] \in Running,
         \/ pc'[t] \in Running
         \/ todo'[t] = Written(t) /\ pc'[t] \in {"commit", "abort"}
         \/ todo'[t] = Written(t) /\ Written(t) = {},
         TxnType(t)', ControlOK(t)',
         \A k \in Keys : t \in Updaters /\ pc'[t] \in Walking /\ op'[t].key = k =>
           UpdaterOK(t, pc'[t], op'[t], tuple[k], Phases(k)),
         \A k \in Keys : t \in Readers /\ pc'[t] \in Walking /\ op'[t].key = k =>
           ReaderOK(read_id[t], pc'[t], op'[t], tuple[k], Phases(k), Deleters(k)),
         t \in Readers => read_id[t] # 0,
         \A k \in Keys : \A v \in reads'[t][k] :
           \/ v \in reads[t][k]
           \/ t \in Updaters /\ v = NULL
           \/ /\ t \in Readers
              /\ \E last \in Versions :
                   /\ Newest(last, read_id[t], Phases(k))
                   /\ v = IF last \in Deleters(k) THEN NULL ELSE last
  PROVE  SelfStep(t)
<1>1. KeyStep(t)
  BY QuietKeys
<1>2. \A k \in Keys : Phases(k)' = Phases(k) /\ Deleters(k)' = Deleters(k)
  BY QuietKeys
<1>3. tuple' = tuple /\ read_id' = read_id
  OBVIOUS
<1>4. pc'[t] \in Walking => op'[t].key \in Keys
  BY DEF ControlOK
<1>5. ASSUME t \in Updaters PROVE UpdaterInv(t)'
  <2>1. UpdaterInv(t)
    BY <1>5 DEF Inv
  <2>2. ASSUME pc'[t] \in Walking
        PROVE  UpdaterOK(t, pc'[t], op'[t], tuple'[op'[t].key], Phases(op[t].key)')
    <3>1. PICK k \in Keys : op'[t].key = k
      BY <2>2, <1>4
    <3>2. UpdaterOK(t, pc'[t], op'[t], tuple[k], Phases(k))
      BY <1>5, <2>2, <3>1
    <3>3. QED
      BY ONLY <1>2, <1>3, <3>1, <3>2
  <2>3. ASSUME NEW k \in Keys, NEW v \in reads'[t][k] \ {NULL}
        PROVE  v \in Versions /\ InChain(v, Phases(k)') /\ t <= tuple'[k][v].reader
    <3>1. v \in reads[t][k] \ {NULL}
      BY <1>5, <2>3, TxnKinds
    <3>2. QED
      BY ONLY <3>1, <2>1, <2>3, <1>2, <1>3 DEF UpdaterInv
  <2>4. QED
    BY ONLY <2>2, <2>3 DEF UpdaterInv
<1>6. ASSUME t \in Readers PROVE ReaderInv(t)'
  <2>1. ReaderInv(t) /\ read_id[t] # 0
    BY <1>6 DEF Inv
  <2>2. ASSUME pc'[t] \in Walking
        PROVE  ReaderOK(read_id'[t], pc'[t], op'[t], tuple'[op'[t].key],
                        Phases(op[t].key)', Deleters(op[t].key)')
    <3>1. PICK k \in Keys : op'[t].key = k
      BY <2>2, <1>4
    <3>2. ReaderOK(read_id[t], pc'[t], op'[t], tuple[k], Phases(k), Deleters(k))
      BY <1>6, <2>2, <3>1
    <3>3. QED
      BY ONLY <1>2, <1>3, <3>1, <3>2
  <2>3. ASSUME NEW k \in Keys, NEW v \in reads'[t][k]
        PROVE  \E last \in Versions :
                 /\ Newest(last, read_id'[t], Phases(k)')
                 /\ v = IF last \in Deleters(k)' THEN NULL ELSE last
    <3>1. \E last \in Versions :
            /\ Newest(last, read_id[t], Phases(k))
            /\ v = IF last \in Deleters(k) THEN NULL ELSE last
      <4>1. CASE v \in reads[t][k]
        BY ONLY <4>1, <2>1, <2>3 DEF ReaderInv
      <4>2. CASE v \notin reads[t][k]
        BY <4>2, <2>3, <1>6, TxnKinds
      <4>3. QED
        BY <4>1, <4>2
    <3>2. QED
      BY ONLY <3>1, <2>3, <1>2, <1>3
  <2>4. /\ read_id'[t] \in Versions
        /\ \A u \in Updaters : u <= read_id'[t] => Ended(u)'
    <3>1. read_id[t] \in Versions /\ \A u \in Updaters : u <= read_id[t] => Ended(u)
      BY <2>1 DEF ReaderInv
    <3>2. \A u \in Updaters : pc'[u] = pc[u]
      BY <1>6, TxnKinds DEF Alone
    <3>3. QED
      BY ONLY <3>1, <3>2, <1>3 DEF Ended
  <2>5. QED
    BY ONLY <2>2, <2>3, <2>4 DEF ReaderInv
<1>7. QED
  BY <1>1, <1>5, <1>6 DEF SelfStep

\* Where the versions of an updater that still executes statements are.
LEMMA RunningPhase ==
  ASSUME NEW t \in Updaters, pc[t] \in Running, NEW k \in Keys
  PROVE  /\ Phases(k)[t] \in {"none", "written"} /\ ~InChain(t, Phases(k))
         /\ Phases(k)[t] = "none" <=> rw_set[t][k] = "NONE"
<1>1. Phases(k)[t] = PhaseOf(t, k) /\ t # Loader
  BY MaxCid DEF Phases
<1>2. QED
  BY <1>1 DEF PhaseOf, InChain

\* A transaction that has ended owns nothing.
LEMMA OwnerLives ==
  ASSUME Inv, NEW t \in Updaters, NEW k \in Keys,
         Owns(t, Phases(k)) \/ Phases(k)[t] = "c2"
  PROVE  ~Ended(t)
<1>1. Phases(k)[t] = PhaseOf(t, k) /\ ControlOK(t)
  BY TxnKinds DEF Phases, Inv
<1>2. PhaseOf(t, k) \in {"written", "c1", "c2", "a1"}
  BY <1>1 DEF Owns
<1>3. QED
  BY ONLY <1>1, <1>2 DEF PhaseOf, Ended, ControlOK, Running, Committing

\* A version with a begin commit id is committed, or about to be.
LEMMA BegunVersion ==
  ASSUME NEW h, NEW hd, NEW ph, NEW del, KeyOK(h, hd, ph, del), NEW v \in Versions,
         h[v].begin # MAX_CID
  PROVE  h[v].begin = v /\ (InChain(v, ph) \/ Owns(v, ph))
<1>1. HeldOK(v, h, ph)
  BY DEF KeyOK, TxnOK
<1>2. InChain(v, ph) \/ Owns(v, ph)
  BY <1>1 DEF HeldOK
<1>3. CASE InChain(v, ph)
  BY <1>3 DEF KeyOK, ChainOK, LinkOK
<1>4. CASE Owns(v, ph)
  <2>1. OwnedOK(v, h, hd, ph)
    BY <1>4 DEF KeyOK, OwnerOK, Owns
  <2>2. QED
    BY <2>1, <1>4 DEF OwnedOK
<1>5. QED
  BY <1>2, <1>3, <1>4

\* The versions that an updater owns while it executes statements.
LEMMA OwnVersion ==
  ASSUME NEW h, NEW hd, NEW ph, NEW del, KeyOK(h, hd, ph, del), NEW v \in Versions,
         NEW t \in Updaters, ph[t] \in {"none", "written"}, h[v].txn = t
  PROVE  /\ ph[t] = "written" /\ v <= t
         /\ h[v].begin = MAX_CID => v = t
<1>1. HeldOK(v, h, ph)
  BY DEF KeyOK, TxnOK
<1>2. Owns(t, ph) /\ (v = t \/ v = h[t].next)
  BY <1>1 DEF HeldOK
<1>3. OwnedOK(t, h, hd, ph)
  BY <1>2 DEF KeyOK, OwnerOK
<1>4. ph[t] = "written"
  BY <1>2 DEF Owns
<1>5. h[t].next \in Versions /\ InChain(h[t].next, ph) /\ h[t].next < t
  BY <1>3 DEF OwnedOK
<1>6. h[h[t].next].begin = h[t].next
  BY <1>5 DEF KeyOK, ChainOK, LinkOK
<1>7. h[t].next \in Nat /\ t \in Nat /\ h[t].next < MAX_CID /\ MAX_CID \in Nat
  BY <1>5, MaxCid
<1>8. QED
  BY ONLY <1>2, <1>4, <1>5, <1>6, <1>7

\* The version that a transaction on its way is looking at.
LEMMA Where ==
  ASSUME Inv, NEW t \in Txns, pc[t] \in Walking
  PROVE  \E k \in Keys, v \in Versions :
           /\ op[t].key = k /\ op[t].loc = v /\ At(t) = tuple[k][v]
           /\ tuple[k][v] \in Headers /\ head[k] \in Versions
           /\ KeyOK(tuple[k], head[k], Phases(k), Deleters(k))
           /\ t \in Updaters =>
                read_id[t] = t /\ UpdaterOK(t, pc[t], op[t], tuple[k], Phases(k))
           /\ t \in Readers =>
                /\ read_id[t] # 0 /\ read_id[t] \in Versions
                /\ \A u \in Updaters : u <= read_id[t] => Ended(u)
                /\ ReaderOK(read_id[t], pc[t], op[t], tuple[k], Phases(k), Deleters(k))
<1>1. TypeOK /\ KeyInv /\ ControlOK(t)
  BY DEF Inv
<1>2. op[t].key \in Keys /\ op[t].loc \in Versions
  BY <1>1 DEF ControlOK
<1>3. PICK k \in Keys, v \in Versions : op[t].key = k /\ op[t].loc = v
  BY <1>2
<1>4. At(t) = tuple[k][v] /\ tuple[k][v] \in Headers /\ head[k] \in Versions
  BY <1>1, <1>3 DEF At, TypeOK
<1>5. KeyOK(tuple[k], head[k], Phases(k), Deleters(k))
  BY <1>1 DEF KeyInv
<1>6. t \in Updaters => read_id[t] = t /\ UpdaterOK(t, pc[t], op[t], tuple[k], Phases(k))
  BY <1>1, <1>3 DEF ControlOK, Inv, UpdaterInv
<1>7. t \in Readers =>
        /\ read_id[t] # 0 /\ read_id[t] \in Versions
        /\ \A u \in Updaters : u <= read_id[t] => Ended(u)
        /\ ReaderOK(read_id[t], pc[t], op[t], tuple[k], Phases(k), Deleters(k))
  <2>1. SUFFICES ASSUME t \in Readers
                 PROVE  /\ read_id[t] # 0 /\ read_id[t] \in Versions
                        /\ \A u \in Updaters : u <= read_id[t] => Ended(u)
                        /\ ReaderOK(read_id[t], pc[t], op[t], tuple[k], Phases(k),
                                    Deleters(k))
    OBVIOUS
  <2>2. ReaderInv(t) /\ pc[t] \in Walking /\ pc[t] # "idle"
    BY <2>1 DEF Inv, Walking
  <2>3. 0 \notin Versions
    BY UpdatersAssumption DEF Versions, Loader
  <2>4. QED
    BY ONLY <2>2, <2>3, <1>3 DEF ReaderInv
<1>8. QED
  BY ONLY <1>3, <1>4, <1>5, <1>6, <1>7

\* IsVisible loads the transaction id of the version.
LEMMA LoadStep ==
  ASSUME Inv, NEW t \in Txns, LoadTransactionId(t), Alone(t) PROVE SelfStep(t)
<1>1. /\ pc[t] = "visible" /\ UNCHANGED <<tuple, head, rw_set, todo, read_id, reads>>
      /\ pc' = [pc EXCEPT ![t] = "cids"] /\ op' = [op EXCEPT ![t].txn = At(t).txn]
  BY DEF LoadTransactionId, Move
<1>2. PICK k \in Keys, v \in Versions :
        /\ op[t].key = k /\ op[t].loc = v /\ At(t) = tuple[k][v]
        /\ tuple[k][v] \in Headers /\ KeyOK(tuple[k], head[k], Phases(k), Deleters(k))
        /\ t \in Readers => /\ read_id[t] # 0
             /\ ReaderOK(read_id[t], pc[t], op[t], tuple[k], Phases(k), Deleters(k))
  BY <1>1, Where DEF Walking
<1>3. TypeOK /\ ControlOK(t) /\ t \in Txns
  BY DEF Inv
<1>4. /\ pc'[t] = "cids" /\ op[t] \in Ops /\ op'[t] = [op[t] EXCEPT !.txn = tuple[k][v].txn]
      /\ tuple[k][v].txn \in {INVALID_TXN_ID, INITIAL_TXN_ID} \cup Updaters
  BY ONLY <1>1, <1>2, <1>3 DEF TypeOK, Headers
<1>5. /\ op'[t] \in Ops /\ op'[t].key = k /\ op'[t].loc = v
      /\ op'[t].txn = tuple[k][v].txn /\ op'[t].len = op[t].len
  BY ONLY <1>2, <1>4 DEF Ops
<1>6. TxnType(t)'
  BY ONLY <1>1, <1>3, <1>4, <1>5 DEF TypeOK, TxnType, PCs, Running
<1>7. ControlOK(t)'
  BY ONLY <1>1, <1>3, <1>4, <1>5 DEF ControlOK, Written, Running, Walking
<1>8. UpdaterOK(t, pc'[t], op'[t], tuple[k], Phases(k))
  BY ONLY <1>4, <1>5 DEF UpdaterOK
<1>9. t \in Readers => ReaderOK(read_id[t], pc'[t], op'[t], tuple[k], Phases(k), Deleters(k))
  <2>1. SUFFICES ASSUME t \in Readers
                 PROVE ReaderOK(read_id[t], pc'[t], op'[t], tuple[k], Phases(k), Deleters(k))
    OBVIOUS
  <2>2. ReaderOK(read_id[t], "visible", op[t], tuple[k], Phases(k), Deleters(k))
    BY ONLY <2>1, <1>1, <1>2
  <2>3. InChain(v, Phases(k)) => (tuple[k][v].txn = INVALID_TXN_ID <=> v \in Deleters(k))
    BY ONLY <1>2 DEF KeyOK, ChainOK, LinkOK
  <2>4. v <= read_id[t] => InChain(v, Phases(k))
    <3>1. v \in Nat /\ read_id[t] \in Nat
      BY <1>3, MaxCid DEF TypeOK
    <3>2. QED
      BY ONLY <2>2, <3>1, <1>2 DEF ReaderOK, Walking
  <2>5. QED
    BY ONLY <1>2, <1>4, <1>5, <2>2, <2>3, <2>4 DEF ReaderOK, Walking
<1>10. pc[t] \in Running /\ pc'[t] \in Running
  BY ONLY <1>1, <1>4 DEF Running
<1>11. QED
  BY <1>1, <1>2, <1>5, <1>6, <1>7, <1>8, <1>9, <1>10, QuietSelf

\* A reader sees the newest version of its snapshot and nothing else.
LEMMA ReaderSees ==
  ASSUME Inv, NEW k \in Keys, NEW v \in Versions, NEW s \in Versions,
         \A u \in Updaters : u <= s => Ended(u), NEW p \in Walking, NEW o, o.loc = v,
         ReaderOK(s, p, o, tuple[k], Phases(k), Deleters(k))
  PROVE  /\ tuple[k][v].begin <= s <=> v <= s
         /\ v <= s => InChain(v, Phases(k)) /\ Newest(v, s, Phases(k)) /\ s < tuple[k][v].end
<1> DEFINE h == tuple[k]
           ph == Phases(k)
<1>0. KeyOK(h, head[k], ph, Deleters(k)) /\ h[v] \in Headers
  BY DEF Inv, KeyInv, TypeOK
<1>1. /\ \A w \in Versions : InChain(w, ph) /\ w <= s => w <= v
      /\ ~InChain(v, ph) => s < v
  BY DEF ReaderOK
<1>2. v \in Nat /\ s \in Nat /\ s < MAX_CID /\ MAX_CID \in Nat /\ h[v].begin \in Nat
      /\ h[v].end \in Nat /\ Updaters \subseteq Nat /\ Updaters \subseteq Versions
      /\ v \in Versions
  BY <1>0, MaxCid DEF Headers
<1>3. \A u \in Updaters : Owns(u, ph) \/ ph[u] = "c2" => s < u
  <2>1. SUFFICES ASSUME NEW u \in Updaters, Owns(u, ph) \/ ph[u] = "c2" PROVE s < u
    OBVIOUS
  <2>2. ~Ended(u)
    BY <2>1, OwnerLives
  <2>3. QED
    BY <2>2, <1>2
<1> HIDE DEF h, ph
<1>4. h[v].begin <= s => v <= s
  <2>1. SUFFICES ASSUME h[v].begin <= s PROVE v <= s
    OBVIOUS
  <2>2. h[v].begin # MAX_CID
    BY ONLY <2>1, <1>2
  <2>3. h[v].begin = v
    BY ONLY <2>2, <1>0, <1>2, BegunVersion
  <2>4. QED
    BY ONLY <2>1, <2>3
<1>5. ASSUME v <= s
      PROVE  /\ InChain(v, ph) /\ h[v].begin = v /\ Newest(v, s, ph) /\ s < h[v].end
  <2>1. InChain(v, ph)
    BY ONLY <1>1, <1>2, <1>5
  <2>2. LinkOK(v, h, ph, Deleters(k))
    BY ONLY <1>0, <1>2, <2>1 DEF KeyOK, ChainOK
  <2>3. Newest(v, s, ph)
    BY ONLY <1>1, <1>2, <1>5, <2>1 DEF Newest
  <2>4. s < h[v].end
    <3>1. CASE h[v].end = MAX_CID
      BY ONLY <3>1, <1>2
    <3>2. CASE h[v].end # MAX_CID
      <4>1. h[v].end \in Updaters /\ v < h[v].end
            /\ (InChain(h[v].end, ph) \/ ph[h[v].end] = "c2")
        BY ONLY <2>2, <3>2 DEF LinkOK
      <4>2. CASE InChain(h[v].end, ph)
        <5>1. h[v].end <= s => h[v].end <= v
          BY ONLY <4>1, <4>2, <1>1, <1>2
        <5>2. QED
          BY ONLY <4>1, <5>1, <1>2
      <4>3. CASE ph[h[v].end] = "c2"
        BY ONLY <4>1, <4>3, <1>3
      <4>4. QED
        BY ONLY <4>1, <4>2, <4>3
    <3>3. QED
      BY ONLY <3>1, <3>2
  <2>5. QED
    BY ONLY <2>1, <2>2, <2>3, <2>4 DEF LinkOK
<1>6. QED
  BY <1>4, <1>5 DEF h, ph

\* What IsVisible answers a reader.
LEMMA ReaderVisibility ==
  ASSUME NEW t \in Readers, NEW v, NEW h \in Headers, h.begin <= read_id[t] <=> v <= read_id[t],
         v <= read_id[t] => read_id[t] < h.end,
         read_id[t] \in Versions, v \in Versions,
         NEW x \in {INVALID_TXN_ID, INITIAL_TXN_ID} \cup Updaters
  PROVE  LET vis == Visibility(t, [h EXCEPT !.txn = x])
         IN  /\ vis = "DELETED" => v <= read_id[t] /\ x = INVALID_TXN_ID
             /\ vis = "OK" => v <= read_id[t] /\ x # INVALID_TXN_ID
             /\ vis = "INVISIBLE" => read_id[t] < v
<1> DEFINE g == [h EXCEPT !.txn = x]
<1>1. g.begin = h.begin /\ g.end = h.end /\ g.txn = x /\ h.begin \in Nat /\ h.end \in Nat
  BY DEF Headers
<1>2. x # t
  <2>1. x \in Nat
    BY MaxCid DEF INVALID_TXN_ID, INITIAL_TXN_ID
  <2>2. QED
    BY <2>1, MaxCid
<1> HIDE DEF g
<1>3. /\ Visibility(t, g) = "DELETED" => read_id[t] >= h.begin /\ x = INVALID_TXN_ID
      /\ Visibility(t, g) = "OK" => read_id[t] >= h.begin /\ x # INVALID_TXN_ID
      /\ Visibility(t, g) = "INVISIBLE" => ~(read_id[t] >= h.begin) \/ read_id[t] >= h.end
                                           \/ h.begin = MAX_CID
  BY ONLY <1>1, <1>2 DEF Visibility
<1>4. read_id[t] \in Nat /\ v \in Nat /\ read_id[t] < MAX_CID /\ MAX_CID \in Nat
  BY MaxCid
<1>5. /\ Visibility(t, g) = "DELETED" => v <= read_id[t] /\ x = INVALID_TXN_ID
      /\ Visibility(t, g) = "OK" => v <= read_id[t] /\ x # INVALID_TXN_ID
  BY <1>1, <1>3, <1>4
<1>6. Visibility(t, g) = "INVISIBLE" => read_id[t] < v
  BY <1>1, <1>3, <1>4
<1>7. QED
  BY <1>5, <1>6 DEF g

\* A version that an updater sees is not later than itself.
LEMMA UpdaterVisibility ==
  ASSUME Inv, NEW t \in Updaters, NEW k \in Keys, NEW v \in Versions, pc[t] = "cids",
         NEW x \in {INVALID_TXN_ID, INITIAL_TXN_ID} \cup Updaters, read_id[t] = t,
         x = t => tuple[k][v].txn = t,
         Visibility(t, [tuple[k][v] EXCEPT !.txn = x]) = "OK"
  PROVE  v <= t
<1>0. KeyOK(tuple[k], head[k], Phases(k), Deleters(k)) /\ tuple[k][v] \in Headers
  BY DEF Inv, KeyInv, TypeOK
<1> DEFINE g == [tuple[k][v] EXCEPT !.txn = x]
<1>1. g.begin = tuple[k][v].begin /\ g.end = tuple[k][v].end /\ g.txn = x
      /\ g.begin \in Nat /\ t \in Nat /\ v \in Nat
  BY <1>0, MaxCid DEF Headers
<1>2. Visibility(t, g) = "OK" /\ read_id[t] = t
  OBVIOUS
<1> HIDE DEF g
<1>3. CASE x = t
  <2>1. Phases(k)[t] \in {"none", "written"}
    BY RunningPhase DEF Running
  <2>2. tuple[k][v].txn = t
    BY <1>3
  <2>3. QED
    BY <2>1, <2>2, <1>0, OwnVersion
<1>4. CASE x # t
  <2>1. t >= g.begin /\ g.begin # MAX_CID
    BY ONLY <1>1, <1>2, <1>4 DEF Visibility
  <2>2. g.begin = v
    BY <2>1, <1>0, <1>1, BegunVersion
  <2>3. QED
    BY ONLY <2>1, <2>2, <1>1
<1>5. QED
  BY <1>3, <1>4

\* IsVisible decides: nothing to read, a version to read, or further down.
LEMMA CheckStep ==
  ASSUME Inv, NEW t \in Txns, CheckVisible(t), Alone(t) PROVE SelfStep(t)
<1> DEFINE vis == Visibility(t, [At(t) EXCEPT !.txn = op[t].txn])
<1>1. pc[t] = "cids" /\ UNCHANGED <<tuple, head, rw_set, todo, read_id>>
  BY DEF CheckVisible
<1>2. PICK k \in Keys, v \in Versions :
        /\ op[t].key = k /\ op[t].loc = v /\ At(t) = tuple[k][v]
        /\ tuple[k][v] \in Headers /\ KeyOK(tuple[k], head[k], Phases(k), Deleters(k))
        /\ t \in Updaters =>
             read_id[t] = t /\ UpdaterOK(t, pc[t], op[t], tuple[k], Phases(k))
        /\ t \in Readers =>
             /\ read_id[t] # 0 /\ read_id[t] \in Versions
             /\ \A u \in Updaters : u <= read_id[t] => Ended(u)
             /\ ReaderOK(read_id[t], pc[t], op[t], tuple[k], Phases(k), Deleters(k))
  BY <1>1, Where DEF Walking
<1>3. TypeOK /\ ControlOK(t) /\ t \in Txns
  BY DEF Inv
<1>4. /\ op[t] \in Ops /\ op[t].txn \in {INVALID_TXN_ID, INITIAL_TXN_ID} \cup Updaters
      /\ reads[t] \in [Keys -> SUBSET (Versions \cup {NULL})] /\ Nothing = NULL
  BY ONLY <1>3 DEF TypeOK, Ops, Nothing
<1>5. t \in Readers =>
        /\ vis = "DELETED" => /\ v <= read_id[t] /\ op[t].txn = INVALID_TXN_ID
        /\ vis = "OK" => v <= read_id[t] /\ op[t].txn # INVALID_TXN_ID
        /\ vis = "INVISIBLE" => read_id[t] < v
        /\ v <= read_id[t] => InChain(v, Phases(k)) /\ Newest(v, read_id[t], Phases(k))
  <2>1. SUFFICES ASSUME t \in Readers
                 PROVE  /\ vis = "DELETED" => /\ v <= read_id[t] /\ op[t].txn = INVALID_TXN_ID
                        /\ vis = "OK" => v <= read_id[t] /\ op[t].txn # INVALID_TXN_ID
                        /\ vis = "INVISIBLE" => read_id[t] < v
                        /\ v <= read_id[t] => /\ InChain(v, Phases(k))
                                              /\ Newest(v, read_id[t], Phases(k))
    OBVIOUS
  <2>2. pc[t] \in Walking
    BY <1>1 DEF Walking
  <2>3. /\ tuple[k][v].begin <= read_id[t] <=> v <= read_id[t]
        /\ v <= read_id[t] => /\ InChain(v, Phases(k)) /\ Newest(v, read_id[t], Phases(k))
                              /\ read_id[t] < tuple[k][v].end
    BY <2>1, <2>2, <1>2, ReaderSees
  <2>4. LET g == Visibility(t, [tuple[k][v] EXCEPT !.txn = op[t].txn])
        IN  /\ g = "DELETED" => v <= read_id[t] /\ op[t].txn = INVALID_TXN_ID
            /\ g = "OK" => v <= read_id[t] /\ op[t].txn # INVALID_TXN_ID
            /\ g = "INVISIBLE" => read_id[t] < v
    BY ONLY <2>1, <2>3, <1>2, <1>4, ReaderVisibility
  <2>5. QED
    BY ONLY <2>3, <2>4, <1>2
<1>6. t \in Updaters /\ vis = "OK" => v <= t
  <2>1. SUFFICES ASSUME t \in Updaters, vis = "OK" PROVE v <= t
    OBVIOUS
  <2>2. op[t].txn = t => tuple[k][v].txn = t
    BY ONLY <2>1, <1>1, <1>2 DEF UpdaterOK
  <2>3. QED
    BY <2>1, <2>2, <1>1, <1>2, <1>4, UpdaterVisibility
<1>7. pc[t] \in Running
  BY ONLY <1>1 DEF Running
<1>8. CASE vis = "DELETED" /\ Done(t, IF op[t].txn = t THEN {} ELSE {Nothing})
  <2>1. /\ pc' = [pc EXCEPT ![t] = "idle"] /\ op' = [op EXCEPT ![t] = NoOp]
        /\ reads' = [reads EXCEPT ![t][k] = @ \cup (IF op[t].txn = t THEN {} ELSE {Nothing})]
    BY <1>8, <1>2 DEF Done, Move
  <2>2. pc'[t] = "idle" /\ op'[t] = NoOp /\ NoOp \in Ops
    BY ONLY <2>1, <1>3 DEF TypeOK, Ops, NoOp, NULL, INVALID_TXN_ID
  <2>3. /\ \A j \in Keys : \A w \in reads'[t][j] : w \in reads[t][j] \/ (j = k /\ w = NULL)
        /\ reads'[t] \in [Keys -> SUBSET (Versions \cup {NULL})]
    <3>1. reads'[t] = [reads[t] EXCEPT ![k] = @ \cup (IF op[t].txn = t THEN {} ELSE {NULL})]
      BY ONLY <2>1, <1>3, <1>4 DEF TypeOK
    <3>2. QED
      BY ONLY <3>1, <1>2, <1>4
  <2>4. TxnType(t)'
    BY ONLY <2>2, <2>3, <1>1, <1>3 DEF TypeOK, TxnType, PCs, Running
  <2>5. ControlOK(t)'
    BY ONLY <2>2, <1>1, <1>3 DEF ControlOK, Written, Running, Walking
  <2>6. pc'[t] \in Running /\ pc'[t] \notin Walking
    BY ONLY <2>2 DEF Running, Walking
  <2>7. t \in Readers => /\ Newest(v, read_id[t], Phases(k)) /\ v \in Deleters(k)
    BY ONLY <1>1, <1>2, <1>5, <1>8 DEF ReaderOK, Walking
  <2>8. \A j \in Keys : \A w \in reads'[t][j] :
           \/ w \in reads[t][j]
           \/ t \in Updaters /\ w = NULL
           \/ /\ t \in Readers
              /\ \E last \in Versions :
                   /\ Newest(last, read_id[t], Phases(j))
                   /\ w = IF last \in Deleters(j) THEN NULL ELSE last
    BY ONLY <2>3, <2>7, <1>2, <1>3, TxnKinds
  <2>9. QED
    BY <2>4, <2>5, <2>6, <2>8, <1>1, <1>2, <1>7, QuietSelf
<1>9. CASE \/ vis = "OK" /\ Move(t, "perform") /\ op' = [op EXCEPT ![t].txn = 0] /\ UNCHANGED reads
           \/ vis = "INVISIBLE" /\ Move(t, "step") /\ op' = [op EXCEPT ![t].txn = 0] /\ UNCHANGED reads
  <2>1. reads' = reads /\ op' = [op EXCEPT ![t].txn = 0]
    BY <1>9
  <2>2. pc'[t] = (IF vis = "OK" THEN "perform" ELSE "step") /\ vis \in {"OK", "INVISIBLE"}
    BY ONLY <1>9, <1>3 DEF TypeOK, Move
  <2>3. /\ op'[t] \in Ops /\ op'[t].key = k /\ op'[t].loc = v
    <3>1. op'[t] = [op[t] EXCEPT !.txn = 0]
      BY ONLY <2>1, <1>3 DEF TypeOK
    <3>2. QED
      BY ONLY <3>1, <1>2, <1>4 DEF Ops, INVALID_TXN_ID
  <2>4. pc'[t] \in PCs /\ pc'[t] \in Running /\ pc'[t] \in Walking
    BY ONLY <2>2 DEF PCs, Running, Walking
  <2>5. TxnType(t)'
    BY ONLY <2>1, <2>3, <2>4, <1>1, <1>3 DEF TypeOK, TxnType
  <2>6. ControlOK(t)'
    BY ONLY <2>2, <2>3, <1>1, <1>2, <1>3 DEF ControlOK, Written, Running, Walking
  <2>7. t \in Updaters => UpdaterOK(t, pc'[t], op'[t], tuple[k], Phases(k))
    BY ONLY <2>2, <2>3, <1>6 DEF UpdaterOK
  <2>8. t \in Readers => ReaderOK(read_id[t], pc'[t], op'[t], tuple[k], Phases(k), Deleters(k))
    <3>1. SUFFICES ASSUME t \in Readers
                   PROVE ReaderOK(read_id[t], pc'[t], op'[t], tuple[k], Phases(k), Deleters(k))
      OBVIOUS
    <3>2. ReaderOK(read_id[t], "cids", op[t], tuple[k], Phases(k), Deleters(k))
      BY ONLY <3>1, <1>1, <1>2
    <3>3. QED
      BY ONLY <3>1, <3>2, <2>2, <2>3, <1>2, <1>5 DEF ReaderOK, Walking
  <2>9. QED
    BY <2>1, <2>3, <2>4, <2>5, <2>6, <2>7, <2>8, <1>1, <1>2, <1>7, QuietSelf
<1>10. QED
  BY <1>8, <1>9 DEF CheckVisible

\* A statement fails: the updater starts to roll back.
LEMMA FailStep ==
  ASSUME Inv, NEW t \in Updaters, Fail(t), Alone(t), pc[t] \in Running,
         UNCHANGED <<tuple, head, rw_set, read_id>>
  PROVE  SelfStep(t)
<1>1. TypeOK /\ ControlOK(t) /\ t \in Txns /\ t \in Updaters /\ t \notin Readers
  BY TxnKinds DEF Inv
<1>2. UNCHANGED <<tuple, head, rw_set, read_id>>
  OBVIOUS
<1>3. /\ pc'[t] = (IF Written(t) = {} THEN "aborted" ELSE "abort")
      /\ todo'[t] = Written(t) /\ op'[t] = NoOp /\ reads'[t] = [k \in Keys |-> {}]
  BY <1>1 DEF Fail, Move, TypeOK
<1>4. NoOp \in Ops /\ Written(t) \in SUBSET Keys /\ Written(t)' = Written(t)
  BY DEF Ops, NoOp, NULL, INVALID_TXN_ID, Written
<1>5. TxnType(t)'
  BY ONLY <1>1, <1>2, <1>3, <1>4 DEF TypeOK, TxnType, PCs
<1>6. ControlOK(t)'
  BY ONLY <1>1, <1>2, <1>3, <1>4 DEF ControlOK, Walking, Running
<1>7. pc'[t] \notin Walking
  BY ONLY <1>3 DEF Walking
<1>8. QED
  BY <1>1, <1>3, <1>5, <1>6, <1>7, QuietSelf

\* The statement has found nothing more, or was about a version of t itself.
LEMMA IdleStep ==
  ASSUME Inv, NEW t \in Updaters, Alone(t), pc[t] \in Running, NEW saw \in SUBSET {NULL},
         op[t].key \in Keys, Done(t, saw), UNCHANGED <<tuple, head, rw_set, todo, read_id>>
  PROVE  SelfStep(t)
<1>1. TypeOK /\ ControlOK(t) /\ t \in Txns /\ t \in Updaters /\ t \notin Readers
  BY TxnKinds DEF Inv
<1>2. UNCHANGED <<tuple, head, rw_set, todo, read_id>>
  OBVIOUS
<1>3. PICK k \in Keys : k = op[t].key
  OBVIOUS
<1>4. /\ pc'[t] = "idle" /\ op'[t] = NoOp /\ reads'[t] = [reads[t] EXCEPT ![k] = @ \cup saw]
  BY <1>1, <1>3 DEF Done, Move, TypeOK
<1>5. NoOp \in Ops /\ Written(t)' = Written(t)
  BY DEF Ops, NoOp, NULL, INVALID_TXN_ID, Written
<1>6. /\ reads'[t] \in [Keys -> SUBSET (Versions \cup {NULL})]
      /\ \A j \in Keys : \A v \in reads'[t][j] : v \in reads[t][j] \/ v = NULL
  BY ONLY <1>1, <1>3, <1>4, saw \in SUBSET {NULL} DEF TypeOK
<1>7. TxnType(t)'
  BY ONLY <1>1, <1>2, <1>4, <1>5, <1>6 DEF TypeOK, TxnType, PCs, Running
<1>8. ControlOK(t)'
  <2>1. pc[t] \in Running
    OBVIOUS
  <2>2. QED
    BY ONLY <2>1, <1>1, <1>2, <1>4, <1>5 DEF ControlOK, Walking, Running
<1>9. pc'[t] \notin Walking /\ pc'[t] \in Running
  BY ONLY <1>4 DEF Walking, Running
<1>10. QED
  BY <1>1, <1>6, <1>7, <1>8, <1>9, QuietSelf

\* A reader that goes on in a chain comes to an older committed version, and
\* has not passed the one of its snapshot.
LEMMA ReaderGoesOn ==
  ASSUME NEW h, NEW hd, NEW ph, NEW del, KeyOK(h, hd, ph, del), NEW s \in Versions,
         NEW v \in Versions, NEW o, o.loc = v, h[v] \in Headers,
         ReaderOK(s, "step", o, h, ph, del)
  PROVE  /\ ~(h[v].txn = INITIAL_TXN_ID /\ h[v].end <= s)
         /\ h[v].next \in Versions /\ InChain(h[v].next, ph)
         /\ \A w \in Versions : InChain(w, ph) /\ w <= s => w <= h[v].next
<1>0. KeyOK(h, hd, ph, del) /\ v \in Versions /\ s \in Versions /\ v \in Nat /\ s \in Nat
      /\ MAX_CID \in Nat /\ s < MAX_CID /\ Versions \subseteq Nat /\ Updaters \subseteq Nat
      /\ h[v].end \in Nat
  BY MaxCid DEF Headers
<1>1. /\ s < v
      /\ ~InChain(v, ph) =>
           /\ h[v].next \in Versions /\ InChain(h[v].next, ph)
           /\ \A w \in Versions : InChain(w, ph) /\ w <= s => w <= h[v].next
  BY DEF ReaderOK, Walking
<1>2. CASE InChain(v, ph)
  <2>1. LinkOK(v, h, ph, del)
    BY ONLY <1>0, <1>2 DEF KeyOK, ChainOK
  <2>2. v # Loader
    <3>1. 1 <= s
      BY ONLY <1>0, UpdatersAssumption DEF Versions, Loader
    <3>2. QED
      BY ONLY <3>1, <1>0, <1>1 DEF Loader
  <2>3. h[v].next \in Versions /\ InChain(h[v].next, ph)
    BY ONLY <2>1, <2>2 DEF LinkOK
  <2>4. ASSUME NEW w \in Versions, InChain(w, ph), w <= s PROVE w <= h[v].next
    <3>1. LinkOK(w, h, ph, del)
      BY ONLY <1>0, <2>4 DEF KeyOK, ChainOK
    <3>2. w < v
      BY ONLY <2>4, <1>0, <1>1
    <3>3. QED
      BY ONLY <3>1, <3>2, <1>0, <1>2 DEF LinkOK
  <2>5. s < h[v].end
    <3>1. h[v].end = MAX_CID \/ v < h[v].end
      BY ONLY <2>1 DEF LinkOK
    <3>2. QED
      BY ONLY <3>1, <1>0, <1>1
  <2>6. QED
    BY ONLY <2>3, <2>4, <2>5, <1>0
<1>3. CASE ~InChain(v, ph)
  <2>1. h[v].txn # INITIAL_TXN_ID
    BY ONLY <1>0, <1>3 DEF KeyOK, TxnOK, HeldOK
  <2>2. QED
    BY ONLY <2>1, <1>1, <1>3
<1>4. QED
  BY ONLY <1>2, <1>3

\* Going on in the chain, or back to its head.
LEMMA ChainStep ==
  ASSUME Inv, NEW t \in Txns, StepChain(t), Alone(t) PROVE SelfStep(t)
<1>1. pc[t] = "step" /\ UNCHANGED <<tuple, head, rw_set, read_id>>
  BY DEF StepChain
<1>2. PICK k \in Keys, v \in Versions :
        /\ op[t].key = k /\ op[t].loc = v /\ At(t) = tuple[k][v]
        /\ tuple[k][v] \in Headers /\ head[k] \in Versions
        /\ KeyOK(tuple[k], head[k], Phases(k), Deleters(k))
        /\ t \in Readers =>
             /\ read_id[t] # 0 /\ read_id[t] \in Versions
             /\ ReaderOK(read_id[t], pc[t], op[t], tuple[k], Phases(k), Deleters(k))
  BY <1>1, Where DEF Walking
<1>3. TypeOK /\ ControlOK(t) /\ t \in Txns /\ op[t] \in Ops
  BY DEF Inv, TypeOK
<1>4. t \in Readers =>
         /\ ~Replaced(t) /\ At(t).next # NULL
         /\ InChain(At(t).next, Phases(k)) /\ At(t).next \in Versions
         /\ \A w \in Versions : InChain(w, Phases(k)) /\ w <= read_id[t] => w <= At(t).next
  <2>1. SUFFICES ASSUME t \in Readers
                 PROVE  /\ ~Replaced(t) /\ At(t).next # NULL
                        /\ InChain(At(t).next, Phases(k)) /\ At(t).next \in Versions
                        /\ \A w \in Versions :
                             InChain(w, Phases(k)) /\ w <= read_id[t] => w <= At(t).next
    OBVIOUS
  <2>2. /\ ~(tuple[k][v].txn = INITIAL_TXN_ID /\ tuple[k][v].end <= read_id[t])
        /\ tuple[k][v].next \in Versions /\ InChain(tuple[k][v].next, Phases(k))
        /\ \A w \in Versions :
             InChain(w, Phases(k)) /\ w <= read_id[t] => w <= tuple[k][v].next
    BY ONLY <2>1, <1>1, <1>2, ReaderGoesOn
  <2>3. NULL \notin Versions
    BY ONLY UpdatersAssumption DEF NULL, Versions, Loader
  <2>4. QED
    BY ONLY <2>2, <2>3, <1>2 DEF Replaced
<1>5. pc[t] \in Running
  BY ONLY <1>1 DEF Running
<1>6. ASSUME NEW l \in Versions, NEW n \in Nat, UNCHANGED <<todo, reads>>,
             op' = [op EXCEPT ![t].loc = l, ![t].len = n], Move(t, "visible"),
             t \in Readers =>
               /\ InChain(l, Phases(k))
               /\ \A w \in Versions : InChain(w, Phases(k)) /\ w <= read_id[t] => w <= l
      PROVE  SelfStep(t)
  <2>1. pc'[t] = "visible" /\ reads' = reads /\ todo' = todo
    BY ONLY <1>3, <1>6 DEF TypeOK, Move
  <2>2. op'[t] \in Ops /\ op'[t].key = k /\ op'[t].loc = l
    <3>1. op'[t] = [[op[t] EXCEPT !.loc = l] EXCEPT !.len = n]
      BY ONLY <1>3, <1>6 DEF TypeOK
    <3>2. op[t] \in Ops /\ op[t].key = k /\ l \in Versions /\ n \in Nat
      BY ONLY <1>2, <1>3, <1>6
    <3> DEFINE o == [op[t] EXCEPT !.loc = l]
    <3>3. o \in Ops /\ o.key = k /\ o.loc = l
      BY ONLY <3>2 DEF Ops
    <3> HIDE DEF o
    <3>4. [o EXCEPT !.len = n] \in Ops /\ [o EXCEPT !.len = n].key = k
          /\ [o EXCEPT !.len = n].loc = l
      BY ONLY <3>2, <3>3 DEF Ops
    <3>5. QED
      BY ONLY <3>1, <3>4 DEF o
  <2>3. TxnType(t)'
    BY ONLY <2>1, <2>2, <1>1, <1>3 DEF TypeOK, TxnType, PCs, Running
  <2>4. ControlOK(t)'
    BY ONLY <2>1, <2>2, <1>1, <1>3, <1>6, <1>2 DEF ControlOK, Written, Running, Walking
  <2>5. UpdaterOK(t, pc'[t], op'[t], tuple[k], Phases(k))
    BY ONLY <2>1 DEF UpdaterOK
  <2>6. t \in Readers => ReaderOK(read_id[t], pc'[t], op'[t], tuple[k], Phases(k), Deleters(k))
    BY ONLY <2>1, <2>2, <1>6 DEF ReaderOK
  <2>7. pc'[t] \in Running
    BY ONLY <2>1 DEF Running
  <2>8. QED
    BY <2>1, <2>2, <2>3, <2>4, <2>5, <2>6, <2>7, <1>1, <1>2, <1>5, QuietSelf
<1>7. CASE /\ Replaced(t)
           /\ op' = [op EXCEPT ![t].loc = head[op[t].key], ![t].len = 1]
           /\ Move(t, "visible") /\ UNCHANGED <<todo, ops, reads>>
  BY ONLY <1>2, <1>4, <1>6, <1>7
<1>8. CASE /\ ~Replaced(t) /\ At(t).next # NULL
           /\ op' = [op EXCEPT ![t].loc = At(t).next, ![t].len = 2]
           /\ Move(t, "visible") /\ UNCHANGED <<todo, ops, reads>>
  <2>1. At(t).next \in Versions
    BY ONLY <1>2, <1>8 DEF Headers
  <2>2. QED
    BY ONLY <2>1, <1>4, <1>6, <1>8
<1>9. CASE /\ ~Replaced(t) /\ At(t).next = NULL /\ op[t].len = 1
           /\ Done(t, {Nothing}) /\ UNCHANGED <<todo, ops>>
  <2>1. t \in Updaters /\ {Nothing} \in SUBSET {NULL}
    BY <1>3, <1>4, <1>9, TxnKinds DEF Nothing
  <2>2. QED
    BY <2>1, <1>1, <1>2, <1>5, <1>9, IdleStep
<1>10. CASE /\ ~Replaced(t) /\ At(t).next = NULL /\ op[t].len # 1 /\ Fail(t)
  <2>1. t \in Updaters
    BY <1>3, <1>4, <1>10, TxnKinds
  <2>2. QED
    BY <2>1, <1>1, <1>5, <1>10, FailStep
<1>11. QED
  BY <1>7, <1>8, <1>9, <1>10 DEF StepChain

\* A step of an updater that changes one tuple.
LEMMA OneKey ==
  ASSUME Inv, NEW t \in Updaters, Alone(t), NEW k \in Keys,
         \A j \in Keys : j # k =>
           /\ tuple'[j] = tuple[j] /\ head'[j] = head[j]
           /\ PhaseOf(t, j)' = PhaseOf(t, j) /\ rw_set'[t][j] = rw_set[t][j],
         KeyOK(tuple'[k], head'[k], Phases(k)', Deleters(k)'),
         StepOK(t, tuple[k], Phases(k), Deleters(k), tuple'[k], Phases(k)', Deleters(k)')
  PROVE  KeyStep(t)
<1>1. ASSUME NEW j \in Keys, j # k
      PROVE  /\ KeyOK(tuple'[j], head'[j], Phases(j)', Deleters(j)')
             /\ StepOK(t, tuple[j], Phases(j), Deleters(j),
                       tuple'[j], Phases(j)', Deleters(j)')
  <2>1. tuple'[j] = tuple[j] /\ head'[j] = head[j] /\ rw_set'[t][j] = rw_set[t][j]
    BY <1>1
  <2>2. Phases(j)' = Phases(j)
    <3>1. PhaseOf(t, j)' = PhaseOf(t, j) /\ t \in Txns
      BY <1>1, TxnKinds
    <3>2. Phases(j)[t] = PhaseOf(t, j) /\ Phases(j) = [u \in Updaters |-> Phases(j)[u]]
      BY DEF Phases
    <3>3. Phases(j)' = [Phases(j) EXCEPT ![t] = PhaseOf(t, j)']
      BY <3>1, PhasesOf
    <3>4. QED
      BY ONLY <3>1, <3>2, <3>3
  <2>3. Deleters(j)' = Deleters(j)
    <3>1. \A u \in Updaters : rw_set'[u][j] = rw_set[u][j]
      BY <2>1, TxnKinds DEF Alone
    <3>2. QED
      BY <3>1 DEF Deleters
  <2>4. KeyOK(tuple[j], head[j], Phases(j), Deleters(j)) /\ tuple[j] \in [Versions -> Headers]
    BY DEF Inv, KeyInv, TypeOK
  <2>5. StepOK(t, tuple[j], Phases(j), Deleters(j), tuple[j], Phases(j), Deleters(j))
    BY <2>4, NoStep
  <2>6. QED
    BY ONLY <2>1, <2>2, <2>3, <2>4, <2>5
<1>2. QED
  BY <1>1 DEF KeyStep

\* An updater stays a known reader of what it has read.
LEMMA ReadsKept ==
  ASSUME Inv, NEW t \in Updaters, KeyStep(t), NEW k \in Keys, NEW v \in reads[t][k] \ {NULL}
  PROVE  v \in Versions /\ InChain(v, Phases(k)') /\ t <= tuple'[k][v].reader
<1>1. v \in Versions /\ InChain(v, Phases(k)) /\ t <= tuple[k][v].reader /\ t \in Nat
  BY MaxCid DEF Inv, UpdaterInv
<1>2. SafeFor(t, v, tuple[k], Phases(k), Deleters(k), tuple'[k], Phases(k)', Deleters(k)')
  BY <1>1 DEF KeyStep, StepOK
<1>3. tuple[k][v].reader \in Nat /\ tuple'[k][v].reader \in Nat
  <2>1. tuple'[k] \in [Versions -> Headers]
    BY DEF KeyStep, KeyOK, KeyType
  <2>2. tuple[k] \in [Versions -> Headers]
    BY DEF Inv, TypeOK
  <2>3. QED
    BY ONLY <2>1, <2>2, <1>1 DEF Headers
<1>4. QED
  BY ONLY <1>1, <1>2, <1>3 DEF SafeFor

\* The part of the invariant that is about updater t, after a step that ends a
\* statement or belongs to a commit or a rollback.
LEMMA WriteSelf ==
  ASSUME Inv, NEW t \in Updaters, KeyStep(t), TxnType(t)', ControlOK(t)',
         pc'[t] \notin Walking, \A k \in Keys : reads'[t][k] \subseteq reads[t][k]
  PROVE  SelfStep(t)
<1>1. UpdaterInv(t)'
  <2>1. ASSUME NEW k \in Keys, NEW v \in reads'[t][k] \ {NULL}
        PROVE  v \in Versions /\ InChain(v, Phases(k)') /\ t <= tuple'[k][v].reader
    BY <2>1, ReadsKept
  <2>2. QED
    BY <2>1 DEF UpdaterInv
<1>2. t \notin Readers
  BY MaxCid
<1>3. QED
  BY <1>1, <1>2 DEF SelfStep

\* PerformRead.
LEMMA PerformReadStep ==
  ASSUME Inv, NEW t \in Txns, PerformRead(t), Alone(t) PROVE SelfStep(t)
<1>1. pc[t] = "perform" /\ UNCHANGED <<head, rw_set, read_id>>
  BY DEF PerformRead
<1>2. PICK k \in Keys, v \in Versions :
        /\ op[t].key = k /\ op[t].loc = v /\ At(t) = tuple[k][v]
        /\ tuple[k][v] \in Headers /\ KeyOK(tuple[k], head[k], Phases(k), Deleters(k))
        /\ t \in Updaters =>
             read_id[t] = t /\ UpdaterOK(t, pc[t], op[t], tuple[k], Phases(k))
        /\ t \in Readers =>
             /\ read_id[t] # 0 /\ read_id[t] \in Versions
             /\ \A u \in Updaters : u <= read_id[t] => Ended(u)
             /\ ReaderOK(read_id[t], pc[t], op[t], tuple[k], Phases(k), Deleters(k))
  BY <1>1, Where DEF Walking
<1>3. TypeOK /\ ControlOK(t) /\ t \in Txns /\ op[t] \in Ops
      /\ reads[t] \in [Keys -> SUBSET (Versions \cup {NULL})]
  BY DEF Inv, TypeOK
<1>4. pc[t] \in Running /\ pc[t] \in Walking
  BY ONLY <1>1 DEF Running, Walking
<1>5. NoOp \in Ops /\ NULL \notin Versions
  BY UpdatersAssumption DEF Ops, NoOp, NULL, INVALID_TXN_ID, Versions, Loader
<1>6. CASE t \in Readers /\ Done(t, {op[t].loc}) /\ UNCHANGED <<tuple, todo, ops>>
  <2>1. pc'[t] = "idle" /\ op'[t] = NoOp /\ reads'[t] = [reads[t] EXCEPT ![k] = @ \cup {v}]
    BY <1>2, <1>3, <1>6 DEF Done, Move, TypeOK
  <2>2. Newest(v, read_id[t], Phases(k)) /\ v \notin Deleters(k)
    <3>1. v <= read_id[t] /\ v \notin Deleters(k)
      BY ONLY <1>1, <1>2, <1>4, <1>6 DEF ReaderOK
    <3>2. QED
      BY <3>1, <1>2, <1>4, <1>6, ReaderSees
  <2>3. /\ reads'[t] \in [Keys -> SUBSET (Versions \cup {NULL})]
        /\ \A j \in Keys : \A w \in reads'[t][j] : w \in reads[t][j] \/ (j = k /\ w = v)
    BY ONLY <2>1, <1>2, <1>3
  <2>4. TxnType(t)'
    BY ONLY <2>1, <2>3, <1>1, <1>3, <1>5, <1>6 DEF TypeOK, TxnType, PCs, Running
  <2>5. ControlOK(t)'
    BY ONLY <2>1, <1>1, <1>3, <1>6 DEF ControlOK, Written, Running, Walking
  <2>6. pc'[t] \in Running /\ pc'[t] \notin Walking
    BY ONLY <2>1 DEF Running, Walking
  <2>7. \A j \in Keys : \A w \in reads'[t][j] :
           \/ w \in reads[t][j]
           \/ t \in Updaters /\ w = NULL
           \/ /\ t \in Readers
              /\ \E last \in Versions :
                   /\ Newest(last, read_id[t], Phases(j))
                   /\ w = IF last \in Deleters(j) THEN NULL ELSE last
    BY ONLY <2>2, <2>3, <1>2, <1>6
  <2>8. QED
    BY <2>4, <2>5, <2>6, <2>7, <1>1, <1>2, <1>4, <1>6, QuietSelf
<1>7. CASE t \in Updaters /\ At(t).txn # t /\ At(t).txn # INITIAL_TXN_ID /\ Fail(t)
           /\ UNCHANGED tuple
  BY <1>1, <1>4, <1>7, FailStep
<1>8. ASSUME t \in Updaters, At(t).txn = t, UNCHANGED <<tuple, todo>>,
             IF op[t].kind # "read"
             THEN /\ Move(t, "own") /\ UNCHANGED op /\ reads' = [reads EXCEPT ![t][op[t].key] = @]
             ELSE Done(t, {})
      PROVE  SelfStep(t)
  <2>1. CASE op[t].kind = "read"
    <3>1. Done(t, {}) /\ {} \in SUBSET {NULL}
      BY <1>8, <2>1
    <3>2. QED
      BY <3>1, <1>1, <1>2, <1>4, <1>8, IdleStep
  <2>2. CASE op[t].kind # "read"
    <3>1. pc'[t] = "own" /\ op'[t] = op[t] /\ reads'[t] = reads[t]
      <4>1. pc'[t] = "own" /\ op' = op /\ reads'[t] = [reads[t] EXCEPT ![k] = @]
        BY ONLY <1>8, <2>2, <1>2, <1>3 DEF Move, TypeOK
      <4>2. QED
        BY ONLY <4>1, <1>3
    <3>2. TxnType(t)'
      BY ONLY <3>1, <1>1, <1>3, <1>8 DEF TypeOK, TxnType, PCs, Running
    <3>3. ControlOK(t)'
      <4>1. t \notin Readers
        BY <1>8, TxnKinds
      <4>2. QED
        BY ONLY <3>1, <4>1, <1>1, <1>3, <1>8 DEF ControlOK, Written, Running, Walking
    <3>4. UpdaterOK(t, pc'[t], op'[t], tuple[k], Phases(k))
      BY ONLY <3>1, <1>1, <1>2, <1>8 DEF UpdaterOK
    <3>5. pc'[t] \in Running /\ t \notin Readers
      BY <3>1, <1>8, TxnKinds DEF Running
    <3>6. QED
      BY <3>1, <3>2, <3>3, <3>4, <3>5, <1>1, <1>2, <1>4, <1>8, QuietSelf
  <2>3. QED
    BY <2>1, <2>2
<1>9. ASSUME t \in Updaters, At(t).txn # t, At(t).txn = INITIAL_TXN_ID, UNCHANGED todo,
             Set(op[t].key, op[t].loc, SetLastReaderCommitId(At(t), t)),
             IF op[t].kind # "read"
             THEN /\ Move(t, "own") /\ UNCHANGED op
                  /\ reads' = [reads EXCEPT ![t][op[t].key] = @ \cup {op[t].loc}]
             ELSE Done(t, {op[t].loc})
      PROVE  SelfStep(t)
  <2>1. /\ pc'[t] = (IF op[t].kind # "read" THEN "own" ELSE "idle")
        /\ op'[t] = (IF op[t].kind # "read" THEN op[t] ELSE NoOp)
        /\ reads'[t] = [reads[t] EXCEPT ![k] = @ \cup {v}]
    BY ONLY <1>9, <1>2, <1>3 DEF Move, Done, TypeOK
  <2>2. /\ tuple'[k] = [tuple[k] EXCEPT ![v] = SetLastReaderCommitId(tuple[k][v], t)]
        /\ \A j \in Keys : j # k => tuple'[j] = tuple[j]
    BY ONLY <1>9, <1>2, <1>3 DEF Set, TypeOK
  <2>3. InChain(v, Phases(k))
    BY ONLY <1>2, <1>9 DEF KeyOK, TxnOK, HeldOK
  <2>4. /\ KeyOK(tuple'[k], head[k], Phases(k), Deleters(k))
        /\ StepOK(t, tuple[k], Phases(k), Deleters(k), tuple'[k], Phases(k), Deleters(k))
        /\ t <= tuple'[k][v].reader
    <3>1. KeyOK(tuple[k], head[k], Phases(k), Deleters(k)) /\ t \in Updaters
          /\ v \in Versions
      BY ONLY <1>2, <1>9
    <3>2. tuple'[k] = [tuple[k] EXCEPT ![v] = SetLastReaderCommitId(tuple[k][v], t)]
      BY ONLY <2>2
    <3>3. QED
      BY ONLY <3>1, <3>2, ReadStep
  <2>5. \A j \in Keys : PhaseOf(t, j)' = PhaseOf(t, j) /\ rw_set'[t][j] = rw_set[t][j]
    <3>1. pc[t] \in Running /\ pc'[t] \in Running /\ rw_set' = rw_set
      BY ONLY <2>1, <1>1 DEF Running
    <3>2. QED
      BY ONLY <3>1 DEF PhaseOf
  <2>6. Phases(k)' = Phases(k) /\ Deleters(k)' = Deleters(k)
    <3>1. Phases(k)[t] = PhaseOf(t, k) /\ Phases(k) = [u \in Updaters |-> Phases(k)[u]]
      BY <1>9 DEF Phases
    <3>2. Phases(k)' = [Phases(k) EXCEPT ![t] = PhaseOf(t, k)']
      BY <1>9, PhasesOf
    <3>3. Deleters(k)' = Deleters(k)
      BY <1>1 DEF Deleters
    <3>4. QED
      BY ONLY <2>5, <3>1, <3>2, <3>3
  <2>7. KeyStep(t)
    <3>1. head' = head
      BY <1>1
    <3>2. /\ KeyOK(tuple'[k], head'[k], Phases(k)', Deleters(k)')
          /\ StepOK(t, tuple[k], Phases(k), Deleters(k), tuple'[k], Phases(k)', Deleters(k)')
      BY ONLY <3>1, <2>4, <2>6
    <3>3. QED
      BY <3>1, <3>2, <2>2, <2>5, <1>9, OneKey
  <2>8. /\ reads'[t] \in [Keys -> SUBSET (Versions \cup {NULL})]
        /\ \A j \in Keys : \A w \in reads'[t][j] : w \in reads[t][j] \/ (j = k /\ w = v)
    BY ONLY <2>1, <1>2, <1>3
  <2>9. op'[t] \in Ops
    BY ONLY <2>1, <1>3, <1>5
  <2>10. TxnType(t)'
    BY ONLY <2>1, <2>8, <2>9, <1>1, <1>3, <1>9 DEF TypeOK, TxnType, PCs, Running
  <2>11. ControlOK(t)'
    <3>1. t \notin Readers
      BY <1>9, TxnKinds
    <3>2. QED
      BY ONLY <3>1, <2>1, <1>1, <1>3, <1>9 DEF ControlOK, Written, Running, Walking
  <2>12. UpdaterInv(t)'
    <3>1. ASSUME pc'[t] \in Walking
          PROVE  UpdaterOK(t, pc'[t], op'[t], tuple'[op'[t].key], Phases(op[t].key)')
      <4>1. pc'[t] = "own" /\ op'[t] = op[t] /\ op'[t].key = k /\ op'[t].loc = v
        BY ONLY <3>1, <2>1, <1>2 DEF Walking
      <4>2. v <= t
        BY ONLY <1>1, <1>2, <1>9 DEF UpdaterOK
      <4>3. UpdaterOK(t, pc'[t], op'[t], tuple'[k], Phases(k)')
        BY ONLY <4>1, <4>2, <2>3, <2>4, <2>6 DEF UpdaterOK
      <4>4. QED
        BY ONLY <4>1, <4>3
    <3>2. ASSUME NEW j \in Keys, NEW w \in reads'[t][j] \ {NULL}
          PROVE  w \in Versions /\ InChain(w, Phases(j)') /\ t <= tuple'[j][w].reader
      <4>1. CASE w \in reads[t][j]
        BY <4>1, <3>2, <1>9, <2>7, ReadsKept
      <4>2. CASE j = k /\ w = v
        BY ONLY <4>2, <1>2, <2>3, <2>4, <2>6
      <4>3. QED
        BY ONLY <3>2, <4>1, <4>2, <2>8
    <3>3. QED
      BY ONLY <3>1, <3>2 DEF UpdaterInv
  <2>13. t \notin Readers
    BY <1>9, TxnKinds
  <2>14. QED
    BY ONLY <2>7, <2>10, <2>11, <2>12, <2>13 DEF SelfStep
<1>10. QED
  <2>1. PerformRead(t)
    OBVIOUS
  <2>2. CASE t \in Updaters /\ At(t).txn = t
    BY <2>1, <2>2, <1>8, TxnKinds DEF PerformRead
  <2>3. CASE t \in Updaters /\ At(t).txn # t /\ At(t).txn = INITIAL_TXN_ID
    BY <2>1, <2>3, <1>9, TxnKinds DEF PerformRead
  <2>4. CASE t \in Updaters /\ At(t).txn # t /\ At(t).txn # INITIAL_TXN_ID
    BY <2>1, <2>4, <1>7, TxnKinds DEF PerformRead
  <2>5. CASE t \in Readers
    BY <2>1, <2>5, <1>6, TxnKinds DEF PerformRead
  <2>6. QED
    BY <2>2, <2>3, <2>4, <2>5, TxnKinds

\* UpdateExecutor: an update in place, a version that cannot be owned, or one
\* that can.
LEMMA OwnableStep ==
  ASSUME Inv, NEW t \in Txns, Alone(t), UpdateInPlace(t) \/ IsOwnable(t) \/ AcquireFails(t)
  PROVE  SelfStep(t)
<1>1. pc[t] \in {"own", "acquire"} /\ UNCHANGED <<tuple, head, rw_set, read_id>>
  BY DEF UpdateInPlace, IsOwnVersion, IsOwnable, AcquireFails
<1>2. TypeOK /\ ControlOK(t) /\ t \in Txns /\ op[t] \in Ops
  BY DEF Inv, TypeOK
<1>3. t \in Updaters /\ t \notin Readers
  BY <1>1, <1>2, TxnKinds DEF ControlOK
<1>4. pc[t] \in Walking /\ pc[t] \in Running
  BY ONLY <1>1 DEF Walking, Running
<1>5. PICK k \in Keys, v \in Versions :
        /\ op[t].key = k /\ op[t].loc = v /\ At(t) = tuple[k][v]
        /\ tuple[k][v] \in Headers /\ KeyOK(tuple[k], head[k], Phases(k), Deleters(k))
        /\ t \in Updaters =>
             read_id[t] = t /\ UpdaterOK(t, pc[t], op[t], tuple[k], Phases(k))
  BY <1>4, Where
<1>6. CASE UpdateInPlace(t)
  <2>1. Done(t, {}) /\ UNCHANGED todo
    BY <1>6 DEF UpdateInPlace
  <2>2. QED
    BY <2>1, <1>1, <1>3, <1>4, <1>5, IdleStep
<1>7. CASE Fail(t)
  BY <1>1, <1>3, <1>4, <1>7, FailStep
<1>8. CASE /\ pc[t] = "own" /\ At(t).txn # t /\ Ownable(t) /\ Move(t, "acquire")
           /\ UNCHANGED <<op, todo, ops, reads>>
  <2>1. pc'[t] = "acquire" /\ op' = op /\ todo' = todo /\ reads' = reads /\ pc[t] = "own"
    BY ONLY <1>2, <1>8 DEF Move, TypeOK
  <2>2. TxnType(t)'
    BY ONLY <2>1, <1>1, <1>2 DEF TypeOK, TxnType, PCs, Running
  <2>3. ControlOK(t)'
    BY ONLY <2>1, <1>1, <1>2, <1>3 DEF ControlOK, Written, Running, Walking
  <2>4. UpdaterOK(t, pc'[t], op'[t], tuple[k], Phases(k))
    <3>1. UpdaterOK(t, "own", op[t], tuple[k], Phases(k)) /\ tuple[k][v].txn = INITIAL_TXN_ID
          /\ tuple[k][v].end = MAX_CID /\ tuple[k][v].txn # t
      BY ONLY <2>1, <1>3, <1>5, <1>8 DEF Ownable
    <3>2. InChain(v, Phases(k)) /\ t <= tuple[k][v].reader /\ v <= t
      BY ONLY <3>1, <1>5 DEF UpdaterOK
    <3>3. v # t
      BY <3>2, <1>3, <1>4, RunningPhase
    <3>4. v < t
      BY ONLY <3>2, <3>3, <1>3, <1>5, MaxCid
    <3>5. QED
      BY ONLY <2>1, <3>1, <3>2, <3>4, <1>5 DEF UpdaterOK
  <2>5. pc'[t] \in Running
    BY ONLY <2>1 DEF Running
  <2>6. QED
    BY <2>1, <2>2, <2>3, <2>4, <2>5, <1>1, <1>3, <1>4, <1>5, QuietSelf
<1>9. QED
  BY <1>6, <1>7, <1>8 DEF IsOwnable, AcquireFails

\* A reader is given its snapshot.
LEMMA BeginReaderStep ==
  ASSUME Inv, NEW t \in Txns, Alone(t), BeginReader(t)
  PROVE  SelfStep(t)
<1>1. PICK s \in Versions : /\ \A u \in Updaters : u <= s => Ended(u)
                            /\ read_id' = [read_id EXCEPT ![t] = s]
  BY DEF BeginReader
<1>2. /\ t \in Readers /\ read_id[t] = 0
      /\ UNCHANGED <<tuple, head, rw_set, pc, op, todo, reads>>
  BY DEF BeginReader
<1>3. TypeOK /\ ControlOK(t) /\ ReaderInv(t) /\ t \in Txns /\ KeyInv
  BY <1>2 DEF Inv
<1>4. read_id'[t] = s /\ s \in Nat
  BY <1>1, <1>3, MaxCid DEF TypeOK
<1>5. pc[t] = "idle" /\ \A k \in Keys : reads[t][k] = {}
  <2>1. 0 \notin Versions
    BY UpdatersAssumption DEF Versions, Loader
  <2>2. QED
    BY ONLY <2>1, <1>2, <1>3 DEF ReaderInv
<1>6. TxnType(t)'
  BY ONLY <1>2, <1>3, <1>4 DEF TypeOK, TxnType
<1>7. ControlOK(t)'
  <2>1. t \notin Updaters
    BY <1>2, TxnKinds
  <2>2. QED
    BY ONLY <2>1, <1>2, <1>3 DEF ControlOK, Written
<1>8. KeyStep(t)
  BY <1>2, <1>5, QuietKeys DEF Running
<1>9. ReaderInv(t)'
  <2>1. pc'[t] \notin Walking
    BY ONLY <1>2, <1>5 DEF Walking
  <2>2. \A u \in Updaters : u <= s => Ended(u)'
    BY ONLY <1>1, <1>2 DEF Ended
  <2>3. QED
    BY ONLY <2>1, <2>2, <1>2, <1>4, <1>5, s \in Versions DEF ReaderInv
<1>10. QED
  BY <1>2, <1>6, <1>7, <1>8, <1>9, TxnKinds DEF SelfStep

\* A transaction commits, or a client rolls it back.
LEMMA CommitStep ==
  ASSUME Inv, NEW t \in Txns, Alone(t), Commit(t) \/ UserAbort(t)
  PROVE  SelfStep(t)
<1>1. TypeOK /\ ControlOK(t) /\ t \in Txns /\ pc[t] = "idle" /\ pc[t] \in Running
      /\ UNCHANGED <<tuple, head, rw_set, read_id>>
  BY DEF Inv, Commit, UserAbort, Running
<1>2. CASE UserAbort(t)
  BY <1>1, <1>2, FailStep DEF UserAbort
<1>3. CASE Commit(t)
  <2>1. /\ pc'[t] = (IF Written(t) = {} THEN "committed" ELSE "commit")
        /\ todo'[t] = Written(t) /\ op' = op /\ reads' = reads /\ read_id[t] # 0
    BY <1>1, <1>3 DEF Commit, Move, TypeOK
  <2>2. Written(t) \in SUBSET Keys /\ Written(t)' = Written(t)
    BY <1>1 DEF Written
  <2>3. TxnType(t)'
    BY ONLY <1>1, <2>1, <2>2 DEF TypeOK, TxnType, PCs, Committing
  <2>4. ControlOK(t)'
    BY ONLY <1>1, <2>1, <2>2 DEF ControlOK, Walking, Running
  <2>5. pc'[t] \notin Walking
    BY ONLY <2>1 DEF Walking
  <2>6. QED
    BY <1>1, <2>1, <2>3, <2>4, <2>5, QuietSelf
<1>4. QED
  BY <1>2, <1>3

\* A statement starts at the head of the chain.
LEMMA StartStep ==
  ASSUME Inv, NEW t \in Txns, Alone(t), NEW kind \in Kinds, NEW k \in Keys,
         Start(t, kind, k)
  PROVE  SelfStep(t)
<1>1. /\ TypeOK /\ ControlOK(t) /\ t \in Txns /\ pc[t] = "idle" /\ read_id[t] # 0
      /\ UNCHANGED <<tuple, head, rw_set, todo, read_id, reads>>
      /\ head[k] \in Versions /\ KeyOK(tuple[k], head[k], Phases(k), Deleters(k))
      /\ k \in Keys
  BY DEF Inv, Start, TypeOK, KeyInv
<1>2. /\ pc'[t] = "visible"
      /\ op'[t] = [NoOp EXCEPT !.kind = kind, !.key = k, !.loc = head[k], !.len = 1]
  BY <1>1 DEF Start, Move, TypeOK
<1>3. op'[t] \in Ops /\ op'[t].key = k /\ op'[t].loc = head[k]
  <2>1. op'[t] = [kind |-> kind, key |-> k, loc |-> head[k], len |-> 1, txn |-> 0]
    BY ONLY <1>2 DEF NoOp
  <2>2. kind \in Kinds /\ k \in Keys /\ head[k] \in Versions
    BY <1>1
  <2>3. QED
    BY ONLY <2>1, <2>2 DEF Ops, INVALID_TXN_ID
<1>4. pc'[t] \in Running /\ pc[t] \in Running /\ pc'[t] \in PCs
  BY ONLY <1>1, <1>2 DEF Running, PCs
<1>5. TxnType(t)'
  BY ONLY <1>1, <1>3, <1>4 DEF TypeOK, TxnType
<1>6. ControlOK(t)'
  BY ONLY <1>1, <1>2, <1>3 DEF ControlOK, Written, Running, Walking
<1>7. UpdaterOK(t, pc'[t], op'[t], tuple[k], Phases(k))
  BY ONLY <1>2 DEF UpdaterOK
<1>8. ASSUME t \in Readers
      PROVE  ReaderOK(read_id[t], pc'[t], op'[t], tuple[k], Phases(k), Deleters(k))
  <2> DEFINE hd == head[k]
             s == read_id[t]
  <2>1. HeadOK(tuple[k], hd, Phases(k)) /\ OwnerOK(tuple[k], hd, Phases(k)) /\ hd \in Versions
    BY ONLY <1>1 DEF KeyOK
  <2>2. s \in Nat /\ hd \in Nat /\ Versions \subseteq Nat
    BY <1>1, MaxCid DEF TypeOK
  <2>3. ASSUME ~InChain(hd, Phases(k))
        PROVE  /\ s < hd /\ hd \in Updaters /\ Phases(k)[hd] # "none"
               /\ tuple[k][hd].next \in Versions /\ InChain(tuple[k][hd].next, Phases(k))
               /\ \A w \in Versions : InChain(w, Phases(k)) => w <= tuple[k][hd].next
               /\ tuple[k][hd].next < hd
    <3>1. Owns(hd, Phases(k)) /\ hd \in Updaters
      BY ONLY <2>1, <2>3 DEF HeadOK, Owns
    <3>2. OwnedOK(hd, tuple[k], hd, Phases(k)) /\ Phases(k)[hd] # "none"
      BY ONLY <2>1, <3>1 DEF OwnerOK, Owns
    <3>3. ~Ended(hd)
      BY <3>1, OwnerLives
    <3>4. s < hd
      <4>1. \A u \in Updaters : u <= s => Ended(u)
        BY <1>1, <1>8 DEF Inv, ReaderInv
      <4>2. QED
        BY ONLY <4>1, <3>1, <3>3, <2>2
    <3>5. QED
      BY ONLY <3>1, <3>2, <3>4 DEF OwnedOK
  <2>4. \A w \in Versions : InChain(w, Phases(k)) => w <= hd
    <3>1. CASE InChain(hd, Phases(k))
      BY ONLY <3>1, <2>1 DEF HeadOK
    <3>2. CASE ~InChain(hd, Phases(k))
      <4>1. /\ \A w \in Versions : InChain(w, Phases(k)) => w <= tuple[k][hd].next
            /\ tuple[k][hd].next < hd /\ tuple[k][hd].next \in Nat
        BY ONLY <2>2, <2>3, <3>2
      <4>2. QED
        BY ONLY <4>1, <2>2
    <3>3. QED
      BY ONLY <3>1, <3>2
  <2>5. op'[t].loc = hd
    BY ONLY <1>3
  <2> HIDE DEF hd, s
  <2>6. ReaderOK(s, pc'[t], op'[t], tuple[k], Phases(k), Deleters(k))
    BY ONLY <2>3, <2>4, <2>5, <1>2 DEF ReaderOK
  <2>7. QED
    BY <2>6 DEF s
<1>9. QED
  BY <1>1, <1>3, <1>4, <1>5, <1>6, <1>7, <1>8, QuietSelf

\* The phases of an updater whose step concerns tuple k.
LEMMA PhaseChange ==
  ASSUME NEW t \in Updaters, Alone(t), NEW k \in Keys, NEW p, PhaseOf(t, k)' = p
  PROVE  Phases(k)' = [Phases(k) EXCEPT ![t] = p]
<1>1. QED
  BY PhasesOf, TxnKinds

\* DeleteExecutor marks the version that the updater wrote before as deleted.
LEMMA DeleteInPlaceStep ==
  ASSUME Inv, NEW t \in Txns, Alone(t), DeleteInPlace(t)
  PROVE  SelfStep(t) /\ op[t].key \in Written(t)
<1>1. /\ pc[t] = "own" /\ At(t).txn = t /\ At(t).begin = MAX_CID
      /\ UNCHANGED <<head, todo, read_id>> /\ Done(t, {})
      /\ Set(op[t].key, op[t].loc, [At(t) EXCEPT !.end = INVALID_CID])
      /\ rw_set' = [rw_set EXCEPT ![t][op[t].key] = "DELETE"]
  BY DEF DeleteInPlace, IsOwnVersion
<1>2. TypeOK /\ ControlOK(t) /\ t \in Txns
  BY DEF Inv
<1>3. t \in Updaters /\ t \notin Readers
  BY <1>1, <1>2, TxnKinds DEF ControlOK
<1>4. PICK k \in Keys, v \in Versions :
        /\ op[t].key = k /\ op[t].loc = v /\ At(t) = tuple[k][v]
        /\ tuple[k][v] \in Headers /\ KeyOK(tuple[k], head[k], Phases(k), Deleters(k))
  BY <1>1, Where DEF Walking
<1>5. pc[t] \in Running /\ Phases(k)[t] \in {"none", "written"}
  BY <1>1, <1>3, RunningPhase DEF Running
<1>6. Phases(k)[t] = "written" /\ v = t
  <2>1. tuple[k][v].txn = t /\ tuple[k][v].begin = MAX_CID
    BY ONLY <1>1, <1>4
  <2>2. QED
    BY ONLY <2>1, <1>3, <1>4, <1>5, OwnVersion
<1>7. rw_set[t][k] # "NONE"
  BY <1>3, <1>5, <1>6, RunningPhase
<1>8. /\ pc'[t] = "idle" /\ op'[t] = NoOp /\ reads'[t] = [reads[t] EXCEPT ![k] = @ \cup {}]
      /\ rw_set'[t] = [rw_set[t] EXCEPT ![k] = "DELETE"]
  BY ONLY <1>1, <1>2, <1>4 DEF Done, Move, TypeOK
<1>9. /\ tuple'[k] = [tuple[k] EXCEPT ![t] = [tuple[k][t] EXCEPT !.end = INVALID_CID]]
      /\ \A j \in Keys : j # k => tuple'[j] = tuple[j]
  BY ONLY <1>1, <1>2, <1>4, <1>6 DEF Set, TypeOK
<1>10. /\ rw_set'[t] \in [Keys -> {"NONE", "UPDATE", "DELETE"}] /\ rw_set'[t][k] = "DELETE"
       /\ \A j \in Keys : j # k => rw_set'[t][j] = rw_set[t][j]
       /\ \A j \in Keys : rw_set'[t][j] = "NONE" <=> rw_set[t][j] = "NONE"
       /\ reads'[t] = reads[t]
  BY ONLY <1>2, <1>7, <1>8, <1>4 DEF TypeOK
<1>11. \A j \in Keys : PhaseOf(t, j)' = PhaseOf(t, j)
  BY ONLY <1>5, <1>8, <1>10 DEF PhaseOf, Running
<1>12. Phases(k)' = Phases(k)
  <2>1. Phases(k)[t] = PhaseOf(t, k) /\ Phases(k) = [u \in Updaters |-> Phases(k)[u]]
    BY <1>3 DEF Phases
  <2>2. Phases(k)' = [Phases(k) EXCEPT ![t] = PhaseOf(t, k)']
    BY <1>3, PhaseChange
  <2>3. QED
    BY ONLY <2>1, <2>2, <1>11
<1>13. Deleters(k)' = Deleters(k) \cup {t}
  <2>1. \A u \in Updaters : u # t => rw_set'[u] = rw_set[u]
    BY TxnKinds DEF Alone
  <2>2. QED
    BY ONLY <2>1, <1>3, <1>10 DEF Deleters
<1>14. /\ KeyOK(tuple'[k], head[k], Phases(k), Deleters(k) \cup {t})
       /\ StepOK(t, tuple[k], Phases(k), Deleters(k), tuple'[k], Phases(k), Deleters(k) \cup {t})
  <2>1. KeyOK(tuple[k], head[k], Phases(k), Deleters(k)) /\ t \in Updaters
        /\ Phases(k)[t] = "written"
    BY ONLY <1>3, <1>4, <1>6
  <2>2. tuple'[k] = [tuple[k] EXCEPT ![t] = [tuple[k][t] EXCEPT !.end = INVALID_CID]]
    BY ONLY <1>9
  <2>3. QED
    BY ONLY <2>1, <2>2, DeleteStep
<1>15. KeyStep(t)
  <2>1. /\ KeyOK(tuple'[k], head'[k], Phases(k)', Deleters(k)')
        /\ StepOK(t, tuple[k], Phases(k), Deleters(k), tuple'[k], Phases(k)', Deleters(k)')
        /\ head' = head
    BY ONLY <1>1, <1>12, <1>13, <1>14
  <2>2. QED
    BY <2>1, <1>3, <1>9, <1>10, <1>11, OneKey
<1>16. NoOp \in Ops /\ pc'[t] \in PCs /\ pc'[t] \notin Walking
  BY <1>8 DEF Ops, NoOp, NULL, INVALID_TXN_ID, PCs, Running, Walking
<1>17. TxnType(t)'
  BY ONLY <1>1, <1>2, <1>8, <1>10, <1>16 DEF TypeOK, TxnType
<1>18. ControlOK(t)'
  BY ONLY <1>1, <1>2, <1>3, <1>5, <1>8, <1>10 DEF ControlOK, Written, Walking, Running
<1>19. SelfStep(t)
  BY <1>3, <1>10, <1>15, <1>16, <1>17, <1>18, WriteSelf
<1>20. QED
  BY <1>4, <1>7, <1>19 DEF Written

\* AcquireOwnership and the installation of the new version.
LEMMA InstallSelf ==
  ASSUME Inv, NEW t \in Txns, Alone(t), NEW e \in Nat, NEW type \in {"UPDATE", "DELETE"},
         Install(t, e, type)
  PROVE  /\ SelfStep(t) /\ op[t].key \in Keys /\ op[t].loc \in Versions
         /\ tuple[op[t].key][op[t].loc].reader <= t
<1>1. /\ pc[t] = "acquire" /\ Acquirable(t) /\ UNCHANGED <<todo, read_id>> /\ Done(t, {})
      /\ head' = [head EXCEPT ![op[t].key] = IF At(t).prev = NULL THEN t ELSE @]
      /\ rw_set' = [rw_set EXCEPT ![t][op[t].key] = type]
  BY DEF Install
<1>2. TypeOK /\ ControlOK(t) /\ t \in Txns /\ e \in Nat /\ type \in {"UPDATE", "DELETE"}
  BY DEF Inv
<1>3. t \in Updaters /\ t \notin Readers
  BY <1>1, <1>2, TxnKinds DEF ControlOK
<1>4. PICK k \in Keys, v \in Versions :
        /\ op[t].key = k /\ op[t].loc = v /\ At(t) = tuple[k][v]
        /\ tuple[k][v] \in Headers /\ KeyOK(tuple[k], head[k], Phases(k), Deleters(k))
        /\ t \in Updaters => UpdaterOK(t, pc[t], op[t], tuple[k], Phases(k))
  BY <1>1, Where DEF Walking
<1>5. pc[t] \in Running /\ Phases(k)[t] \in {"none", "written"}
  BY <1>1, <1>3, RunningPhase DEF Running
<1>6. InChain(v, Phases(k)) /\ v < t /\ tuple[k][v].reader = t
      /\ tuple[k][v].txn = INITIAL_TXN_ID /\ tuple[k][v].end = MAX_CID
      /\ tuple[k][v].reader <= t
  <2>1. /\ InChain(v, Phases(k)) /\ v < t /\ t <= tuple[k][v].reader
        /\ t < tuple[k][v].reader \/ tuple[k][v].end = MAX_CID
    BY ONLY <1>1, <1>3, <1>4 DEF UpdaterOK
  <2>2. tuple[k][v].reader <= t /\ tuple[k][v].txn = INITIAL_TXN_ID
    BY ONLY <1>1, <1>4 DEF Acquirable
  <2>3. tuple[k][v].reader \in Nat /\ t \in Nat
    BY ONLY <1>3, <1>4, MaxCid DEF Headers
  <2>4. QED
    BY ONLY <2>1, <2>2, <2>3
<1> DEFINE h2 == NewHeaders(tuple[k], t, v, tuple[k][v].prev, e)
           ph2 == [Phases(k) EXCEPT ![t] = "written"]
<1>7. ASSUME NEW del2 \in SUBSET Updaters,
             \A w \in Versions : w # t => (w \in del2 <=> w \in Deleters(k))
      PROVE  /\ Phases(k)[t] = "none" /\ tuple[k][v].prev = NULL
             /\ KeyOK(h2, t, ph2, del2)
             /\ StepOK(t, tuple[k], Phases(k), Deleters(k), h2, ph2, del2)
  <2>1. KeyOK(tuple[k], head[k], Phases(k), Deleters(k)) /\ t \in Updaters /\ v \in Versions
        /\ e \in Nat /\ del2 \in SUBSET Updaters
        /\ \A w \in Versions : w # t => (w \in del2 <=> w \in Deleters(k))
    BY ONLY <1>2, <1>3, <1>4, <1>7
  <2>2. h2 = NewHeaders(tuple[k], t, v, tuple[k][v].prev, e)
    OBVIOUS
  <2>3. ph2 = [Phases(k) EXCEPT ![t] = "written"]
    OBVIOUS
  <2> HIDE DEF h2, ph2
  <2>4. InChain(v, Phases(k)) /\ v < t /\ tuple[k][v].reader = t
        /\ tuple[k][v].txn = INITIAL_TXN_ID /\ tuple[k][v].end = MAX_CID
        /\ Phases(k)[t] \in {"none", "written"}
    BY ONLY <1>5, <1>6
  <2>5. Installs(tuple[k], head[k], Phases(k), Deleters(k), t, v, e, h2, ph2, del2)
    BY ONLY <2>1, <2>2, <2>3, <2>4 DEF Installs
  <2>6. QED
    BY ONLY <2>5, InstallStep
<1>8. Phases(k)[t] = "none" /\ tuple[k][v].prev = NULL /\ rw_set[t][k] = "NONE"
  <2>1. Phases(k)[t] = "none" /\ tuple[k][v].prev = NULL
    <3>1. Deleters(k) \in SUBSET Updaters
      BY ONLY DEF Deleters
    <3>2. QED
      BY ONLY <3>1, <1>7
  <2>2. QED
    BY <2>1, <1>3, <1>5, RunningPhase
<1>9. tuple'[k] = h2 /\ \A j \in Keys : j # k => tuple'[j] = tuple[j]
  <2>1. tuple' = [tuple EXCEPT ![k] = h2]
    <3>1. tuple' = [tuple EXCEPT ![op[t].key] =
                      NewHeaders(tuple[op[t].key], t, op[t].loc, At(t).prev, e)]
      BY DEF Install, NewHeaders
    <3>2. QED
      BY ONLY <3>1, <1>4
  <2>2. tuple \in [Keys -> [Versions -> Headers]]
    BY ONLY <1>2 DEF TypeOK
  <2> HIDE DEF h2
  <2>3. QED
    BY ONLY <2>1, <2>2
<1> HIDE DEF h2
<1>10. /\ pc'[t] = "idle" /\ op'[t] = NoOp /\ reads'[t] = [reads[t] EXCEPT ![k] = @ \cup {}]
       /\ rw_set'[t] = [rw_set[t] EXCEPT ![k] = type]
       /\ head'[k] = t /\ \A j \in Keys : j # k => head'[j] = head[j]
  BY ONLY <1>1, <1>2, <1>4, <1>8 DEF Done, Move, TypeOK
<1>11. /\ rw_set'[t] \in [Keys -> {"NONE", "UPDATE", "DELETE"}] /\ rw_set'[t][k] = type
       /\ \A j \in Keys : j # k => rw_set'[t][j] = rw_set[t][j]
       /\ reads'[t] = reads[t]
  BY ONLY <1>2, <1>10, <1>4 DEF TypeOK
<1>12. \A j \in Keys : j # k => PhaseOf(t, j)' = PhaseOf(t, j)
  BY ONLY <1>5, <1>10, <1>11 DEF PhaseOf, Running
<1>13. Phases(k)' = ph2
  <2>1. PhaseOf(t, k)' = "written"
    BY ONLY <1>2, <1>10, <1>11 DEF PhaseOf, Running
  <2>2. QED
    BY <2>1, <1>3, PhaseChange
<1> HIDE DEF ph2
<1>14. /\ Deleters(k)' \in SUBSET Updaters
       /\ \A w \in Versions : w # t => (w \in Deleters(k)' <=> w \in Deleters(k))
  <2>1. \A u \in Updaters : u # t => rw_set'[u] = rw_set[u]
    BY TxnKinds DEF Alone
  <2>2. QED
    BY ONLY <2>1 DEF Deleters
<1>15. KeyStep(t)
  <2>1. /\ KeyOK(tuple'[k], head'[k], Phases(k)', Deleters(k)')
        /\ StepOK(t, tuple[k], Phases(k), Deleters(k), tuple'[k], Phases(k)', Deleters(k)')
    BY ONLY <1>7, <1>9, <1>10, <1>13, <1>14
  <2>2. QED
    BY <2>1, <1>3, <1>9, <1>10, <1>11, <1>12, OneKey
<1>16. NoOp \in Ops /\ pc'[t] \in PCs /\ pc'[t] \notin Walking
  BY <1>10 DEF Ops, NoOp, NULL, INVALID_TXN_ID, PCs, Running, Walking
<1>17. TxnType(t)'
  BY ONLY <1>1, <1>2, <1>10, <1>11, <1>16 DEF TypeOK, TxnType
<1>18. ControlOK(t)'
  BY ONLY <1>1, <1>2, <1>3, <1>5, <1>10, <1>11 DEF ControlOK, Written, Walking, Running
<1>19. SelfStep(t)
  BY <1>3, <1>11, <1>15, <1>16, <1>17, <1>18, WriteSelf
<1>20. QED
  BY <1>4, <1>6, <1>19

\* The phase of the tuple that a commit or a rollback is busy with.
LEMMA BusyPhase ==
  ASSUME Inv, NEW t \in Txns, pc[t] \in {"c1", "c2", "c3", "a1"}
  PROVE  /\ t \in Updaters /\ op[t].key \in Keys /\ op[t].key \in todo[t]
         /\ rw_set[t][op[t].key] # "NONE" /\ Phases(op[t].key)[t] = pc[t]
<1>1. ControlOK(t) /\ TypeOK /\ t \in Txns /\ pc[t] \in {"c1", "c2", "c3", "a1"}
  BY DEF Inv
<1>2. t \in Updaters
  BY <1>1, TxnKinds DEF ControlOK
<1>3. op[t].key \in todo[t] /\ op[t].key \in Written(t)
  BY ONLY <1>1 DEF ControlOK
<1>4. op[t].key \in Keys /\ rw_set[t][op[t].key] # "NONE"
  BY ONLY <1>3 DEF Written
<1>5. PhaseOf(t, op[t].key) = pc[t]
  BY ONLY <1>1, <1>3, <1>4 DEF PhaseOf, Running
<1>6. QED
  BY ONLY <1>2, <1>3, <1>4, <1>5 DEF Phases

\* A step of a commit or a rollback that is about tuple k.
LEMMA BusyStep ==
  ASSUME Inv, NEW t \in Updaters, Alone(t), NEW k \in Keys,
         UNCHANGED <<rw_set, read_id, reads>>, TxnType(t)', ControlOK(t)',
         pc'[t] \notin Walking,
         \A j \in Keys : j # k =>
           tuple'[j] = tuple[j] /\ head'[j] = head[j] /\ PhaseOf(t, j)' = PhaseOf(t, j),
         KeyOK(tuple'[k], head'[k], Phases(k)', Deleters(k)),
         StepOK(t, tuple[k], Phases(k), Deleters(k), tuple'[k], Phases(k)', Deleters(k))
  PROVE  SelfStep(t)
<1>1. Deleters(k)' = Deleters(k)
  BY DEF Deleters
<1>2. KeyStep(t)
  <2>1. /\ KeyOK(tuple'[k], head'[k], Phases(k)', Deleters(k)')
        /\ StepOK(t, tuple[k], Phases(k), Deleters(k), tuple'[k], Phases(k)', Deleters(k)')
    BY <1>1
  <2>2. \A j \in Keys : j # k =>
          /\ tuple'[j] = tuple[j] /\ head'[j] = head[j]
          /\ PhaseOf(t, j)' = PhaseOf(t, j) /\ rw_set'[t][j] = rw_set[t][j]
    OBVIOUS
  <2>3. QED
    BY <2>1, <2>2, OneKey
<1>3. QED
  BY <1>2, WriteSelf

\* CommitTransaction begins with a tuple.
LEMMA CommitBeginStep ==
  ASSUME Inv, NEW t \in Txns, Alone(t), CommitBegin(t) PROVE SelfStep(t)
<1>1. PICK k \in todo[t] :
        /\ op' = [op EXCEPT ![t] = [NoOp EXCEPT !.key = k]]
        /\ Set(k, t, [tuple[k][t] EXCEPT !.begin = t, !.end = tuple[k][tuple[k][t].next].end])
  BY DEF CommitBegin
<1>2. /\ pc[t] = "commit" /\ Move(t, "c1")
      /\ UNCHANGED <<head, rw_set, todo, read_id, reads>>
  BY DEF CommitBegin
<1>3. TypeOK /\ ControlOK(t) /\ KeyInv /\ t \in Txns
  BY DEF Inv
<1>4. t \in Updaters /\ t \notin Readers /\ t \in Versions
  BY <1>2, <1>3, TxnKinds, MaxCid DEF ControlOK
<1>5. k \in Keys /\ rw_set[t][k] # "NONE" /\ k \in todo[t]
  BY ONLY <1>1, <1>3 DEF ControlOK, Written
<1>6. pc'[t] = "c1" /\ op'[t] = [NoOp EXCEPT !.key = k]
  BY ONLY <1>1, <1>2, <1>3 DEF Move, TypeOK
<1>7. op'[t] \in Ops /\ op'[t].key = k
  BY ONLY <1>5, <1>6 DEF Ops, NoOp, NULL, INVALID_TXN_ID
<1>8. /\ tuple'[k] = [tuple[k] EXCEPT ![t] =
           [tuple[k][t] EXCEPT !.begin = t, !.end = tuple[k][tuple[k][t].next].end]]
      /\ \A j \in Keys : j # k => tuple'[j] = tuple[j]
  BY ONLY <1>1, <1>3, <1>4, <1>5 DEF Set, TypeOK
<1>9. Phases(k)[t] = "written"
  BY ONLY <1>2, <1>4, <1>5 DEF Phases, PhaseOf, Running
<1>10. Phases(k)' = [Phases(k) EXCEPT ![t] = "c1"]
  <2>1. PhaseOf(t, k)' = "c1"
    BY ONLY <1>2, <1>5, <1>6, <1>7 DEF PhaseOf, Running
  <2>2. QED
    BY <2>1, <1>4, <1>5, PhaseChange
<1>11. \A j \in Keys : j # k => PhaseOf(t, j)' = PhaseOf(t, j)
  BY ONLY <1>2, <1>6, <1>7 DEF PhaseOf, Running, Committing
<1>12. /\ KeyOK(tuple'[k], head[k], Phases(k)', Deleters(k))
       /\ StepOK(t, tuple[k], Phases(k), Deleters(k), tuple'[k], Phases(k)', Deleters(k))
  <2>1. KeyOK(tuple[k], head[k], Phases(k), Deleters(k))
    BY ONLY <1>3, <1>5 DEF KeyInv
  <2>2. tuple'[k] = [tuple[k] EXCEPT ![t] =
           [tuple[k][t] EXCEPT !.begin = t, !.end = tuple[k][tuple[k][t].next].end]]
    BY ONLY <1>8
  <2>3. QED
    BY ONLY <2>1, <2>2, <1>4, <1>9, <1>10, BeginStep
<1>13. TxnType(t)'
  BY ONLY <1>2, <1>3, <1>6, <1>7 DEF TypeOK, TxnType, PCs, Committing
<1>14. ControlOK(t)'
  BY ONLY <1>2, <1>3, <1>4, <1>5, <1>6, <1>7 DEF ControlOK, Written, Walking, Running
<1>15. pc'[t] \notin Walking /\ head' = head
  BY ONLY <1>2, <1>6 DEF Walking
<1>16. QED
  BY <1>2, <1>4, <1>5, <1>8, <1>11, <1>12, <1>13, <1>14, <1>15, BusyStep

\* The end of the old version.
LEMMA CommitEndStep ==
  ASSUME Inv, NEW t \in Txns, Alone(t), CommitEnd(t) PROVE SelfStep(t)
<1>1. /\ pc[t] = "c1" /\ Move(t, "c2")
      /\ Set(op[t].key, Old(t), [tuple[op[t].key][Old(t)] EXCEPT !.end = t])
      /\ UNCHANGED <<head, rw_set, op, todo, read_id, reads>>
  BY DEF CommitEnd
<1>2. TypeOK /\ ControlOK(t) /\ KeyInv /\ t \in Txns
  BY DEF Inv
<1>3. PICK k \in Keys : k = op[t].key /\ k \in todo[t] /\ rw_set[t][k] # "NONE"
                        /\ Phases(k)[t] = "c1" /\ t \in Updaters
  BY <1>1, BusyPhase
<1>4. t \notin Readers /\ t \in Versions
  BY <1>3, TxnKinds, MaxCid
<1>5. pc'[t] = "c2" /\ op'[t] = op[t] /\ Old(t) = tuple[k][t].next
  BY ONLY <1>1, <1>2, <1>3 DEF Move, TypeOK, Old
<1>6. KeyOK(tuple[k], head[k], Phases(k), Deleters(k))
  BY ONLY <1>2, <1>3 DEF KeyInv
<1>7. /\ tuple'[k] = [tuple[k] EXCEPT ![tuple[k][t].next] =
                        [tuple[k][tuple[k][t].next] EXCEPT !.end = t]]
      /\ \A j \in Keys : j # k => tuple'[j] = tuple[j]
  BY ONLY <1>1, <1>2, <1>3, <1>5 DEF Set, TypeOK
<1>8. Phases(k)' = [Phases(k) EXCEPT ![t] = "c2"]
  <2>1. PhaseOf(t, k)' = "c2"
    BY ONLY <1>1, <1>3, <1>5 DEF PhaseOf, Running
  <2>2. QED
    BY <2>1, <1>3, PhaseChange
<1>9. \A j \in Keys : j # k => PhaseOf(t, j)' = PhaseOf(t, j)
  BY ONLY <1>1, <1>3, <1>5 DEF PhaseOf, Running, Committing
<1>10. /\ KeyOK(tuple'[k], head[k], Phases(k)', Deleters(k))
       /\ StepOK(t, tuple[k], Phases(k), Deleters(k), tuple'[k], Phases(k)', Deleters(k))
  <2>1. tuple'[k] = [tuple[k] EXCEPT ![tuple[k][t].next] =
                       [tuple[k][tuple[k][t].next] EXCEPT !.end = t]]
    BY ONLY <1>7
  <2>2. QED
    BY ONLY <2>1, <1>3, <1>6, <1>8, EndStep
<1>11. TxnType(t)'
  BY ONLY <1>1, <1>2, <1>5 DEF TypeOK, TxnType, PCs, Committing
<1>12. ControlOK(t)'
  BY ONLY <1>1, <1>2, <1>3, <1>4, <1>5 DEF ControlOK, Written, Walking, Running
<1>13. pc'[t] \notin Walking /\ head' = head
  BY ONLY <1>1, <1>5 DEF Walking
<1>14. QED
  BY <1>1, <1>3, <1>7, <1>9, <1>10, <1>11, <1>12, <1>13, BusyStep

\* The new version is released.
LEMMA CommitNewStep ==
  ASSUME Inv, NEW t \in Txns, Alone(t), CommitNew(t) PROVE SelfStep(t)
<1>1. /\ pc[t] = "c2" /\ Move(t, "c3")
      /\ Set(op[t].key, t, [tuple[op[t].key][t] EXCEPT !.txn =
              IF rw_set[t][op[t].key] = "DELETE" THEN INVALID_TXN_ID ELSE INITIAL_TXN_ID])
      /\ UNCHANGED <<head, rw_set, op, todo, read_id, reads>>
  BY DEF CommitNew
<1>2. TypeOK /\ ControlOK(t) /\ KeyInv /\ t \in Txns
  BY DEF Inv
<1>3. PICK k \in Keys : k = op[t].key /\ k \in todo[t] /\ rw_set[t][k] # "NONE"
                        /\ Phases(k)[t] = "c2" /\ t \in Updaters
  BY <1>1, BusyPhase
<1>4. t \notin Readers /\ t \in Versions
  BY <1>3, TxnKinds, MaxCid
<1>5. pc'[t] = "c3" /\ op'[t] = op[t] /\ (rw_set[t][k] = "DELETE" <=> t \in Deleters(k))
  BY ONLY <1>1, <1>2, <1>3 DEF Move, TypeOK, Deleters
<1>6. KeyOK(tuple[k], head[k], Phases(k), Deleters(k))
  BY ONLY <1>2, <1>3 DEF KeyInv
<1>7. /\ tuple'[k] = [tuple[k] EXCEPT ![t] = [tuple[k][t] EXCEPT !.txn =
                        IF t \in Deleters(k) THEN INVALID_TXN_ID ELSE INITIAL_TXN_ID]]
      /\ \A j \in Keys : j # k => tuple'[j] = tuple[j]
  BY ONLY <1>1, <1>2, <1>3, <1>4, <1>5 DEF Set, TypeOK
<1>8. Phases(k)' = [Phases(k) EXCEPT ![t] = "c3"]
  <2>1. PhaseOf(t, k)' = "c3"
    BY ONLY <1>1, <1>3, <1>5 DEF PhaseOf, Running
  <2>2. QED
    BY <2>1, <1>3, PhaseChange
<1>9. \A j \in Keys : j # k => PhaseOf(t, j)' = PhaseOf(t, j)
  BY ONLY <1>1, <1>3, <1>5 DEF PhaseOf, Running, Committing
<1>10. /\ KeyOK(tuple'[k], head[k], Phases(k)', Deleters(k))
       /\ StepOK(t, tuple[k], Phases(k), Deleters(k), tuple'[k], Phases(k)', Deleters(k))
  <2>1. tuple'[k] = [tuple[k] EXCEPT ![t] = [tuple[k][t] EXCEPT !.txn =
                       IF t \in Deleters(k) THEN INVALID_TXN_ID ELSE INITIAL_TXN_ID]]
    BY ONLY <1>7
  <2>2. QED
    BY ONLY <2>1, <1>3, <1>6, <1>8, NewStep
<1>11. TxnType(t)'
  BY ONLY <1>1, <1>2, <1>5 DEF TypeOK, TxnType, PCs, Committing
<1>12. ControlOK(t)'
  BY ONLY <1>1, <1>2, <1>3, <1>4, <1>5 DEF ControlOK, Written, Walking, Running
<1>13. pc'[t] \notin Walking /\ head' = head
  BY ONLY <1>1, <1>5 DEF Walking
<1>14. QED
  BY <1>1, <1>3, <1>7, <1>9, <1>10, <1>11, <1>12, <1>13, BusyStep

\* One tuple less to install or to roll back.
LEMMA FinishFacts ==
  ASSUME TypeOK, NEW t \in Txns, NEW busy, NEW ended, NEW k \in Keys, k = op[t].key,
         Finish(t, busy, ended)
  PROVE  /\ todo'[t] = todo[t] \ {k} /\ op'[t] = NoOp /\ NoOp \in Ops
         /\ pc'[t] = IF todo[t] = {k} THEN ended ELSE busy
         /\ todo'[t] \in SUBSET Keys
<1>1. /\ todo'[t] = todo[t] \ {k} /\ op'[t] = NoOp
      /\ pc'[t] = IF todo[t] = {k} THEN ended ELSE busy
  BY DEF Finish, Move, TypeOK
<1>2. NoOp \in Ops
  BY DEF Ops, NoOp, NULL, INVALID_TXN_ID
<1>3. todo[t] \in SUBSET Keys
  BY DEF TypeOK
<1>4. QED
  BY ONLY <1>1, <1>2, <1>3

\* The old version is released.
LEMMA CommitOldStep ==
  ASSUME Inv, NEW t \in Txns, Alone(t), CommitOld(t) PROVE SelfStep(t)
<1>1. /\ pc[t] = "c3" /\ Finish(t, "commit", "committed")
      /\ Set(op[t].key, Old(t), [tuple[op[t].key][Old(t)] EXCEPT !.txn = INITIAL_TXN_ID])
      /\ UNCHANGED <<head, rw_set, read_id, reads>>
  BY DEF CommitOld
<1>2. TypeOK /\ ControlOK(t) /\ KeyInv /\ t \in Txns
  BY DEF Inv
<1>3. PICK k \in Keys : k = op[t].key /\ k \in todo[t] /\ rw_set[t][k] # "NONE"
                        /\ Phases(k)[t] = "c3" /\ t \in Updaters
  BY <1>1, BusyPhase
<1>4. t \notin Readers /\ t \in Versions
  BY <1>3, TxnKinds, MaxCid
<1>5. /\ pc'[t] = (IF todo[t] = {k} THEN "committed" ELSE "commit") /\ op'[t] = NoOp
      /\ NoOp \in Ops /\ todo'[t] = todo[t] \ {k} /\ todo'[t] \in SUBSET Keys
      /\ Old(t) = tuple[k][t].next
  BY <1>1, <1>2, <1>3, FinishFacts DEF Old
<1>6. KeyOK(tuple[k], head[k], Phases(k), Deleters(k))
  BY ONLY <1>2, <1>3 DEF KeyInv
<1>7. /\ tuple'[k] = [tuple[k] EXCEPT ![tuple[k][t].next] =
                        [tuple[k][tuple[k][t].next] EXCEPT !.txn = INITIAL_TXN_ID]]
      /\ \A j \in Keys : j # k => tuple'[j] = tuple[j]
  BY ONLY <1>1, <1>2, <1>3, <1>5 DEF Set, TypeOK
<1>8. Phases(k)' = [Phases(k) EXCEPT ![t] = "installed"]
  <2>1. PhaseOf(t, k)' = "installed"
    BY ONLY <1>1, <1>3, <1>5 DEF PhaseOf, Running, Committing
  <2>2. QED
    BY <2>1, <1>3, PhaseChange
<1>9. \A j \in Keys : j # k => PhaseOf(t, j)' = PhaseOf(t, j)
  BY ONLY <1>1, <1>3, <1>5 DEF PhaseOf, Running, Committing
<1>10. /\ KeyOK(tuple'[k], head[k], Phases(k)', Deleters(k))
       /\ StepOK(t, tuple[k], Phases(k), Deleters(k), tuple'[k], Phases(k)', Deleters(k))
  <2>1. tuple'[k] = [tuple[k] EXCEPT ![tuple[k][t].next] =
                       [tuple[k][tuple[k][t].next] EXCEPT !.txn = INITIAL_TXN_ID]]
    BY ONLY <1>7
  <2>2. QED
    BY ONLY <2>1, <1>3, <1>6, <1>8, OldStep
<1>11. TxnType(t)'
  BY ONLY <1>1, <1>2, <1>5 DEF TypeOK, TxnType, PCs, Committing
<1>12. ControlOK(t)'
  BY ONLY <1>1, <1>2, <1>4, <1>5, <1>3 DEF ControlOK, Written, Walking, Running
<1>13. pc'[t] \notin Walking /\ head' = head
  BY ONLY <1>1, <1>5 DEF Walking
<1>14. QED
  BY <1>1, <1>3, <1>7, <1>9, <1>10, <1>11, <1>12, <1>13, BusyStep

\* AbortTransaction begins with a tuple.
LEMMA AbortHeadStep ==
  ASSUME Inv, NEW t \in Txns, Alone(t), AbortHead(t) PROVE SelfStep(t)
<1>1. PICK k \in todo[t] :
        /\ op' = [op EXCEPT ![t] = [NoOp EXCEPT !.key = k]]
        /\ Set(k, t, [tuple[k][t] EXCEPT !.begin = MAX_CID, !.end = MAX_CID])
        /\ head' = [head EXCEPT ![k] =
                      IF tuple[k][t].prev = NULL THEN tuple[k][t].next ELSE @]
  BY DEF AbortHead
<1>2. /\ pc[t] = "abort" /\ Move(t, "a1")
      /\ UNCHANGED <<rw_set, todo, read_id, reads>>
  BY DEF AbortHead
<1>3. TypeOK /\ ControlOK(t) /\ KeyInv /\ t \in Txns
  BY DEF Inv
<1>4. t \in Updaters /\ t \notin Readers /\ t \in Versions
  BY <1>2, <1>3, TxnKinds, MaxCid DEF ControlOK
<1>5. k \in Keys /\ rw_set[t][k] # "NONE" /\ k \in todo[t]
  BY ONLY <1>1, <1>3 DEF ControlOK, Written
<1>6. pc'[t] = "a1" /\ op'[t] = [NoOp EXCEPT !.key = k]
  BY ONLY <1>1, <1>2, <1>3 DEF Move, TypeOK
<1>7. op'[t] \in Ops /\ op'[t].key = k
  BY ONLY <1>5, <1>6 DEF Ops, NoOp, NULL, INVALID_TXN_ID
<1>8. /\ tuple'[k] = [tuple[k] EXCEPT ![t] =
           [tuple[k][t] EXCEPT !.begin = MAX_CID, !.end = MAX_CID]]
      /\ \A j \in Keys : j # k => tuple'[j] = tuple[j]
  BY ONLY <1>1, <1>3, <1>4, <1>5 DEF Set, TypeOK
<1>9. Phases(k)[t] = "written"
  BY ONLY <1>2, <1>4, <1>5 DEF Phases, PhaseOf, Running
<1>10. Phases(k)' = [Phases(k) EXCEPT ![t] = "a1"]
  <2>1. PhaseOf(t, k)' = "a1"
    BY ONLY <1>2, <1>5, <1>6, <1>7 DEF PhaseOf, Running
  <2>2. QED
    BY <2>1, <1>4, <1>5, PhaseChange
<1>11. \A j \in Keys : j # k => PhaseOf(t, j)' = PhaseOf(t, j)
  BY ONLY <1>2, <1>6, <1>7 DEF PhaseOf, Running, Committing
<1>12. /\ tuple[k][t].prev = NULL
       /\ KeyOK(tuple'[k], tuple[k][t].next, Phases(k)', Deleters(k))
       /\ StepOK(t, tuple[k], Phases(k), Deleters(k), tuple'[k], Phases(k)', Deleters(k))
  <2>1. KeyOK(tuple[k], head[k], Phases(k), Deleters(k))
    BY ONLY <1>3, <1>5 DEF KeyInv
  <2>2. tuple'[k] = [tuple[k] EXCEPT ![t] =
           [tuple[k][t] EXCEPT !.begin = MAX_CID, !.end = MAX_CID]]
    BY ONLY <1>8
  <2>3. QED
    BY ONLY <2>1, <2>2, <1>4, <1>9, <1>10, AbortStep
<1>13. head'[k] = tuple[k][t].next /\ \A j \in Keys : j # k => head'[j] = head[j]
  BY ONLY <1>1, <1>3, <1>5, <1>12 DEF TypeOK
<1>14. TxnType(t)'
  BY ONLY <1>2, <1>3, <1>6, <1>7 DEF TypeOK, TxnType, PCs
<1>15. ControlOK(t)'
  BY ONLY <1>2, <1>3, <1>4, <1>5, <1>6, <1>7 DEF ControlOK, Written, Walking, Running
<1>16. pc'[t] \notin Walking
  BY ONLY <1>6 DEF Walking
<1>17. KeyOK(tuple'[k], head'[k], Phases(k)', Deleters(k))
  BY ONLY <1>12, <1>13
<1>18. QED
  BY <1>2, <1>4, <1>5, <1>8, <1>11, <1>12, <1>13, <1>14, <1>15, <1>16, <1>17, BusyStep

\* The old version is linked in and released again.
LEMMA AbortUnlinkStep ==
  ASSUME Inv, NEW t \in Txns, Alone(t), AbortUnlink(t) PROVE SelfStep(t)
<1>1. /\ pc[t] = "a1" /\ Finish(t, "abort", "aborted")
      /\ tuple' = [tuple EXCEPT ![op[t].key] =
                     OldHeaders(tuple[op[t].key], t, Old(t), tuple[op[t].key][t].prev)]
      /\ UNCHANGED <<head, rw_set, read_id, reads>>
  BY DEF AbortUnlink, OldHeaders
<1>2. TypeOK /\ ControlOK(t) /\ KeyInv /\ t \in Txns
  BY DEF Inv
<1>3. PICK k \in Keys : k = op[t].key /\ k \in todo[t] /\ rw_set[t][k] # "NONE"
                        /\ Phases(k)[t] = "a1" /\ t \in Updaters
  BY <1>1, BusyPhase
<1>4. t \notin Readers /\ t \in Versions
  BY <1>3, TxnKinds, MaxCid
<1>5. /\ pc'[t] = (IF todo[t] = {k} THEN "aborted" ELSE "abort") /\ op'[t] = NoOp
      /\ NoOp \in Ops /\ todo'[t] = todo[t] \ {k} /\ todo'[t] \in SUBSET Keys
      /\ Old(t) = tuple[k][t].next
  BY <1>1, <1>2, <1>3, FinishFacts DEF Old
<1>6. KeyOK(tuple[k], head[k], Phases(k), Deleters(k))
  BY ONLY <1>2, <1>3 DEF KeyInv
<1>7. /\ tuple'[k] = OldHeaders(tuple[k], t, tuple[k][t].next, tuple[k][t].prev)
      /\ \A j \in Keys : j # k => tuple'[j] = tuple[j]
  BY ONLY <1>1, <1>2, <1>3, <1>5 DEF TypeOK
<1>8. Phases(k)' = [Phases(k) EXCEPT ![t] = "undone"]
  <2>1. PhaseOf(t, k)' = "undone"
    BY ONLY <1>1, <1>3, <1>5 DEF PhaseOf, Running, Committing
  <2>2. QED
    BY <2>1, <1>3, PhaseChange
<1>9. \A j \in Keys : j # k => PhaseOf(t, j)' = PhaseOf(t, j)
  BY ONLY <1>1, <1>3, <1>5 DEF PhaseOf, Running, Committing
<1>10. /\ KeyOK(tuple'[k], head[k], Phases(k)', Deleters(k))
       /\ StepOK(t, tuple[k], Phases(k), Deleters(k), tuple'[k], Phases(k)', Deleters(k))
  <2>1. tuple'[k] = OldHeaders(tuple[k], t, tuple[k][t].next, tuple[k][t].prev)
    BY ONLY <1>7
  <2>2. QED
    BY ONLY <2>1, <1>3, <1>6, <1>8, UnlinkStep
<1>11. TxnType(t)'
  BY ONLY <1>1, <1>2, <1>5 DEF TypeOK, TxnType, PCs
<1>12. ControlOK(t)'
  BY ONLY <1>1, <1>2, <1>4, <1>5, <1>3 DEF ControlOK, Written, Walking, Running
<1>13. pc'[t] \notin Walking /\ head' = head
  BY ONLY <1>1, <1>5 DEF Walking
<1>14. QED
  BY <1>1, <1>3, <1>7, <1>9, <1>10, <1>11, <1>12, <1>13, BusyStep

-----------------------------------------------------------------------------
(* The invariant.                                                          *)

\* At first every tuple has the one version that was loaded.
LEMMA InitInv == Init => Inv
<1> SUFFICES ASSUME Init PROVE Inv
  OBVIOUS
<1> DEFINE h0 == [v \in Versions |->
                    IF v = Loader
                    THEN [EmptySlot EXCEPT !.txn = INITIAL_TXN_ID, !.begin = Loader]
                    ELSE EmptySlot]
<1>0. /\ Versions \subseteq Nat /\ Loader \in Versions /\ MAX_CID \in Nat /\ NULL \notin Versions
      /\ \A u \in Updaters : u # INITIAL_TXN_ID /\ u # INVALID_TXN_ID
      /\ INITIAL_TXN_ID # INVALID_TXN_ID /\ Loader \notin Updaters /\ Loader \in Nat
      /\ INITIAL_TXN_ID \in Nat /\ INVALID_TXN_ID \in Nat /\ Updaters \subseteq Nat
      /\ \A v \in Versions : v \in Updaters \/ v = Loader
  <2>1. \A u \in Updaters : u # INITIAL_TXN_ID /\ u # INVALID_TXN_ID
    BY UpdatersAssumption DEF INITIAL_TXN_ID, INVALID_TXN_ID
  <2>2. NULL \notin Versions
    BY UpdatersAssumption DEF NULL, Versions, Loader
  <2>3. QED
    BY <2>1, <2>2, MaxCid DEF INITIAL_TXN_ID, INVALID_TXN_ID, Loader, Versions
<1>1. \A v \in Versions :
        /\ h0[v].txn = (IF v = Loader THEN INITIAL_TXN_ID ELSE INVALID_TXN_ID)
        /\ h0[v].begin = (IF v = Loader THEN Loader ELSE MAX_CID) /\ h0[v].end = MAX_CID
        /\ h0[v].prev = NULL /\ h0[v].next = NULL /\ h0[v].reader = 0 /\ h0[v] \in Headers
  BY <1>0 DEF EmptySlot, Headers
<1>2. h0 \in [Versions -> Headers]
  BY <1>1
<1>3. tuple = [k \in Keys |-> h0] /\ head = [k \in Keys |-> Loader]
  BY DEF Init
<1> HIDE DEF h0
<1>4. ASSUME NEW k \in Keys
      PROVE  /\ tuple[k] = h0 /\ head[k] = Loader
             /\ Phases(k) = [t \in Updaters |-> "none"] /\ Deleters(k) = {}
  <2>1. tuple[k] = h0 /\ head[k] = Loader
    BY <1>3
  <2>2. \A t \in Updaters : rw_set[t][k] = "NONE"
    BY TxnKinds DEF Init
  <2>3. QED
    BY <2>1, <2>2 DEF Phases, PhaseOf, Deleters
<1> DEFINE none == [t \in Updaters |-> "none"]
<1>5. \A v : (InChain(v, none) <=> v = Loader) /\ ~Owns(v, none)
  BY DEF InChain, Owns
<1>6. \A u \in Updaters : none[u] = "none"
  OBVIOUS
<1>7. none \in [Updaters -> PhaseNames]
  BY DEF PhaseNames
<1> HIDE DEF none
<1>8. KeyOK(h0, Loader, none, {})
  <2>1. KeyType(h0, Loader, none, {})
    BY <1>0, <1>2, <1>7 DEF KeyType
  <2>2. ChainOK(h0, none, {})
    <3>1. LinkOK(Loader, h0, none, {})
      BY ONLY <1>0, <1>1, <1>5 DEF LinkOK
    <3>2. QED
      BY ONLY <3>1, <1>5 DEF ChainOK
  <2>3. OwnerOK(h0, Loader, none)
    BY ONLY <1>5 DEF OwnerOK
  <2>4. TxnOK(h0, none)
    BY ONLY <1>0, <1>1, <1>5, <1>6 DEF TxnOK, HeldOK
  <2>5. HeadOK(h0, Loader, none)
    BY ONLY <1>0, <1>1, <1>5 DEF HeadOK
  <2>6. QED
    BY ONLY <2>1, <2>2, <2>3, <2>4, <2>5 DEF KeyOK
<1>9. KeyInv
  BY <1>4, <1>8 DEF KeyInv, none
<1>10. TypeOK
  <2>1. tuple \in [Keys -> [Versions -> Headers]] /\ head \in [Keys -> Versions]
    BY <1>0, <1>2, <1>3
  <2>2. rw_set \in [Txns -> [Keys -> {"NONE", "UPDATE", "DELETE"}]] /\ pc \in [Txns -> PCs]
    BY DEF Init, PCs, Running
  <2>3. op \in [Txns -> Ops]
    <3>1. NoOp \in Ops
      BY DEF NoOp, Ops, NULL, INVALID_TXN_ID
    <3>2. QED
      BY <3>1 DEF Init
  <2>4. todo \in [Txns -> SUBSET Keys]
    BY DEF Init
  <2>5. read_id \in [Txns -> Nat]
    BY <1>0 DEF Init
  <2>6. reads \in [Txns -> [Keys -> SUBSET (Versions \cup {NULL})]]
    BY DEF Init
  <2>7. QED
    BY <2>1, <2>2, <2>3, <2>4, <2>5, <2>6 DEF TypeOK
<1>11. ASSUME NEW t \in Txns
       PROVE  /\ pc[t] = "idle" /\ todo[t] = {} /\ Written(t) = {}
              /\ read_id[t] = (IF t \in Updaters THEN t ELSE 0)
              /\ \A k \in Keys : reads[t][k] = {}
  BY DEF Init, Written
<1>12. "idle" \notin Walking /\ "idle" \in Running
  BY DEF Walking, Running
<1>13. ASSUME NEW t \in Txns PROVE ControlOK(t)
  BY <1>11, <1>12 DEF ControlOK
<1>14. ASSUME NEW t \in Updaters PROVE UpdaterInv(t)
  BY <1>11, <1>12, TxnKinds DEF UpdaterInv
<1>15. ASSUME NEW t \in Readers PROVE ReaderInv(t)
  BY <1>11, <1>12, TxnKinds DEF ReaderInv
<1>16. QED
  BY <1>9, <1>10, <1>13, <1>14, <1>15 DEF Inv

\* Every step keeps the invariant.
LEMMA NextInv == Inv /\ [Next]_vars => Inv'
<1> SUFFICES ASSUME Inv, [Next]_vars PROVE Inv'
  OBVIOUS
<1>1. CASE UNCHANGED vars
  <2>1. UNCHANGED <<tuple, head, rw_set, pc, op, todo, read_id, reads>>
    BY <1>1 DEF vars
  <2>2. \A k : Phases(k)' = Phases(k) /\ Deleters(k)' = Deleters(k)
    BY ONLY <2>1 DEF Phases, PhaseOf, Deleters
  <2>3. TypeOK /\ KeyInv /\ (\A t \in Txns : ControlOK(t)) /\ (\A t \in Updaters : UpdaterInv(t))
        /\ (\A r \in Readers : ReaderInv(r))
    BY DEF Inv
  <2>4. TypeOK'
    BY ONLY <2>1, <2>3 DEF TypeOK
  <2>5. KeyInv'
    BY ONLY <2>1, <2>2, <2>3 DEF KeyInv
  <2>6. ASSUME NEW t \in Txns PROVE ControlOK(t)'
    BY ONLY <2>1, <2>3, <2>6 DEF ControlOK, Written
  <2>7. ASSUME NEW t \in Updaters PROVE UpdaterInv(t)'
    BY ONLY <2>1, <2>2, <2>3, <2>7 DEF UpdaterInv
  <2>8. ASSUME NEW r \in Readers PROVE ReaderInv(r)'
    BY ONLY <2>1, <2>2, <2>3, <2>8 DEF ReaderInv, Ended
  <2>9. QED
    BY ONLY <2>4, <2>5, <2>6, <2>7, <2>8 DEF Inv
<1>2. ASSUME NEW t \in Txns, Work(t) \/ Client(t) PROVE Inv'
  <2>1. Alone(t) /\ Shape' /\ (t \in Updaters => ~Ended(t))
    BY <1>2, AloneStep DEF Inv
  <2>2. SUFFICES SelfStep(t)
    BY <2>1, OthersStep
  <2>3. CASE LoadTransactionId(t)
    BY <2>1, <2>3, LoadStep
  <2>4. CASE CheckVisible(t)
    BY <2>1, <2>4, CheckStep
  <2>5. CASE StepChain(t)
    BY <2>1, <2>5, ChainStep
  <2>6. CASE PerformRead(t)
    BY <2>1, <2>6, PerformReadStep
  <2>7. CASE UpdateInPlace(t) \/ IsOwnable(t) \/ AcquireFails(t)
    BY <2>1, <2>7, OwnableStep
  <2>8. CASE DeleteInPlace(t)
    BY <2>1, <2>8, DeleteInPlaceStep
  <2>9. CASE PerformUpdate(t)
    BY <2>1, <2>9, InstallSelf, MaxCid DEF PerformUpdate
  <2>10. CASE PerformDelete(t)
    BY <2>1, <2>10, InstallSelf DEF PerformDelete, INVALID_CID
  <2>11. CASE CommitBegin(t)
    BY <2>1, <2>11, CommitBeginStep
  <2>12. CASE CommitEnd(t)
    BY <2>1, <2>12, CommitEndStep
  <2>13. CASE CommitNew(t)
    BY <2>1, <2>13, CommitNewStep
  <2>14. CASE CommitOld(t)
    BY <2>1, <2>14, CommitOldStep
  <2>15. CASE AbortHead(t)
    BY <2>1, <2>15, AbortHeadStep
  <2>16. CASE AbortUnlink(t)
    BY <2>1, <2>16, AbortUnlinkStep
  <2>17. CASE BeginReader(t)
    BY <2>1, <2>17, BeginReaderStep
  <2>18. CASE \E kind \in Kinds, k \in Keys : Start(t, kind, k)
    BY <2>1, <2>18, StartStep
  <2>19. CASE Commit(t) \/ UserAbort(t)
    BY <2>1, <2>19, CommitStep
  <2>20. QED
    BY <1>2, <2>3, <2>4, <2>5, <2>6, <2>7, <2>8, <2>9, <2>10, <2>11, <2>12, <2>13, <2>14,
       <2>15, <2>16, <2>17, <2>18, <2>19 DEF Work, Client
<1>3. QED
  BY <1>1, <1>2 DEF Next

\* The inductive invariant holds in every reachable state.
THEOREM Invariance == Spec => []Inv
<1>1. QED
  BY InitInv, NextInv, PTL DEF Spec

-----------------------------------------------------------------------------
(* What follows from it.                                                   *)

\* The committed versions are those of the transactions that have committed,
\* and of the one that is between the two releases of its commit.
LEMMA InstalledPhase ==
  ASSUME Inv, NEW k \in Keys, NEW t \in Updaters
  PROVE  /\ t \in Installed(k) <=> Phases(k)[t] = "installed"
         /\ Phases(k)[t] \in {"c2", "c3"} => pc[t] = Phases(k)[t] /\ op[t].key = k
         /\ Phases(k)[t] = "installed" => pc[t] \in Committing \cup {"committed"}
         /\ pc[t] = "aborted" => Phases(k)[t] \in {"none", "undone"}
         /\ Ended(t) => Phases(k)[t] \in {"none", "installed", "undone"}
<1>1. Phases(k)[t] = PhaseOf(t, k) /\ ControlOK(t) /\ t # Loader
  BY TxnKinds, MaxCid DEF Phases, Inv
<1>2. t \in Installed(k) <=> /\ rw_set[t][k] # "NONE"
                             /\ \/ pc[t] = "committed"
                                \/ pc[t] \in Committing /\ k \notin todo[t]
  BY ONLY <1>1, t \in Updaters DEF Installed
<1>3. /\ pc[t] \in PCs
      /\ pc[t] \in {"c1", "c2", "c3", "a1"} => op[t].key \in todo[t]
      /\ pc[t] \in Running \cup {"committed", "aborted"} => k \notin todo[t]
  BY <1>1, TxnKinds DEF Inv, TypeOK, ControlOK
<1>4. CASE rw_set[t][k] = "NONE"
  BY ONLY <1>1, <1>2, <1>4 DEF PhaseOf, Ended
<1>5. CASE rw_set[t][k] # "NONE" /\ k \in todo[t]
  <2>1. pc[t] \in {"commit", "c1", "c2", "c3", "abort", "a1"}
    BY ONLY <1>3, <1>5 DEF PCs, Running, Committing
  <2>2. Phases(k)[t] = IF pc[t] \in {"commit", "abort"} \/ op[t].key # k
                       THEN "written" ELSE pc[t]
    BY ONLY <1>1, <1>5, <2>1 DEF PhaseOf, Running
  <2>3. QED
    BY ONLY <1>2, <1>5, <2>1, <2>2 DEF Committing, Ended
<1>6. CASE rw_set[t][k] # "NONE" /\ k \notin todo[t]
  <2>1. Phases(k)[t] = IF pc[t] \in Running THEN "written"
                       ELSE IF pc[t] \in Committing \cup {"committed"} THEN "installed"
                       ELSE "undone"
    BY ONLY <1>1, <1>6 DEF PhaseOf
  <2>2. QED
    BY ONLY <1>2, <1>6, <2>1 DEF Running, Committing, Ended
<1>7. QED
  BY ONLY <1>4, <1>5, <1>6

\* Nobody reads a version of a transaction that does not commit.
THEOREM NoDirtyRead == Spec => []ReadsAreCommitted
<1>1. Inv => ReadsAreCommitted
  <2> SUFFICES ASSUME Inv, NEW t \in Txns, NEW k \in Keys,
                      NEW v \in reads[t][k] \ {Nothing, Loader}, v # t
               PROVE  pc[v] \in Committing \cup {"committed"}
    BY DEF ReadsAreCommitted
  <2>1. v \in reads[t][k] /\ v # NULL /\ v # Loader
    BY DEF Nothing
  <2>2. v \in Updaters /\ InChain(v, Phases(k))
    <3>1. CASE t \in Updaters
      BY <2>1, <3>1 DEF Inv, UpdaterInv, InChain
    <3>2. CASE t \in Readers
      <4>1. PICK last \in Versions : /\ Newest(last, read_id[t], Phases(k))
                                     /\ v = IF last \in Deleters(k) THEN NULL ELSE last
        BY <2>1, <3>2 DEF Inv, ReaderInv
      <4>2. QED
        BY <2>1, <4>1 DEF Newest, InChain
    <3>3. QED
      BY <3>1, <3>2, TxnKinds
  <2>3. Phases(k)[v] \in {"c3", "installed"}
    BY <2>1, <2>2 DEF InChain
  <2>4. QED
    BY <2>2, <2>3, InstalledPhase DEF Committing
<1>2. QED
  BY Invariance, <1>1, PTL

\* The installed versions of a tuple divide the time between them.
THEOREM NoLostUpdate == Spec => []VersionsPartitionTime
<1>1. Inv => VersionsPartitionTime
  <2> SUFFICES ASSUME Inv, NEW k \in Keys, ~InFlight(k), NEW v \in Installed(k)
               PROVE  /\ tuple[k][v].begin = v
                      /\ IF Newer(k, v) = {} THEN tuple[k][v].end = MAX_CID
                         ELSE /\ tuple[k][v].end = Successor(k, v)
                              /\ tuple[k][Successor(k, v)].next = v
    BY DEF VersionsPartitionTime
  <2> DEFINE h == tuple[k]
             e == h[v].end
  <2>1. \A w : w \in Installed(k) <=> w \in Versions /\ InChain(w, Phases(k))
    <3>1. ASSUME NEW w \in Updaters PROVE w \in Installed(k) <=> InChain(w, Phases(k))
      <4>1. Phases(k)[w] # "c3"
        BY <3>1, InstalledPhase DEF InFlight
      <4>2. w # Loader
        BY MaxCid
      <4>3. QED
        BY <3>1, <4>1, <4>2, InstalledPhase DEF InChain
    <3>2. Loader \in Installed(k) /\ InChain(Loader, Phases(k)) /\ Loader \in Versions
      BY MaxCid DEF Installed, InChain
    <3>3. \A w : w \in Installed(k) \/ w \in Versions => w \in Updaters \/ w = Loader
      BY DEF Installed, Versions
    <3>4. Updaters \subseteq Versions
      BY MaxCid
    <3>5. QED
      BY ONLY <3>1, <3>2, <3>3, <3>4
  <2>2. v \in Versions /\ InChain(v, Phases(k)) /\ LinkOK(v, h, Phases(k), Deleters(k))
    BY <2>1 DEF Inv, KeyInv, KeyOK, ChainOK
  <2>3. e = MAX_CID \/ (e \in Updaters /\ v < e /\ h[e].next = v /\ InChain(e, Phases(k)))
    <3>1. \A u \in Updaters : Phases(k)[u] # "c2"
      BY InstalledPhase DEF InFlight
    <3>2. QED
      BY ONLY <2>2, <3>1 DEF LinkOK
  <2>4. \A w \in Newer(k, v) : e <= w /\ w \in Versions /\ w < MAX_CID /\ w \in Nat
    <3>1. \A w \in Newer(k, v) : w \in Versions /\ InChain(w, Phases(k)) /\ w > v
      BY <2>1 DEF Newer
    <3>2. \A w \in Newer(k, v) : w \in Nat /\ w < MAX_CID /\ v < w
      BY ONLY <3>1, <2>2, MaxCid
    <3>3. QED
      BY ONLY <3>1, <3>2, <2>2 DEF LinkOK
  <2>5. MAX_CID \in Nat /\ v \in Nat /\ Updaters \subseteq Versions /\ Updaters \subseteq Nat
    BY <2>2, MaxCid
  <2>6. e # MAX_CID => e \in Newer(k, v)
    <3>1. e # MAX_CID => e \in Installed(k) /\ v < e /\ e \in Nat
      BY ONLY <2>1, <2>3, <2>5
    <3>2. e # MAX_CID => e \in Installed(k) /\ e > v
      BY ONLY <3>1, <2>5
    <3>3. QED
      BY ONLY <3>2 DEF Newer
  <2> HIDE DEF e
  <2>7. CASE Newer(k, v) = {}
    BY ONLY <2>2, <2>6, <2>7 DEF LinkOK, e
  <2>8. CASE Newer(k, v) # {}
    <3>1. e # MAX_CID
      BY ONLY <2>4, <2>5, <2>8
    <3>2. e \in Newer(k, v) /\ \A w \in Newer(k, v) : e <= w
      BY ONLY <2>4, <2>6, <3>1
    <3>3. ASSUME NEW x \in Newer(k, v), \A w \in Newer(k, v) : x <= w PROVE x = e
      BY ONLY <3>2, <3>3, <2>4
    <3>4. Successor(k, v) = e
      BY ONLY <3>2, <3>3 DEF Successor
    <3>5. h[v].begin = v
      BY ONLY <2>2 DEF LinkOK
    <3>6. h[v].end = Successor(k, v) /\ h[Successor(k, v)].next = v
      BY ONLY <3>1, <3>4, <2>3 DEF e
    <3>7. QED
      BY ONLY <2>8, <3>5, <3>6
  <2>9. QED
    BY ONLY <2>7, <2>8
<1>2. QED
  BY Invariance, <1>1, PTL

\* A transaction that has ended owns nothing, and one that has aborted has left
\* nothing behind in the chains.
THEOREM RollbackIsComplete == Spec => []NothingIsLeft
<1>1. Inv => NothingIsLeft
  <2> SUFFICES ASSUME Inv, NEW t \in Updaters, Ended(t), NEW k \in Keys
               PROVE  /\ \A v \in Versions : tuple[k][v].txn # t
                      /\ pc[t] = "aborted" =>
                           /\ head[k] # t /\ tuple[k][t].txn = INVALID_TXN_ID
                           /\ \A v \in Installed(k) :
                                t \notin {tuple[k][v].prev, tuple[k][v].next}
    BY DEF NothingIsLeft
  <2> DEFINE h == tuple[k]
             ph == Phases(k)
  <2>1. /\ KeyType(h, head[k], ph, Deleters(k)) /\ ChainOK(h, ph, Deleters(k))
        /\ OwnerOK(h, head[k], ph) /\ TxnOK(h, ph) /\ HeadOK(h, head[k], ph)
    BY DEF Inv, KeyInv, KeyOK
  <2>2. ph[t] \in {"none", "installed", "undone"} /\ (pc[t] = "aborted" => ph[t] # "installed")
    BY InstalledPhase
  <2>3. t # Loader /\ t # NULL /\ t \in Versions /\ Loader \in Versions
        /\ INITIAL_TXN_ID \notin Updaters /\ Updaters \subseteq Versions
    BY MaxCid, UpdatersAssumption DEF NULL, Loader, INITIAL_TXN_ID
  <2>4. ~Owns(t, ph) /\ ph[t] # "c3"
    BY ONLY <2>2 DEF Owns
  <2> HIDE DEF h, ph
  <2>5. ASSUME NEW v \in Versions PROVE h[v].txn # t
    BY ONLY <2>1, <2>4, t \in Updaters, <2>5 DEF TxnOK, HeldOK
  <2>6. ASSUME pc[t] = "aborted" PROVE ~InChain(t, ph)
    BY ONLY <2>2, <2>3, <2>4, <2>6 DEF InChain
  <2>7. ASSUME pc[t] = "aborted" PROVE head[k] # t
    BY ONLY <2>1, <2>4, <2>6, <2>7 DEF HeadOK
  <2>8. ASSUME pc[t] = "aborted" PROVE h[t].txn = INVALID_TXN_ID
    <3>1. h[t].txn # INITIAL_TXN_ID
      BY ONLY <2>1, <2>3, <2>6, <2>8 DEF TxnOK, HeldOK
    <3>2. ASSUME NEW u \in Updaters PROVE h[t].txn # u
      <4>1. h[t].txn = u => t = h[u].next /\ (Owns(u, ph) \/ ph[u] = "c3")
        BY ONLY <2>1, <2>3, <2>4, <3>2 DEF TxnOK, HeldOK
      <4>2. Owns(u, ph) => InChain(h[u].next, ph)
        BY ONLY <2>1, <3>2 DEF OwnerOK, OwnedOK
      <4>3. ph[u] = "c3" => InChain(h[u].next, ph)
        <5>1. u # Loader /\ u \in Versions
          BY <3>2, MaxCid
        <5>2. QED
          BY ONLY <2>1, <3>2, <5>1 DEF ChainOK, LinkOK, InChain
      <4>4. QED
        BY ONLY <4>1, <4>2, <4>3, <2>6, <2>8
    <3>3. h[t].txn \in {INVALID_TXN_ID, INITIAL_TXN_ID} \cup Updaters
      BY ONLY <2>1, <2>3 DEF KeyType, Headers
    <3>4. QED
      BY ONLY <3>1, <3>2, <3>3
  <2>9. ASSUME pc[t] = "aborted", NEW v \in Installed(k) PROVE t \notin {h[v].prev, h[v].next}
    <3>1. v \in Versions /\ InChain(v, ph)
      <4>1. v = Loader \/ v \in Updaters
        BY <2>9 DEF Installed
      <4>2. v \in Updaters => ph[v] = "installed"
        BY <2>9, InstalledPhase DEF ph
      <4>3. QED
        BY ONLY <2>3, <4>1, <4>2 DEF InChain
    <3>2. LinkOK(v, h, ph, Deleters(k))
      BY ONLY <2>1, <3>1 DEF ChainOK
    <3>3. h[v].next = NULL \/ InChain(h[v].next, ph)
      BY ONLY <3>2 DEF LinkOK
    <3>4. h[v].prev = NULL \/ InChain(h[v].prev, ph) \/ Owns(h[v].prev, ph)
      BY ONLY <3>2 DEF LinkOK
    <3>5. QED
      BY ONLY <2>3, <2>4, <2>6, <2>9, <3>3, <3>4
  <2>10. QED
    BY ONLY <2>5, <2>7, <2>8, <2>9 DEF h
<1>2. QED
  BY Invariance, <1>1, PTL

\* A READ_ONLY transaction reads its snapshot, and is never aborted.
THEOREM SnapshotReads == Spec => []ReadersSeeTheirSnapshot
<1>1. Inv => ReadersSeeTheirSnapshot
  <2> SUFFICES ASSUME Inv, NEW r \in Readers
               PROVE  /\ pc[r] \notin {"abort", "aborted"}
                      /\ \A k \in Keys : \A v \in reads[r][k] :
                           v = SnapshotVersion(k, read_id[r])
    BY DEF ReadersSeeTheirSnapshot
  <2>1. pc[r] \notin {"abort", "aborted"}
    BY TxnKinds DEF Inv, ControlOK
  <2>2. ASSUME NEW k \in Keys, NEW v \in reads[r][k] PROVE v = SnapshotVersion(k, read_id[r])
    <3> DEFINE s == read_id[r]
    <3>1. PICK last \in Versions : /\ Newest(last, s, Phases(k))
                                   /\ v = IF last \in Deleters(k) THEN NULL ELSE last
      BY <2>2 DEF Inv, ReaderInv
    <3>2. s \in Versions /\ \A t \in Updaters : t <= s => Ended(t)
      BY <2>2 DEF Inv, ReaderInv
    <3>3. ASSUME NEW w \in Versions, w <= s PROVE w \in Installed(k) <=> InChain(w, Phases(k))
      <4>1. CASE w = Loader
        BY <4>1 DEF Installed, InChain
      <4>2. CASE w \in Updaters
        <5>1. Ended(w) /\ w # Loader
          BY <3>2, <3>3, <4>2, MaxCid
        <5>2. Phases(k)[w] # "c3" /\ (w \in Installed(k) <=> Phases(k)[w] = "installed")
          BY <4>2, <5>1, InstalledPhase
        <5>3. QED
          BY ONLY <4>2, <5>1, <5>2 DEF InChain
      <4>3. QED
        BY <4>1, <4>2 DEF Versions
    <3>4. Installed(k) \subseteq Versions
      BY DEF Installed, Versions
    <3>5. Versions \subseteq Nat
      BY MaxCid
    <3> HIDE DEF s
    <3>6. /\ last \in Installed(k) /\ last <= s
          /\ \A w \in Installed(k) : w <= s => w <= last
      BY ONLY <3>1, <3>3, <3>4 DEF Newest
    <3>7. ASSUME NEW x \in Installed(k), x <= s, \A w \in Installed(k) : w <= s => w <= x
          PROVE  x = last
      BY ONLY <3>4, <3>5, <3>6, <3>7
    <3>8. last = CHOOSE x \in Installed(k) : /\ x <= s
                   /\ \A w \in Installed(k) : w <= s => w <= x
      BY ONLY <3>6, <3>7
    <3>9. last \in Deleters(k) <=> last # Loader /\ rw_set[last][k] = "DELETE"
      <4>1. Loader \notin Updaters /\ (last # Loader => last \in Updaters)
        BY MaxCid DEF Versions
      <4>2. QED
        BY ONLY <4>1 DEF Deleters
    <3>10. QED
      BY ONLY <3>1, <3>8, <3>9 DEF SnapshotVersion, Nothing, s
  <2>3. QED
    BY <2>1, <2>2
<1>2. QED
  BY Invariance, <1>1, PTL

\* Nobody takes ownership of a version that a later transaction has read.
THEOREM TimestampOrder == Spec => LateWritesAreRejected
<1> DEFINE Rule == \A w \in Updaters, k \in Keys :
                     rw_set[w][k] = "NONE" /\ rw_set'[w][k] # "NONE" =>
                       \A t \in Updaters : op[w].loc \in reads[t][k] => t <= w
<1>1. Inv /\ [Next]_vars => [Rule]_vars
  <2> SUFFICES ASSUME Inv, NEW a \in Txns, Work(a) \/ Client(a), NEW w \in Updaters,
                      NEW k \in Keys, rw_set[w][k] = "NONE", rw_set'[w][k] # "NONE",
                      NEW t \in Updaters, op[w].loc \in reads[t][k]
               PROVE  t <= w
    BY DEF Next
  <2>1. TypeOK /\ Alone(a)
    BY AloneStep DEF Inv
  <2>2. w = a
    BY <2>1, TxnKinds DEF Alone
  <2>3. rw_set' # rw_set
    OBVIOUS
  <2>4. DeleteInPlace(a) \/ PerformUpdate(a) \/ PerformDelete(a)
    BY ONLY <2>3, Work(a) \/ Client(a)
       DEF Work, Client, LoadTransactionId, CheckVisible, StepChain, PerformRead,
           UpdateInPlace, IsOwnable, AcquireFails, CommitBegin, CommitEnd, CommitNew,
           CommitOld, AbortHead, AbortUnlink, BeginReader, Start, Commit, UserAbort
  <2>5. ~DeleteInPlace(a)
    <3>1. SUFFICES ASSUME DeleteInPlace(a) PROVE FALSE
      OBVIOUS
    <3>2. op[a].key \in Keys /\ rw_set[a][op[a].key] # "NONE"
      BY <2>1, <3>1, DeleteInPlaceStep DEF Written
    <3>3. rw_set' = [rw_set EXCEPT ![a][op[a].key] = "DELETE"]
      BY <3>1 DEF DeleteInPlace
    <3>4. QED
      BY <2>1, <2>2, <3>2, <3>3 DEF TypeOK
  <2>6. PICK e \in Nat, type \in {"UPDATE", "DELETE"} : Install(a, e, type)
    BY <2>4, <2>5, MaxCid DEF PerformUpdate, PerformDelete, INVALID_CID
  <2>7. /\ op[a].key \in Keys /\ op[a].loc \in Versions
        /\ tuple[op[a].key][op[a].loc].reader <= a
    BY <2>1, <2>6, InstallSelf
  <2>8. op[a].key = k
    <3>1. rw_set' = [rw_set EXCEPT ![a][op[a].key] = type]
      BY <2>6 DEF Install
    <3>2. QED
      BY <2>1, <2>2, <3>1 DEF TypeOK
  <2>9. op[a].loc # NULL
    BY <2>7, MaxCid DEF NULL, Versions, Loader
  <2>10. t <= tuple[k][op[a].loc].reader
    BY <2>2, <2>9 DEF Inv, UpdaterInv
  <2>11. tuple[k][op[a].loc].reader \in Nat /\ t \in Nat /\ a \in Nat
    <3>1. tuple[k][op[a].loc] \in Headers
      BY <2>1, <2>7 DEF TypeOK
    <3>2. QED
      BY <2>2, <3>1, MaxCid DEF Headers
  <2>12. QED
    BY ONLY <2>2, <2>7, <2>8, <2>10, <2>11
<1>2. QED
  BY Invariance, <1>1, PTL DEF Spec, LateWritesAreRejected
=============================================================================
