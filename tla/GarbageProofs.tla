---------------------------- MODULE GarbageProofs ----------------------------
(***************************************************************************)
(* Proofs about the epochs and the garbage collector, for every set of     *)
(* threads and transactions and any number of epochs.                      *)
(*                                                                         *)
(* Some results hold whatever the clients do.  The others need Disciplined *)
(* clients: LocalEpoch counts a snapshot transaction under the epoch that  *)
(* it loads first and discounts it under the one that it loads second, so  *)
(* a thread that mixes such a transaction with others loses count of them. *)
(***************************************************************************)
EXTENDS GarbageCollector, WellFoundedInduction, FiniteSetTheorems, TLAPS

\* A thread runs one transaction at a time, or no transaction on a snapshot.
Disciplined ==
  \A th \in Threads : \/ th \in Exclusive
                      \/ \A type \in Levels : <<th, type>> \in Begins => type = "SERIALIZABLE"

Occupying(t) == pc[t] \notin {"begin", "ended"}
Past(t) == pc[t] \in {"exit", "recycle", "ended"}
Serial(t) == level[t] = "SERIALIZABLE"

-----------------------------------------------------------------------------
(* What holds in any case.                                                 *)

\* Epochs and commit ids, each up to the current epoch.
EpochOK ==
  /\ current \in Epochs /\ snapshot \in 1..current
  /\ next_txn_id \in 0..CidWidth - 1
  /\ loaded \in [Txns -> 0..current]
  /\ todo \subseteq Threads /\ seen \in 0..current
  /\ expired \in 0..MAX_EID
  /\ expired = MAX_EID \/ expired < current
  /\ todo # Threads => expired < current
  /\ seen # 0 => gpc = "ask" /\ todo # {}
  /\ gpc # "ask" => todo = {}

\* The local contexts.
ContextOK(low, q) == /\ low \in 0..MAX_EID /\ (low = MAX_EID \/ low < current)
                     /\ DOMAIN q \subseteq 1..current
                     /\ \A e \in DOMAIN q : low < e

LocalOK == /\ lower \in [Threads -> 0..MAX_EID] /\ DOMAIN epochs = Threads
           /\ \A th \in Threads : ContextOK(lower[th], epochs[th])

\* A transaction on its way.
TxnOK(t) ==
  /\ pc[t] \in {"snap", "enter"} => loaded[t] >= 1
  /\ pc[t] \in {"snap", "snapid"} => ~Serial(t)
  /\ pc[t] \in {"load", "enter"} => level[t] # "READ_ONLY"
  /\ pc[t] \in {"begin", "ended"} => Serial(t)
  /\ EpochOf(read_id[t]) <= current /\ EpochOf(commit_id[t]) <= current

TxnsOK == /\ pc \in [Txns -> PCs]
          /\ thread \in [Txns -> Threads] /\ level \in [Txns -> Levels]
          /\ read_id \in [Txns -> 0..MAX_CID - 1] /\ commit_id \in [Txns -> 0..MAX_CID - 1]
          /\ \A t \in Txns : TxnOK(t)

\* The versions: each is in the garbage of one transaction at most, which
\* has replaced it, or has written it itself.
VersionTypes ==
  /\ begin_cid \in [Versions -> 0..MAX_CID] /\ end_cid \in [Versions -> 0..MAX_CID]
  /\ head \in Versions /\ gc_set \in [Txns -> SUBSET Versions]
  /\ witnesses \in [Versions -> SUBSET Txns]
  /\ garbage_eid \in [Txns -> 0..MaxEpoch + 1]

GarbageOf(t) ==
  /\ ~Past(t) => gc_set[t] = {} /\ t # head
  /\ \A v \in gc_set[t] : v # t => /\ v # head /\ (v \in Txns => Past(v))
                                   /\ EpochOf(end_cid[v]) <= current
  /\ \A u \in Txns, v \in gc_set[t] : v \in gc_set[u] => u = t

VersionOK == VersionTypes /\ \A t \in Txns : GarbageOf(t)

\* The queues.
Filed(t) == \E e \in Epochs : <<e, t>> \in reclaim_map

QueueTypes ==
  /\ unlink_queue \subseteq Txns /\ local_queue \subseteq Txns /\ garbages \subseteq Txns
  /\ reclaim_map \subseteq Epochs \X Txns /\ recycled \subseteq Versions
  /\ gpc \in {"ask", "reclaim", "mark"}

QueueOK(t) ==
  /\ t \in unlink_queue => t \notin local_queue /\ t \notin garbages /\ ~Filed(t)
  /\ t \in local_queue => t \notin garbages /\ ~Filed(t)
  /\ t \in garbages => ~Filed(t)
  /\ \A d, e \in Epochs : <<d, t>> \in reclaim_map /\ <<e, t>> \in reclaim_map => d = e
  /\ t \in unlink_queue \cup local_queue \cup garbages \/ Filed(t)
       => pc[t] = "ended" /\ gc_set[t] # {} /\ gc_set[t] \cap recycled = {}
  /\ pc[t] = "ended" /\ gc_set[t] # {} =>
       \/ t \in unlink_queue \cup local_queue \cup garbages \/ Filed(t)
       \/ gc_set[t] \subseteq recycled
  /\ pc[t] # "ended" => gc_set[t] \cap recycled = {}

QueuesOK == /\ QueueTypes /\ \A t \in Txns : QueueOK(t)
            /\ gpc # "mark" => garbages = {}
            /\ \A v \in recycled : \E t \in Txns : v \in gc_set[t]

Inv == EpochOK /\ LocalOK /\ TxnsOK /\ VersionOK /\ QueuesOK

-----------------------------------------------------------------------------
(* What holds for disciplined clients.                                     *)

\* Transaction t runs on thread th, and is registered there.
Here(t, th) == Occupying(t) /\ thread[t] = th
RegHere(t, th) == t \in Registered /\ thread[t] = th

ClientsOK == \A th \in Threads, t \in Txns : Here(t, th) =>
               IF th \in Exclusive THEN \A u \in Txns : Here(u, th) => u = t ELSE Serial(t)

\* The context of a thread that runs one transaction at a time, ...
OneOK(th) ==
  /\ (\A t \in Txns : ~RegHere(t, th)) => DOMAIN epochs[th] = {}
  /\ \A t \in Txns : RegHere(t, th) =>
       \E e \in Nat : /\ DOMAIN epochs[th] = {e} /\ epochs[th][e] = 1
                      /\ Serial(t) => e = EpochOf(read_id[t])

\* ... and of any other thread, which counts those it should under epoch e.
Mine(th, e) == {t \in Txns : RegHere(t, th) /\ EpochOf(read_id[t]) = e}
Count(q, e) == IF e \in DOMAIN q THEN q[e] ELSE 0

SharedOK(th) == \A e \in Nat : Count(epochs[th], e) = Cardinality(Mine(th, e))

CountOK(th) == IF th \in Exclusive THEN OneOK(th) ELSE SharedOK(th)

CountsOK == ClientsOK /\ \A th \in Threads : CountOK(th)

\* Context th counts t under epoch e.
Holds(t, e) == /\ e \in DOMAIN epochs[thread[t]] /\ epochs[thread[t]][e] # 0
               /\ Serial(t) => e = EpochOf(read_id[t])

\* t does not run in an epoch up to x, and cannot begin there any more.
Shut(t) == loaded[t] <= lower[thread[t]] /\ lower[thread[t]] # MAX_EID

Barred(t, x) ==
  Serial(t) => /\ pc[t] \in {"active", "exit"} => x < EpochOf(read_id[t])
               /\ pc[t] = "enter" => x < loaded[t] \/ Shut(t)

\* The contexts that a pass has asked are past the epochs that it finds expired.
PassOK(t) == thread[t] \notin todo => Barred(t, expired)

\* A version that was reset has been replaced before any epoch in which a
\* transaction runs, or may still begin.
OutOfSight(v) ==
  LET e == EpochOf(end_cid[v])
  IN  e < current /\ (seen # 0 => e < seen) /\ \A t \in Txns : Barred(t, e)

\* What is filed was replaced before, and whoever was there then is asked.
FiledOK(c, t) ==
  /\ c <= current
  /\ \A v \in gc_set[t] :
       /\ v # t => EpochOf(end_cid[v]) <= c
       /\ \A w \in witnesses[v] :
            \E e \in Nat : Holds(w, e) /\ e <= c /\ (thread[w] \in todo \/ expired < e)

GraceOK ==
  /\ \A t \in Txns : PassOK(t)
  /\ \A v \in recycled : (~Empty(v) => OutOfSight(v)) /\ witnesses[v] = {}
  /\ \A c \in Epochs, t \in Txns : <<c, t>> \in reclaim_map => FiledOK(c, t)
  /\ \A v \in Versions : witnesses[v] \subseteq Registered

FullInv == Inv /\ CountsOK /\ GraceOK

-----------------------------------------------------------------------------
(* Numbers.                                                                *)

\* The width of a transaction id, and what follows for the largest ids.
LEMMA Widths ==
  /\ CidWidth \in Nat /\ CidWidth > 1 /\ CidWidth > 0 /\ MaxEpoch \in Nat /\ MaxEpoch > 0
  /\ MAX_EID = MaxEpoch + 1 /\ MAX_EID \in Nat /\ MAX_CID \in Nat
  /\ 0 \in Threads /\ IsFiniteSet(Txns) /\ Loader \notin Txns /\ Epochs = 1..MaxEpoch
<1>1. IsFiniteSet(Txns) /\ Cardinality(Txns) \in Nat /\ 0 \in Threads
  BY TxnsAssumption, FS_CardinalityType
<1>2. CidWidth \in Nat /\ CidWidth > 1 /\ CidWidth > 0
  BY <1>1, WidthAssumption
<1>3. MaxEpoch \in Nat /\ MaxEpoch > 0
  BY EpochAssumption
<1>4. MAX_EID = MaxEpoch + 1 /\ MAX_CID = (MaxEpoch + 1) * CidWidth + 0
  BY DEF MAX_EID, MAX_CID, Cid
<1>5. QED
  BY <1>1, <1>2, <1>3, <1>4, LoaderAssumption DEF Epochs

\* An epoch can be taken out of a commit id again.
LEMMA CidOfEpoch ==
  ASSUME NEW e \in 0..MaxEpoch, NEW n \in 0..CidWidth - 1
  PROVE  Cid(e, n) \in 0..MAX_CID - 1 /\ EpochOf(Cid(e, n)) = e
<1>1. /\ e \in Nat /\ n \in 0..CidWidth - 1 /\ CidWidth \in Nat /\ CidWidth > 0
      /\ MaxEpoch \in Nat /\ e <= MaxEpoch
  BY Widths
<1>2. (e * CidWidth + n) \div CidWidth = e
  BY ONLY <1>1
<1>3. e * CidWidth + n \in 0..((MaxEpoch + 1) * CidWidth) - 1
  BY ONLY <1>1
<1>4. MAX_CID = (MaxEpoch + 1) * CidWidth
  <2>1. MAX_CID = (MaxEpoch + 1) * CidWidth + 0
    BY DEF MAX_CID, MAX_EID, Cid
  <2>2. QED
    BY <2>1, <1>1
<1>5. QED
  BY ONLY <1>2, <1>3, <1>4 DEF Cid, EpochOf

\* A commit id of an earlier epoch is smaller.
LEMMA EpochOrder ==
  ASSUME NEW a \in Nat, NEW b \in Nat
  PROVE  EpochOf(a) \in Nat /\ (EpochOf(a) < EpochOf(b) => a < b)
<1>1. CidWidth \in Nat /\ CidWidth > 0
  BY Widths
<1>2. a \div CidWidth \in Nat
  BY ONLY <1>1, a \in Nat
<1>3. a \div CidWidth < b \div CidWidth => a < b
  BY ONLY <1>1, a \in Nat, b \in Nat
<1>4. QED
  BY <1>2, <1>3 DEF EpochOf

\* The transaction that has not begun: epoch 0.
LEMMA NoEpoch == EpochOf(0) = 0
<1>1. CidWidth \in Nat /\ CidWidth > 0
  BY Widths
<1>2. 0 \div CidWidth = 0
  BY ONLY <1>1
<1>3. QED
  BY <1>2 DEF EpochOf

\* A nonempty set of epochs has a smallest one: the top of epoch_queue_.
LEMMA MinOfEpochs ==
  ASSUME NEW S \in SUBSET Nat, S # {}
  PROVE  MinOf(S) \in S /\ \A y \in S : MinOf(S) <= y
<1> DEFINE R == OpToRel(<, Nat)
<1>1. \A a, b \in Nat : a < b => <<a, b>> \in R
  BY DEF OpToRel
<1>2. IsWellFoundedOn(R, Nat)
  BY NatLessThanWellFounded
<1> HIDE DEF R
<1>3. S \subseteq Nat /\ S # {} /\ IsWellFoundedOn(R, Nat)
  BY <1>2
<1>4. PICK x \in S : \A y \in S : ~(<<y, x>> \in R)
  BY ONLY <1>3, WFMin
<1>5. \A y \in S : x \in Nat /\ y \in Nat /\ ~(y < x)
  BY <1>1, <1>4
<1>6. \E z \in S : \A y \in S : z <= y
  BY <1>5
<1>7. QED
  BY <1>6 DEF MinOf

-----------------------------------------------------------------------------
(* One local context.                                                      *)

\* Popping empty epochs changes no count.
LEMMA TrimFacts ==
  ASSUME NEW q
  PROVE  /\ DOMAIN Trim(q) \subseteq DOMAIN q
         /\ \A e \in DOMAIN Trim(q) : Trim(q)[e] = q[e]
         /\ DOMAIN q \subseteq Int =>
              /\ \A e \in DOMAIN q : q[e] # 0 => e \in DOMAIN Trim(q)
              /\ \A e : Count(Trim(q), e) = Count(q, e)
<1>1. DOMAIN Trim(q) = {x \in DOMAIN q : \E y \in DOMAIN q : y <= x /\ q[y] # 0}
  BY DEF Trim
<1>2. \A e \in DOMAIN Trim(q) : Trim(q)[e] = q[e]
  BY DEF Trim
<1>3. ASSUME DOMAIN q \subseteq Int, NEW e \in DOMAIN q, q[e] # 0 PROVE e \in DOMAIN Trim(q)
  BY <1>1, <1>3
<1>4. QED
  BY <1>1, <1>2, <1>3 DEF Count

\* The map after LocalEpoch::EnterEpoch ...
Entered(q, e, type) == IF type = "COMMIT" THEN q ELSE Counted(q, e)

\* LocalEpoch::EnterEpoch puts the bound below the epoch that it registers.
LEMMA EnterFacts ==
  ASSUME LocalOK, current \in Epochs, NEW th \in Threads, NEW e \in 1..current, NEW type,
         LocalEnter(th, e, type)
  PROVE  /\ DOMAIN epochs' = Threads /\ lower' \in [Threads -> 0..MAX_EID]
         /\ epochs'[th] = Entered(epochs[th], e, type)
         /\ \A o \in Threads : o # th => epochs'[o] = epochs[o] /\ lower'[o] = lower[o]
         /\ ContextOK(lower'[th], epochs'[th])
         /\ lower'[th] = IF lower[th] >= e THEN e - 1 ELSE lower[th]
<1> DEFINE b == IF lower[th] >= e THEN e - 1 ELSE lower[th]
           q == epochs[th]
<1>1. /\ lower \in [Threads -> 0..MAX_EID] /\ DOMAIN epochs = Threads
      /\ ContextOK(lower[th], epochs[th]) /\ th \in Threads
  BY DEF LocalOK
<1>2. /\ lower' = [lower EXCEPT ![th] = b] 
      /\ epochs' = [epochs EXCEPT ![th] = Entered(q, e, type)]
  BY ONLY LocalEnter(th, e, type), <1>1 DEF LocalEnter, Entered
<1>3. b \in 0..MAX_EID /\ b < e /\ b < current /\ b <= lower[th]
  <2>1. MAX_EID \in Nat /\ current \in Nat
    BY Widths
  <2>2. QED
    BY ONLY <1>1, <2>1, e \in 1..current DEF ContextOK
<1>4. DOMAIN Entered(q, e, type) \subseteq DOMAIN q \cup {e}
  BY DEF Entered, Counted
<1> HIDE DEF b
<1>5. ContextOK(b, Entered(q, e, type))
  <2>1. DOMAIN Entered(q, e, type) \subseteq 1..current
    BY ONLY <1>1, <1>4, e \in 1..current DEF ContextOK
  <2>2. ASSUME NEW d \in DOMAIN Entered(q, e, type) PROVE b < d
    <3>1. d = e \/ (d \in 1..current /\ lower[th] < d)
      BY ONLY <1>1, <1>4, <2>2 DEF ContextOK
    <3>2. lower[th] \in Int /\ b \in Int /\ d \in Int
      BY ONLY <1>1, <1>3, <2>1, <2>2, Widths, current \in Epochs DEF ContextOK
    <3>3. QED
      BY ONLY <1>3, <3>1, <3>2
  <2>3. QED
    BY ONLY <1>3, <2>1, <2>2 DEF ContextOK
<1>6. lower' \in [Threads -> 0..MAX_EID] /\ DOMAIN epochs' = Threads
  BY ONLY <1>1, <1>2, <1>3
<1>7. lower'[th] = b /\ epochs'[th] = Entered(q, e, type)
  BY ONLY <1>1, <1>2
<1>8. \A o \in Threads : o # th => epochs'[o] = epochs[o] /\ lower'[o] = lower[o]
  BY ONLY <1>1, <1>2
<1>9. QED
  BY ONLY <1>5, <1>6, <1>7, <1>8 DEF b

\* ... and after LocalEpoch::ExitEpoch.
Exited(q, e) == Trim([q EXCEPT ![e] = @ - 1])

\* LocalEpoch::ExitEpoch never lowers the bound.
LEMMA ExitFacts ==
  ASSUME LocalOK, current \in Epochs, NEW th \in Threads, NEW e, LocalExit(th, e)
  PROVE  /\ DOMAIN epochs' = Threads /\ lower' \in [Threads -> 0..MAX_EID]
         /\ e \in DOMAIN epochs[th] /\ epochs'[th] = Exited(epochs[th], e)
         /\ \A o \in Threads : o # th => epochs'[o] = epochs[o] /\ lower'[o] = lower[o]
         /\ ContextOK(lower'[th], epochs'[th])
         /\ lower[th] # MAX_EID /\ lower'[th] # MAX_EID /\ lower[th] <= lower'[th]
<1> DEFINE q == Exited(epochs[th], e)
           b == IF DOMAIN q = {} THEN lower[th] ELSE MinOf(DOMAIN q) - 1
<1>0. MAX_EID \in Nat /\ current < MAX_EID /\ current \in Nat
  BY Widths
<1>1. /\ lower \in [Threads -> 0..MAX_EID] /\ DOMAIN epochs = Threads
      /\ ContextOK(lower[th], epochs[th]) /\ th \in Threads
  BY DEF LocalOK
<1>2. /\ e \in DOMAIN epochs[th]
      /\ lower' = [lower EXCEPT ![th] = b] /\ epochs' = [epochs EXCEPT ![th] = q]
  BY ONLY LocalExit(th, e), <1>1 DEF LocalExit, Exited
<1>3. DOMAIN q \subseteq DOMAIN epochs[th]
  <2>1. DOMAIN [epochs[th] EXCEPT ![e] = @ - 1] = DOMAIN epochs[th]
    OBVIOUS
  <2>2. QED
    BY <2>1, TrimFacts DEF Exited
<1> HIDE DEF q
<1>4. /\ DOMAIN q \subseteq Nat /\ \A d \in DOMAIN q : d \in 1..current /\ lower[th] < d
      /\ lower[th] \in 0..MAX_EID /\ lower[th] < e /\ e \in 1..current
      /\ lower[th] = MAX_EID \/ lower[th] < current
  BY ONLY <1>1, <1>2, <1>3, <1>0 DEF ContextOK
<1>5. DOMAIN q # {} => MinOf(DOMAIN q) \in DOMAIN q /\ \A d \in DOMAIN q : MinOf(DOMAIN q) <= d
  BY <1>4, MinOfEpochs
<1>7. /\ b \in 0..MAX_EID /\ b < current /\ lower[th] <= b /\ b # MAX_EID /\ lower[th] # MAX_EID
      /\ \A d \in DOMAIN q : b < d
  <2>1. CASE DOMAIN q = {}
    BY ONLY <1>4, <1>0, <2>1
  <2>2. CASE DOMAIN q # {}
    <3>1. /\ b = MinOf(DOMAIN q) - 1 /\ MinOf(DOMAIN q) \in 1..current
          /\ lower[th] < MinOf(DOMAIN q)
      BY ONLY <1>4, <1>5, <2>2
    <3>2. \A d \in DOMAIN q : d \in Nat /\ MinOf(DOMAIN q) <= d
      BY ONLY <1>4, <1>5, <2>2
    <3>3. QED
      BY ONLY <1>0, <1>4, <3>1, <3>2
  <2>3. QED
    BY ONLY <2>1, <2>2
<1> HIDE DEF b
<1>8. ContextOK(b, q)
  BY ONLY <1>4, <1>7 DEF ContextOK
<1>9. /\ lower' \in [Threads -> 0..MAX_EID] /\ DOMAIN epochs' = Threads
      /\ lower'[th] = b /\ epochs'[th] = q
  BY ONLY <1>1, <1>2, <1>7
<1>10. \A o \in Threads : o # th => epochs'[o] = epochs[o] /\ lower'[o] = lower[o]
  BY ONLY <1>1, <1>2
<1>11. QED
  BY ONLY <1>2, <1>7, <1>8, <1>9, <1>10 DEF q

\* LocalEpoch::GetExpiredEpochId returns an epoch before the current one, and
\* before every epoch in which it counts somebody.  The bound, which it sets,
\* goes down only to the epoch before the one it was asked with.
LEMMA AskFacts ==
  ASSUME LocalOK, current \in Epochs, NEW th \in Threads, NEW cur \in 1..current, NEW b,
         b = LocalExpired(th, cur),
         lower' = [lower EXCEPT ![th] = b], epochs' = [epochs EXCEPT ![th] = Trim(@)]
  PROVE  /\ DOMAIN epochs' = Threads /\ lower' \in [Threads -> 0..MAX_EID]
         /\ epochs'[th] = Trim(epochs[th]) /\ lower'[th] = b
         /\ \A o \in Threads : o # th => epochs'[o] = epochs[o] /\ lower'[o] = lower[o]
         /\ ContextOK(b, epochs'[th])
         /\ b \in 0..MAX_EID /\ b < current /\ b < MAX_EID
         /\ \A e \in DOMAIN epochs[th] : epochs[th][e] # 0 => b < e
         /\ lower[th] # MAX_EID => lower[th] <= b \/ cur - 1 = b
<1> DEFINE p == epochs[th]
           q == Trim(epochs[th])
<1>0. MAX_EID \in Nat /\ current < MAX_EID /\ current \in Nat /\ current > 0
  BY Widths
<1>1. /\ lower \in [Threads -> 0..MAX_EID] /\ DOMAIN epochs = Threads
      /\ ContextOK(lower[th], p) /\ th \in Threads
  BY DEF LocalOK
<1>2. b = IF DOMAIN p = {} THEN cur - 1
          ELSE IF DOMAIN q = {} THEN lower[th] ELSE MinOf(DOMAIN q) - 1
  BY DEF LocalExpired
<1>3. /\ DOMAIN q \subseteq DOMAIN p /\ DOMAIN p \subseteq Nat
      /\ \A d \in DOMAIN p : d \in 1..current /\ lower[th] < d
      /\ lower[th] \in 0..MAX_EID /\ (lower[th] = MAX_EID \/ lower[th] < current)
  <2>1. DOMAIN q \subseteq DOMAIN p
    BY TrimFacts
  <2>2. QED
    BY ONLY <1>0, <1>1, <2>1 DEF ContextOK
<1>4. \A e \in DOMAIN p : p[e] # 0 => e \in DOMAIN q
  <2>1. DOMAIN p \subseteq Int
    BY <1>3
  <2>2. QED
    BY <2>1, TrimFacts
<1>5. DOMAIN q # {} => MinOf(DOMAIN q) \in DOMAIN q /\ \A d \in DOMAIN q : MinOf(DOMAIN q) <= d
  BY <1>3, MinOfEpochs
<1>6. lower' = [lower EXCEPT ![th] = b] /\ epochs' = [epochs EXCEPT ![th] = q]
  BY <1>1
<1> HIDE DEF p, q
<1>7. /\ b \in 0..MAX_EID /\ b < current /\ b < MAX_EID
      /\ \A d \in DOMAIN q : b < d
      /\ lower[th] # MAX_EID => lower[th] <= b \/ cur - 1 = b
  <2>1. CASE DOMAIN p = {}
    BY ONLY <1>0, <1>2, <1>3, <2>1, cur \in 1..current
  <2>2. CASE DOMAIN p # {} /\ DOMAIN q = {}
    BY ONLY <1>0, <1>2, <1>3, <2>2
  <2>3. CASE DOMAIN p # {} /\ DOMAIN q # {}
    <3>1. /\ b = MinOf(DOMAIN q) - 1 /\ MinOf(DOMAIN q) \in 1..current
          /\ lower[th] < MinOf(DOMAIN q)
      BY ONLY <1>2, <1>3, <1>5, <2>3
    <3>2. \A d \in DOMAIN q : d \in Nat /\ MinOf(DOMAIN q) <= d
      BY ONLY <1>3, <1>5, <2>3
    <3>3. QED
      BY ONLY <1>0, <1>3, <3>1, <3>2
  <2>4. QED
    BY ONLY <2>1, <2>2, <2>3
<1>8. ContextOK(b, q)
  BY ONLY <1>3, <1>7 DEF ContextOK
<1>9. /\ lower' \in [Threads -> 0..MAX_EID] /\ DOMAIN epochs' = Threads
      /\ lower'[th] = b /\ epochs'[th] = q
  BY ONLY <1>1, <1>6, <1>7
<1>10. \A o \in Threads : o # th => epochs'[o] = epochs[o] /\ lower'[o] = lower[o]
  BY ONLY <1>1, <1>6
<1>11. QED
  BY ONLY <1>4, <1>7, <1>8, <1>9, <1>10 DEF p, q

\* The steps that leave the local contexts alone.
LEMMA LocalFrame ==
  ASSUME LocalOK, UNCHANGED lvars, current \in Nat, current' \in Nat, current <= current'
  PROVE  LocalOK'
<1>1. lower' = lower /\ epochs' = epochs
  BY DEF lvars
<1>2. ASSUME NEW th \in Threads PROVE ContextOK(lower[th], epochs[th])'
  <2>1. ContextOK(lower[th], epochs[th]) /\ lower[th] \in 0..MAX_EID
    BY DEF LocalOK
  <2>2. MAX_EID \in Nat
    BY Widths
  <2>3. /\ DOMAIN epochs[th] \subseteq 1..current' 
        /\ lower[th] = MAX_EID \/ lower[th] < current'
    BY ONLY <2>1, <2>2, current \in Nat, current' \in Nat, current <= current' DEF ContextOK
  <2>4. QED
    BY ONLY <1>1, <2>1, <2>3 DEF ContextOK
<1>3. QED
  BY <1>1, <1>2 DEF LocalOK

-----------------------------------------------------------------------------
(* The steps, by what they change.                                         *)

\* The steps of transaction t that call the epoch manager on the way in.
Begin(t) == BeginNext(t) /\ UNCHANGED <<vvars, gvars, garbage_eid>>
\* ... and those at the end.
Commits(t) == CommitRead(t) \/ CommitUpdate(t) \/ CommitDelete(t) \/ Abort(t)

Ticks == Tick /\ UNCHANGED <<vvars, gvars, garbage_eid>>

\* Next, in these terms.
LEMMA Steps ==
  Next <=> \/ Ticks
           \/ \E t \in Txns : Begin(t) \/ Commits(t) \/ EndExit(t) \/ Recycle(t)
           \/ GCNext
<1>1. QED
  BY DEF Next, Ticks, Begin, Commits

\* A step of t leaves the other transactions alone.
Alone(t) == /\ \A u \in Txns \ {t} : /\ pc'[u] = pc[u] /\ thread'[u] = thread[u]
                                     /\ level'[u] = level[u] /\ loaded'[u] = loaded[u]
                                     /\ read_id'[u] = read_id[u]
                                     /\ commit_id'[u] = commit_id[u]
            /\ pc' = [u \in Txns |-> pc'[u]] /\ thread' = [u \in Txns |-> thread'[u]]
            /\ level' = [u \in Txns |-> level'[u]] /\ loaded' = [u \in Txns |-> loaded'[u]]
            /\ read_id' = [u \in Txns |-> read_id'[u]]
            /\ commit_id' = [u \in Txns |-> commit_id'[u]]

\* The transactions are functions.
TxnFcns == /\ pc = [u \in Txns |-> pc[u]] /\ thread = [u \in Txns |-> thread[u]]
           /\ level = [u \in Txns |-> level[u]] /\ loaded = [u \in Txns |-> loaded[u]]
           /\ read_id = [u \in Txns |-> read_id[u]]
           /\ commit_id = [u \in Txns |-> commit_id[u]]

\* The types say so.
LEMMA TxnShape == ASSUME EpochOK, TxnsOK PROVE TxnFcns
<1>1. pc = [u \in Txns |-> pc[u]] /\ thread = [u \in Txns |-> thread[u]]
  BY DEF TxnsOK
<1>2. level = [u \in Txns |-> level[u]] /\ loaded = [u \in Txns |-> loaded[u]]
  BY DEF TxnsOK, EpochOK
<1>3. read_id = [u \in Txns |-> read_id[u]] /\ commit_id = [u \in Txns |-> commit_id[u]]
  BY DEF TxnsOK
<1>4. QED
  BY <1>1, <1>2, <1>3 DEF TxnFcns

\* BeginTransaction: what the steps on the way in do.
LEMMA BeginSerializableFacts ==
  ASSUME TxnFcns, NEW t \in Txns, BeginSerializable(t)
  PROVE  /\ Alone(t) /\ pc[t] = "begin" /\ pc'[t] = "enter" /\ level'[t] = level[t]
         /\ thread'[t] \in Threads /\ MayBegin(thread'[t], "SERIALIZABLE")
         /\ loaded'[t] = current /\ read_id'[t] = read_id[t] /\ commit_id'[t] = commit_id[t]
         /\ UNCHANGED <<current, snapshot, next_txn_id, lvars, xvars>>
<1>1. QED
  BY DEF BeginSerializable, Move, TxnFcns, Alone

\* Starting on a snapshot loads the snapshot epoch.
LEMMA BeginSnapshotFacts ==
  ASSUME TxnFcns, NEW t \in Txns, BeginSnapshot(t)
  PROVE  /\ Alone(t) /\ pc[t] = "begin" /\ pc'[t] = "snap"
         /\ level'[t] \in Levels \ {"SERIALIZABLE"}
         /\ thread'[t] \in Threads /\ MayBegin(thread'[t], level'[t])
         /\ loaded'[t] = snapshot /\ read_id'[t] = read_id[t] /\ commit_id'[t] = commit_id[t]
         /\ UNCHANGED <<current, snapshot, next_txn_id, lvars, xvars>>
<1>1. QED
  BY DEF BeginSnapshot, Move, TxnFcns, Alone

\* A snapshot transaction registers without being refused.
LEMMA EnterSnapshotFacts ==
  ASSUME TxnFcns, NEW t \in Txns, EnterSnapshot(t)
  PROVE  /\ Alone(t) /\ pc[t] = "snap" /\ pc'[t] = "snapid" /\ level'[t] = level[t]
         /\ thread'[t] = thread[t] /\ LocalEnter(thread[t], loaded[t], "SNAPSHOT_READ")
         /\ loaded'[t] = 0 /\ read_id'[t] = read_id[t] /\ commit_id'[t] = commit_id[t]
         /\ UNCHANGED <<current, snapshot, next_txn_id, xvars>>
<1>1. QED
  BY DEF EnterSnapshot, Move, TxnFcns, Alone, avars

\* It takes its ids from a second load.
LEMMA SnapshotIdFacts ==
  ASSUME TxnFcns, NEW t \in Txns, SnapshotId(t)
  PROVE  /\ Alone(t) /\ pc[t] = "snapid" /\ level'[t] = level[t]
         /\ pc'[t] = IF level[t] = "SNAPSHOT" THEN "load" ELSE "active"
         /\ thread'[t] = thread[t]
         /\ loaded'[t] = loaded[t]
         /\ read_id'[t] = Cid(snapshot, 0) /\ commit_id'[t] = Cid(snapshot, 0)
         /\ UNCHANGED <<current, snapshot, next_txn_id, lvars, xvars>>
<1>1. QED
  BY DEF SnapshotId, Move, TxnFcns, Alone, avars

\* Loading the current epoch once more.
LEMMA LoadEpochFacts ==
  ASSUME TxnFcns, NEW t \in Txns, LoadEpoch(t)
  PROVE  /\ Alone(t) /\ pc[t] = "load" /\ pc'[t] = "enter" /\ level'[t] = level[t]
         /\ thread'[t] = thread[t] /\ loaded'[t] = current
         /\ read_id'[t] = read_id[t] /\ commit_id'[t] = commit_id[t]
         /\ UNCHANGED <<current, snapshot, next_txn_id, lvars, xvars>>
<1>1. QED
  BY DEF LoadEpoch, Move, TxnFcns, Alone, avars

\* Registering in the epoch that was loaded.
LEMMA EnterEpochFacts ==
  ASSUME TxnFcns, NEW t \in Txns, EnterEpoch(t)
  PROVE  /\ Alone(t) /\ pc[t] = "enter" /\ pc'[t] = "active" /\ level'[t] = level[t]
         /\ thread'[t] = thread[t] /\ LocalEnter(thread[t], loaded[t], EntryType(t))
         /\ loaded'[t] = 0 /\ commit_id'[t] = Cid(loaded[t], next_txn_id)
         /\ read_id'[t] = IF level[t] = "SNAPSHOT" THEN read_id[t]
                          ELSE Cid(loaded[t], next_txn_id)
         /\ next_txn_id' = (next_txn_id + 1) % CidWidth
         /\ UNCHANGED <<current, snapshot, xvars>>
<1>1. QED
  BY DEF EnterEpoch, Move, TxnFcns, Alone, avars

\* Being refused there.
LEMMA RetryEpochFacts ==
  ASSUME TxnFcns, NEW t \in Txns, RetryEpoch(t)
  PROVE  /\ Alone(t) /\ pc[t] = "enter" /\ pc'[t] = "load" /\ level'[t] = level[t]
         /\ thread'[t] = thread[t] /\ loaded'[t] = 0
         /\ read_id'[t] = read_id[t] /\ commit_id'[t] = commit_id[t]
         /\ UNCHANGED <<current, snapshot, next_txn_id, lvars, xvars>>
<1>1. QED
  BY DEF RetryEpoch, Move, TxnFcns, Alone, avars

\* CommitTransaction and AbortTransaction.
LEMMA CommitsFacts ==
  ASSUME TxnFcns, NEW t \in Txns, Commits(t)
  PROVE  /\ Alone(t) /\ pc[t] = "active" /\ pc'[t] = "exit"
         /\ level' = level /\ thread' = thread /\ loaded' = loaded
         /\ read_id' = read_id /\ commit_id' = commit_id
         /\ UNCHANGED <<current, snapshot, next_txn_id, lvars, xvars, gvars, garbage_eid>>
<1>1. pc[t] = "active" /\ Move(t, "exit") /\ Stay
  BY DEF Commits, CommitRead, CommitUpdate, CommitDelete, Abort
<1>2. QED
  BY <1>1 DEF Move, Stay, TxnFcns, Alone, avars

\* EndTransaction leaves the epoch of the read id.
LEMMA EndExitFacts ==
  ASSUME TxnFcns, NEW t \in Txns, EndExit(t)
  PROVE  /\ Alone(t) /\ pc[t] = "exit" /\ pc'[t] = "recycle"
         /\ level' = level /\ thread' = thread /\ loaded' = loaded
         /\ read_id' = read_id /\ commit_id' = commit_id
         /\ LocalExit(thread[t], EpochOf(read_id[t]))
         /\ witnesses' = [v \in Versions |-> witnesses[v] \ {t}]
         /\ UNCHANGED <<current, snapshot, next_txn_id, xvars, begin_cid, end_cid, head,
                        gc_set, gvars, garbage_eid>>
<1>1. QED
  BY DEF EndExit, ExitEpoch, Move, TxnFcns, Alone, avars

\* EndTransaction hands the garbage over and forgets the transaction.
LEMMA RecycleFacts ==
  ASSUME TxnFcns, NEW t \in Txns, Recycle(t)
  PROVE  /\ Alone(t) /\ pc[t] = "recycle" /\ pc'[t] = "ended"
         /\ level'[t] = "SERIALIZABLE" /\ thread'[t] = 0 /\ loaded'[t] = loaded[t]
         /\ read_id'[t] = 0 /\ commit_id'[t] = 0
         /\ unlink_queue' = IF gc_set[t] = {} THEN unlink_queue ELSE unlink_queue \cup {t}
         /\ UNCHANGED <<current, snapshot, next_txn_id, lvars, xvars, vvars, local_queue,
                        garbages, reclaim_map, recycled, gpc>>
<1>1. QED
  BY DEF Recycle, Move, TxnFcns, Alone

\* The steps of the collector leave the transactions alone.
LEMMA GCFacts ==
  ASSUME GCNext
  PROVE  /\ UNCHANGED <<current, next_txn_id, tvars, vvars, garbage_eid>>
         /\ UNCHANGED lvars \/ \E th \in Threads : GCAsk(th)
         /\ (\E th \in Threads : GCAsk(th)) \/ GCLoad \/ GCExpired =>
              UNCHANGED <<unlink_queue, local_queue, garbages, reclaim_map, recycled>>
<1>1. QED
  BY DEF GCNext, GCLoad, GCAsk, GCExpired, ReclaimOne, Unlink, MarkReclaimable, LoadCurrent,
         AskLocal, FinishExpire, StartExpire, evars, tvars, lvars, Data, vvars

-----------------------------------------------------------------------------
(* Epochs, contexts and transactions.                                      *)

\* The numbers that the steps compute with.
LEMMA EpochNumbers ==
  ASSUME EpochOK
  PROVE  /\ current \in Nat /\ current \in 1..MaxEpoch /\ snapshot \in Nat
         /\ \A t \in Txns : loaded[t] \in 0..current /\ loaded[t] \in 0..MaxEpoch
         /\ MAX_EID \in Nat /\ current < MAX_EID
<1>1. current \in 1..MaxEpoch /\ snapshot \in 1..current /\ loaded \in [Txns -> 0..current]
  BY Widths DEF EpochOK
<1>2. MaxEpoch \in Nat /\ MAX_EID = MaxEpoch + 1
  BY Widths
<1>3. QED
  BY ONLY <1>1, <1>2

\* Epochs and commit ids stay in range.
LEMMA EpochStep == ASSUME Inv, Next PROVE EpochOK'
<1>0. EpochOK /\ LocalOK /\ TxnFcns /\ TxnsOK
  BY TxnShape DEF Inv
<1>1. /\ current \in Nat /\ current \in 1..MaxEpoch /\ snapshot \in 1..current
      /\ next_txn_id \in 0..CidWidth - 1 /\ CidWidth \in Nat /\ CidWidth > 0
      /\ \A t \in Txns : loaded[t] \in 0..current
      /\ MAX_EID \in Nat /\ MaxEpoch \in Nat /\ MAX_EID = MaxEpoch + 1 /\ Epochs = 1..MaxEpoch
  BY <1>0, EpochNumbers, Widths DEF EpochOK
<1>2. CASE Ticks
  <2>1. current' = current + 1 /\ current' \in 1..MaxEpoch
    BY <1>1, <1>2 DEF Ticks, Tick
  <2>2. UNCHANGED <<snapshot, next_txn_id, loaded, todo, seen, expired, gpc>>
    BY <1>2 DEF Ticks, Tick, tvars, xvars, gvars
  <2>3. loaded \in [Txns -> 0..current']
    BY ONLY <1>0, <1>1, <2>1 DEF EpochOK
  <2>4. /\ snapshot \in 1..current' /\ seen \in 0..current'
        /\ expired = MAX_EID \/ expired < current'
        /\ todo # Threads => expired < current'
    BY ONLY <1>0, <1>1, <2>1 DEF EpochOK
  <2>5. QED
    BY ONLY <1>0, <1>1, <2>1, <2>2, <2>3, <2>4 DEF EpochOK
<1>3. ASSUME NEW t \in Txns, UNCHANGED <<current, snapshot, todo, seen, expired, gpc>>,
             Alone(t), loaded'[t] \in 0..current, next_txn_id' \in 0..CidWidth - 1
      PROVE  EpochOK'
  <2>1. \A u \in Txns : loaded'[u] \in 0..current
    BY <1>1, <1>3 DEF Alone
  <2>2. loaded' \in [Txns -> 0..current]
    BY ONLY <1>3, <2>1 DEF Alone
  <2>3. QED
    BY ONLY <1>0, <1>3, <2>2 DEF EpochOK
<1>4. ASSUME NEW t \in Txns, Begin(t) PROVE EpochOK'
  <2>1. UNCHANGED gpc
    BY <1>4 DEF Begin, gvars
  <2>2. CASE BeginSerializable(t)
    BY <1>0, <1>1, <1>3, <2>1, <2>2, BeginSerializableFacts DEF xvars
  <2>3. CASE BeginSnapshot(t)
    <3>1. snapshot \in 0..current
      BY ONLY <1>1
    <3>2. QED
      BY <1>0, <1>1, <1>3, <2>1, <2>3, <3>1, BeginSnapshotFacts DEF xvars
  <2>4. CASE EnterSnapshot(t)
    BY <1>0, <1>1, <1>3, <2>1, <2>4, EnterSnapshotFacts DEF xvars
  <2>5. CASE SnapshotId(t)
    BY <1>0, <1>1, <1>3, <2>1, <2>5, SnapshotIdFacts DEF xvars
  <2>6. CASE LoadEpoch(t)
    BY <1>0, <1>1, <1>3, <2>1, <2>6, LoadEpochFacts DEF xvars
  <2>7. CASE EnterEpoch(t)
    <3>1. (next_txn_id + 1) % CidWidth \in 0..CidWidth - 1
      BY ONLY <1>1
    <3>2. QED
      BY <1>0, <1>1, <1>3, <2>1, <2>7, <3>1, EnterEpochFacts DEF xvars
  <2>8. CASE RetryEpoch(t)
    BY <1>0, <1>1, <1>3, <2>1, <2>8, RetryEpochFacts DEF xvars
  <2>9. QED
    BY <1>4, <2>2, <2>3, <2>4, <2>5, <2>6, <2>7, <2>8 DEF Begin, BeginNext
<1>5. ASSUME NEW t \in Txns, Commits(t) \/ EndExit(t) \/ Recycle(t) PROVE EpochOK'
  <2>1. CASE Commits(t)
    BY <1>0, <1>1, <1>3, <2>1, CommitsFacts DEF xvars, gvars
  <2>2. CASE EndExit(t)
    BY <1>0, <1>1, <1>3, <2>2, EndExitFacts DEF xvars, gvars
  <2>3. CASE Recycle(t)
    BY <1>0, <1>1, <1>3, <2>3, RecycleFacts DEF xvars
  <2>4. QED
    BY <1>5, <2>1, <2>2, <2>3
<1>6. CASE GCNext
  <2>0. UNCHANGED <<current, next_txn_id, loaded>>
    BY <1>6, GCFacts DEF tvars
  <2>1. CASE GCLoad
    BY ONLY <1>0, <1>1, <2>0, <2>1 DEF GCLoad, LoadCurrent, EpochOK
  <2>2. ASSUME NEW th \in Threads, GCAsk(th) PROVE EpochOK'
    <3> DEFINE b == LocalExpired(th, seen)
    <3>1. /\ th \in todo /\ seen # 0 /\ lower' = [lower EXCEPT ![th] = b]
          /\ epochs' = [epochs EXCEPT ![th] = Trim(@)]
          /\ expired' = IF b < expired THEN b ELSE expired
          /\ todo' = todo \ {th} /\ seen' = 0 /\ UNCHANGED <<snapshot, gpc>>
      BY <2>2 DEF GCAsk, AskLocal
    <3>2. seen \in 1..current /\ current \in Epochs
      BY <1>0, <1>1, <3>1 DEF EpochOK
    <3>3. b \in 0..MAX_EID /\ b < current
      BY <1>0, <3>1, <3>2, <2>2, AskFacts
    <3> HIDE DEF b
    <3>4. expired' \in 0..MAX_EID /\ expired' < current
      BY ONLY <1>0, <1>1, <3>1, <3>3 DEF EpochOK
    <3>5. QED
      BY ONLY <1>0, <1>1, <2>0, <3>1, <3>4 DEF EpochOK
  <2>3. CASE GCExpired
    <3>1. /\ todo = {} /\ gpc' = "reclaim" /\ gpc = "ask" /\ UNCHANGED <<todo, seen, expired>>
          /\ snapshot' = IF expired # MAX_EID /\ expired >= snapshot THEN expired + 1
                         ELSE snapshot
      BY <2>3 DEF GCExpired, FinishExpire, xvars
    <3>2. snapshot' \in 1..current
      BY ONLY <1>0, <1>1, <3>1 DEF EpochOK
    <3>3. seen = 0
      BY ONLY <1>0, <3>1 DEF EpochOK
    <3>4. QED
      BY ONLY <1>0, <2>0, <3>1, <3>2, <3>3 DEF EpochOK
  <2>4. CASE ReclaimOne \/ Unlink
    <3>1. /\ gpc = "reclaim" /\ gpc' \in {"reclaim", "mark"}
          /\ UNCHANGED <<snapshot, todo, seen, expired>>
      BY <2>4 DEF ReclaimOne, Unlink, evars
    <3>2. QED
      BY ONLY <1>0, <2>0, <3>1 DEF EpochOK
  <2>5. CASE MarkReclaimable
    <3>1. gpc' = "ask" /\ todo' = Threads /\ expired' = MAX_EID /\ UNCHANGED <<snapshot, seen>>
      BY <2>5 DEF MarkReclaimable, StartExpire
    <3>2. QED
      BY ONLY <1>0, <1>1, <2>0, <3>1 DEF EpochOK
  <2>6. QED
    BY <1>6, <2>1, <2>2, <2>3, <2>4, <2>5 DEF GCNext
<1>7. QED
  BY <1>2, <1>4, <1>5, <1>6, Steps

\* The steps of the local contexts.
LEMMA LocalStep == ASSUME Inv, Next PROVE LocalOK'
<1>0. EpochOK /\ LocalOK /\ TxnFcns /\ TxnsOK /\ EpochOK'
  BY TxnShape, EpochStep DEF Inv
<1>1. current \in Epochs /\ current \in Nat /\ current' \in Nat
  BY <1>0, Widths DEF EpochOK
<1>2. ASSUME NEW th \in Threads, DOMAIN epochs' = Threads, lower' \in [Threads -> 0..MAX_EID],
             \A o \in Threads : o # th => epochs'[o] = epochs[o] /\ lower'[o] = lower[o],
             ContextOK(lower'[th], epochs'[th]), current' = current
      PROVE  LocalOK'
  <2>1. ASSUME NEW o \in Threads PROVE ContextOK(lower'[o], epochs'[o])
    BY ONLY <1>0, <1>2, <2>1 DEF LocalOK
  <2>2. ASSUME NEW o \in Threads PROVE ContextOK(lower[o], epochs[o])'
    BY ONLY <1>2, <2>1, <2>2 DEF ContextOK
  <2>3. QED
    BY ONLY <1>2, <2>2 DEF LocalOK
<1>3. CASE UNCHANGED lvars
  <2>1. current <= current'
    <3>1. current' = current \/ current' = current + 1
      <4>1. CASE Ticks
        BY <4>1 DEF Ticks, Tick
      <4>2. ASSUME NEW t \in Txns, Begin(t) PROVE current' = current
        BY <4>2 DEF Begin, BeginNext, BeginSerializable, BeginSnapshot, EnterSnapshot,
                    SnapshotId, LoadEpoch, EnterEpoch, RetryEpoch
      <4>3. ASSUME NEW t \in Txns, Commits(t) \/ EndExit(t) \/ Recycle(t)
            PROVE  current' = current
        BY <1>0, <4>3, CommitsFacts, EndExitFacts, RecycleFacts
      <4>4. CASE GCNext
        BY <4>4, GCFacts
      <4>5. QED
        BY <4>1, <4>2, <4>3, <4>4, Steps
    <3>2. QED
      BY ONLY <1>1, <3>1
  <2>2. QED
    BY <1>0, <1>1, <1>3, <2>1, LocalFrame
<1>4. ASSUME NEW t \in Txns, Begin(t) PROVE LocalOK'
  <2>1. CASE EnterSnapshot(t)
    <3>1. /\ thread[t] \in Threads /\ loaded[t] \in 1..current /\ current' = current
          /\ LocalEnter(thread[t], loaded[t], "SNAPSHOT_READ")
      BY <1>0, <2>1, EnterSnapshotFacts, EpochNumbers DEF TxnsOK, TxnOK
    <3>2. QED
      BY <1>0, <1>1, <1>2, <3>1, EnterFacts
  <2>2. CASE EnterEpoch(t)
    <3>1. /\ thread[t] \in Threads /\ loaded[t] \in 1..current /\ current' = current
          /\ LocalEnter(thread[t], loaded[t], EntryType(t))
      BY <1>0, <2>2, EnterEpochFacts, EpochNumbers DEF TxnsOK, TxnOK
    <3>2. QED
      BY <1>0, <1>1, <1>2, <3>1, EnterFacts
  <2>3. CASE ~EnterSnapshot(t) /\ ~EnterEpoch(t)
    <3>1. UNCHANGED lvars
      BY <1>0, <1>4, <2>3, BeginSerializableFacts, BeginSnapshotFacts, SnapshotIdFacts,
         LoadEpochFacts, RetryEpochFacts DEF Begin, BeginNext
    <3>2. QED
      BY <1>3, <3>1
  <2>4. QED
    BY <2>1, <2>2, <2>3
<1>5. ASSUME NEW t \in Txns, EndExit(t) PROVE LocalOK'
  <2>1. thread[t] \in Threads /\ current' = current /\ LocalExit(thread[t], EpochOf(read_id[t]))
    BY <1>0, <1>5, EndExitFacts DEF TxnsOK
  <2>2. QED
    BY <1>0, <1>1, <1>2, <2>1, ExitFacts
<1>6. ASSUME NEW th \in Threads, GCAsk(th) PROVE LocalOK'
  <2>1. /\ seen \in 1..current /\ current' = current
        /\ lower' = [lower EXCEPT ![th] = LocalExpired(th, seen)]
        /\ epochs' = [epochs EXCEPT ![th] = Trim(@)]
    <3>1. seen # 0 /\ seen \in 0..current
      BY <1>0, <1>6 DEF GCAsk, AskLocal, EpochOK
    <3>2. seen \in 1..current
      BY ONLY <1>1, <3>1
    <3>3. QED
      BY <1>6, <3>2 DEF GCAsk, AskLocal
  <2>2. QED
    BY <1>0, <1>1, <1>2, <1>6, <2>1, AskFacts
<1>7. CASE Ticks \/ GCNext \/ \E t \in Txns : Commits(t) \/ Recycle(t)
  <2>1. Ticks => UNCHANGED lvars
    BY DEF Ticks, Tick
  <2>2. ASSUME NEW t \in Txns, Commits(t) \/ Recycle(t) PROVE UNCHANGED lvars
    BY <1>0, <2>2, CommitsFacts, RecycleFacts
  <2>3. QED
    BY <1>3, <1>6, <1>7, <2>1, <2>2, GCFacts
<1>8. QED
  BY <1>4, <1>5, <1>7, Steps

\* One transaction changes, and what is known of it holds afterwards.
LEMMA TxnFrame ==
  ASSUME TxnsOK, NEW t \in Txns, Alone(t), current' = current,
         pc'[t] \in PCs, thread'[t] \in Threads, level'[t] \in Levels,
         read_id'[t] \in 0..MAX_CID - 1, commit_id'[t] \in 0..MAX_CID - 1, TxnOK(t)'
  PROVE  TxnsOK'
<1>1. ASSUME NEW u \in Txns
      PROVE  /\ pc'[u] \in PCs /\ thread'[u] \in Threads /\ level'[u] \in Levels
             /\ read_id'[u] \in 0..MAX_CID - 1 /\ commit_id'[u] \in 0..MAX_CID - 1
  <2>1. CASE u = t
    BY <2>1
  <2>2. CASE u # t
    BY <2>2 DEF Alone, TxnsOK
  <2>3. QED
    BY <2>1, <2>2
<1>2. ASSUME NEW u \in Txns PROVE TxnOK(u)'
  <2>1. CASE u = t
    BY <2>1
  <2>2. CASE u # t
    <3>1. TxnOK(u)
      BY DEF TxnsOK
    <3>2. /\ pc'[u] = pc[u] /\ level'[u] = level[u] /\ loaded'[u] = loaded[u]
          /\ read_id'[u] = read_id[u] /\ commit_id'[u] = commit_id[u] /\ current' = current
      BY <2>2 DEF Alone
    <3>3. QED
      BY ONLY <3>1, <3>2 DEF TxnOK, Serial
  <2>3. QED
    BY <2>1, <2>2
<1>3. /\ pc' \in [Txns -> PCs] /\ thread' \in [Txns -> Threads] /\ level' \in [Txns -> Levels]
  BY <1>1 DEF Alone
<1>4. read_id' \in [Txns -> 0..MAX_CID - 1] /\ commit_id' \in [Txns -> 0..MAX_CID - 1]
  BY <1>1 DEF Alone
<1>5. QED
  BY ONLY <1>2, <1>3, <1>4 DEF TxnsOK

\* The ids of a transaction, and their epochs, are numbers.
LEMMA TxnNumbers ==
  ASSUME TxnsOK, NEW t \in Txns
  PROVE  /\ pc[t] \in PCs /\ thread[t] \in Threads /\ level[t] \in Levels
         /\ read_id[t] \in 0..MAX_CID - 1 /\ commit_id[t] \in 0..MAX_CID - 1
         /\ read_id[t] \in Nat /\ commit_id[t] \in Nat
         /\ EpochOf(read_id[t]) \in Nat /\ EpochOf(commit_id[t]) \in Nat /\ TxnOK(t)
<1>1. read_id[t] \in 0..MAX_CID - 1 /\ commit_id[t] \in 0..MAX_CID - 1
  BY DEF TxnsOK
<1>2. read_id[t] \in Nat /\ commit_id[t] \in Nat
  BY <1>1, Widths
<1>3. EpochOf(read_id[t]) \in Nat /\ EpochOf(commit_id[t]) \in Nat
  BY <1>2, EpochOrder
<1>4. pc[t] \in PCs /\ thread[t] \in Threads /\ level[t] \in Levels /\ TxnOK(t)
  BY DEF TxnsOK
<1>5. QED
  BY <1>1, <1>2, <1>3, <1>4

\* The steps of the transactions.
LEMMA TxnsStep == ASSUME Inv, Next PROVE TxnsOK'
<1>0. EpochOK /\ TxnFcns /\ TxnsOK
  BY TxnShape DEF Inv
<1>1. /\ current \in 1..MaxEpoch /\ snapshot \in 1..current /\ MaxEpoch \in Nat
      /\ next_txn_id \in 0..CidWidth - 1 /\ 0 \in 0..CidWidth - 1
      /\ \A t \in Txns : loaded[t] \in 0..current
      /\ 0 \in 0..MAX_CID - 1 /\ 0 \in Threads
  <2>1. MAX_CID > 0
    <3>1. Cid(0, 0) \in 0..MAX_CID - 1
      BY CidOfEpoch, Widths
    <3>2. QED
      BY <3>1, Widths
  <2>2. QED
    BY <1>0, <2>1, EpochNumbers, Widths DEF EpochOK
<1>2. CASE Ticks
  <2>1. current' = current + 1 /\ UNCHANGED tvars
    BY <1>2 DEF Ticks, Tick
  <2>2. ASSUME NEW t \in Txns PROVE TxnOK(t)'
    <3>1. TxnOK(t) /\ EpochOf(read_id[t]) \in Nat /\ EpochOf(commit_id[t]) \in Nat
      BY <1>0, <2>2, TxnNumbers
    <3>2. EpochOf(read_id[t]) <= current' /\ EpochOf(commit_id[t]) <= current'
      BY ONLY <1>1, <2>1, <3>1 DEF TxnOK
    <3>3. QED
      BY ONLY <2>1, <3>1, <3>2 DEF TxnOK, Serial, tvars
  <2>3. QED
    BY ONLY <1>0, <2>1, <2>2 DEF TxnsOK, tvars
<1>3. ASSUME NEW t \in Txns, Begin(t) PROVE TxnsOK'
  <2>1. /\ pc[t] \in PCs /\ thread[t] \in Threads /\ level[t] \in Levels
        /\ read_id[t] \in 0..MAX_CID - 1 /\ commit_id[t] \in 0..MAX_CID - 1
        /\ EpochOf(read_id[t]) \in Nat /\ EpochOf(commit_id[t]) \in Nat /\ TxnOK(t)
    BY <1>0, <1>3, TxnNumbers
  <2>2. CASE BeginSerializable(t)
    <3>1. /\ Alone(t) /\ pc[t] = "begin" /\ pc'[t] = "enter" /\ level'[t] = level[t]
          /\ thread'[t] \in Threads /\ loaded'[t] = current
          /\ read_id'[t] = read_id[t] /\ commit_id'[t] = commit_id[t] /\ current' = current
      BY <1>0, <2>2, BeginSerializableFacts
    <3>2. TxnOK(t)'
      BY ONLY <1>1, <2>1, <3>1 DEF TxnOK, Serial
    <3>3. QED
      BY <1>0, <2>1, <3>1, <3>2, TxnFrame DEF PCs
  <2>3. CASE BeginSnapshot(t)
    <3>1. /\ Alone(t) /\ pc[t] = "begin" /\ pc'[t] = "snap"
          /\ level'[t] \in Levels \ {"SERIALIZABLE"}
          /\ thread'[t] \in Threads /\ loaded'[t] = snapshot
          /\ read_id'[t] = read_id[t] /\ commit_id'[t] = commit_id[t] /\ current' = current
      BY <1>0, <2>3, BeginSnapshotFacts
    <3>2. TxnOK(t)'
      BY ONLY <1>1, <2>1, <3>1 DEF TxnOK, Serial
    <3>3. QED
      BY <1>0, <2>1, <3>1, <3>2, TxnFrame DEF PCs
  <2>4. CASE EnterSnapshot(t)
    <3>1. /\ Alone(t) /\ pc[t] = "snap" /\ pc'[t] = "snapid" /\ level'[t] = level[t]
          /\ thread'[t] = thread[t] /\ loaded'[t] = 0
          /\ read_id'[t] = read_id[t] /\ commit_id'[t] = commit_id[t] /\ current' = current
      BY <1>0, <2>4, EnterSnapshotFacts
    <3>2. TxnOK(t)'
      BY ONLY <1>1, <2>1, <3>1 DEF TxnOK, Serial
    <3>3. QED
      BY <1>0, <2>1, <3>1, <3>2, TxnFrame DEF PCs
  <2>5. CASE SnapshotId(t)
    <3>1. /\ Alone(t) /\ pc[t] = "snapid" /\ level'[t] = level[t]
          /\ pc'[t] = IF level[t] = "SNAPSHOT" THEN "load" ELSE "active"
          /\ thread'[t] = thread[t] /\ current' = current
          /\ read_id'[t] = Cid(snapshot, 0) /\ commit_id'[t] = Cid(snapshot, 0)
      BY <1>0, <2>5, SnapshotIdFacts
    <3>2. snapshot \in 0..MaxEpoch
      BY ONLY <1>1
    <3>3. Cid(snapshot, 0) \in 0..MAX_CID - 1 /\ EpochOf(Cid(snapshot, 0)) = snapshot
      BY <1>1, <3>2, CidOfEpoch
    <3>4. EpochOf(read_id'[t]) <= current /\ EpochOf(commit_id'[t]) <= current
      BY ONLY <1>1, <3>1, <3>3
    <3>5. TxnOK(t)'
      BY ONLY <2>1, <3>1, <3>4 DEF TxnOK, Serial
    <3>6. QED
      BY <1>0, <2>1, <3>1, <3>3, <3>5, TxnFrame DEF PCs
  <2>6. CASE LoadEpoch(t)
    <3>1. /\ Alone(t) /\ pc[t] = "load" /\ pc'[t] = "enter" /\ level'[t] = level[t]
          /\ thread'[t] = thread[t] /\ loaded'[t] = current
          /\ read_id'[t] = read_id[t] /\ commit_id'[t] = commit_id[t] /\ current' = current
      BY <1>0, <2>6, LoadEpochFacts
    <3>2. TxnOK(t)'
      BY ONLY <1>1, <2>1, <3>1 DEF TxnOK, Serial
    <3>3. QED
      BY <1>0, <2>1, <3>1, <3>2, TxnFrame DEF PCs
  <2>7. CASE EnterEpoch(t)
    <3>1. /\ Alone(t) /\ pc[t] = "enter" /\ pc'[t] = "active" /\ level'[t] = level[t]
          /\ thread'[t] = thread[t] /\ current' = current
          /\ commit_id'[t] = Cid(loaded[t], next_txn_id)
          /\ read_id'[t] = IF level[t] = "SNAPSHOT" THEN read_id[t]
                           ELSE Cid(loaded[t], next_txn_id)
      BY <1>0, <2>7, EnterEpochFacts
    <3>2. loaded[t] \in 0..MaxEpoch
      BY ONLY <1>1, <1>3
    <3>3. /\ Cid(loaded[t], next_txn_id) \in 0..MAX_CID - 1
          /\ EpochOf(Cid(loaded[t], next_txn_id)) = loaded[t]
      BY <1>1, <3>2, CidOfEpoch
    <3>4. EpochOf(read_id'[t]) <= current /\ EpochOf(commit_id'[t]) <= current
      BY ONLY <1>1, <1>3, <2>1, <3>1, <3>3 DEF TxnOK
    <3>5. TxnOK(t)'
      BY ONLY <2>1, <3>1, <3>4 DEF TxnOK, Serial
    <3>6. QED
      BY <1>0, <2>1, <3>1, <3>3, <3>5, TxnFrame DEF PCs
  <2>8. CASE RetryEpoch(t)
    <3>1. /\ Alone(t) /\ pc[t] = "enter" /\ pc'[t] = "load" /\ level'[t] = level[t]
          /\ thread'[t] = thread[t] /\ loaded'[t] = 0
          /\ read_id'[t] = read_id[t] /\ commit_id'[t] = commit_id[t] /\ current' = current
      BY <1>0, <2>8, RetryEpochFacts
    <3>2. TxnOK(t)'
      BY ONLY <1>1, <2>1, <3>1 DEF TxnOK, Serial
    <3>3. QED
      BY <1>0, <2>1, <3>1, <3>2, TxnFrame DEF PCs
  <2>9. QED
    BY <1>3, <2>2, <2>3, <2>4, <2>5, <2>6, <2>7, <2>8 DEF Begin, BeginNext
<1>4. ASSUME NEW t \in Txns, Commits(t) \/ EndExit(t) PROVE TxnsOK'
  <2>1. /\ Alone(t) /\ pc[t] \in {"active", "exit"} /\ pc'[t] \in {"exit", "recycle"}
        /\ level' = level /\ thread' = thread /\ loaded' = loaded
        /\ read_id' = read_id /\ commit_id' = commit_id /\ current' = current
    BY <1>0, <1>4, CommitsFacts, EndExitFacts
  <2>2. /\ thread[t] \in Threads /\ level[t] \in Levels
        /\ read_id[t] \in 0..MAX_CID - 1 /\ commit_id[t] \in 0..MAX_CID - 1 /\ TxnOK(t)
    BY <1>0, <1>4, TxnNumbers
  <2>3. TxnOK(t)'
    BY ONLY <2>1, <2>2 DEF TxnOK, Serial
  <2>4. QED
    BY <1>0, <2>1, <2>2, <2>3, TxnFrame DEF PCs
<1>5. ASSUME NEW t \in Txns, Recycle(t) PROVE TxnsOK'
  <2>1. /\ Alone(t) /\ pc'[t] = "ended" /\ level'[t] = "SERIALIZABLE" /\ thread'[t] = 0
        /\ read_id'[t] = 0 /\ commit_id'[t] = 0 /\ current' = current
    BY <1>0, <1>5, RecycleFacts
  <2>2. TxnOK(t)'
    BY ONLY <1>1, <2>1, NoEpoch DEF TxnOK, Serial
  <2>3. QED
    BY <1>0, <1>1, <2>1, <2>2, TxnFrame DEF PCs, Levels
<1>6. CASE GCNext
  <2>1. current' = current /\ UNCHANGED tvars
    BY <1>6, GCFacts
  <2>2. QED
    BY ONLY <1>0, <2>1 DEF TxnsOK, TxnOK, Serial, tvars
<1>7. QED
  BY <1>2, <1>3, <1>4, <1>5, <1>6, Steps

-----------------------------------------------------------------------------
(* Versions and queues.                                                    *)

\* The steps that retire no version.
LEMMA GarbageFrame ==
  ASSUME VersionOK, UNCHANGED <<head, gc_set, end_cid>>,
         current \in Nat, current' \in Nat, current <= current',
         \A u \in Txns : Past(u) => Past(u)'
  PROVE  \A t \in Txns : GarbageOf(t)'
<1>1. TAKE t \in Txns
<1>2. GarbageOf(t) /\ gc_set[t] \subseteq Versions /\ end_cid \in [Versions -> 0..MAX_CID]
  BY DEF VersionOK, VersionTypes
<1>3. head' = head /\ gc_set' = gc_set /\ end_cid' = end_cid
  OBVIOUS
<1>4. ASSUME NEW v \in gc_set[t], v # t PROVE EpochOf(end_cid[v]) <= current'
  <2>1. end_cid[v] \in 0..MAX_CID
    BY <1>2, <1>4
  <2>2. EpochOf(end_cid[v]) \in Nat
    BY <2>1, Widths, EpochOrder
  <2>3. EpochOf(end_cid[v]) <= current
    BY ONLY <1>2, <1>4 DEF GarbageOf
  <2>4. QED
    BY ONLY <2>2, <2>3, current \in Nat, current' \in Nat, current <= current'
<1>5. \A u \in Txns : Past(u) => Past(u)'
  OBVIOUS
<1>6. QED
  BY ONLY <1>2, <1>3, <1>4, <1>5, <1>1 DEF GarbageOf

\* A version that somebody can replace, and one that is still to be written,
\* is nobody's garbage.
LEMMA NotGarbage ==
  ASSUME VersionOK, NEW t \in Txns, ~Past(t)
  PROVE  /\ gc_set[t] = {} /\ t # head /\ \A u \in Txns : t \notin gc_set[u]
         /\ ~Empty(head) => \A u \in Txns : head \notin gc_set[u]
<1>1. \A u \in Txns : GarbageOf(u)
  BY DEF VersionOK
<1>2. gc_set[t] = {} /\ t # head
  BY <1>1 DEF GarbageOf
<1>3. ASSUME NEW u \in Txns PROVE t \notin gc_set[u]
  <2>1. CASE u = t
    BY <1>2, <2>1
  <2>2. CASE u # t
    BY <1>1, <2>2 DEF GarbageOf
  <2>3. QED
    BY <2>1, <2>2
<1>4. ASSUME ~Empty(head), NEW u \in Txns PROVE head \notin gc_set[u]
  <2>1. CASE u = head
    BY <1>4, <2>1 DEF Empty
  <2>2. CASE u # head
    BY <1>1, <2>2 DEF GarbageOf
  <2>3. QED
    BY <2>1, <2>2
<1>5. QED
  BY <1>2, <1>3, <1>4

\* What CommitTransaction and AbortTransaction retire.
Retires(t, S) ==
  /\ S \in SUBSET Versions /\ t \in Txns /\ ~Past(t) /\ Past(t)'
  /\ ~Empty(head) \/ S \subseteq {t}
  /\ gc_set' = [gc_set EXCEPT ![t] = S]
  /\ witnesses' = [v \in Versions |-> IF v \in S THEN Registered \ {t} ELSE witnesses[v]]
  /\ \/ /\ head' = t /\ S \subseteq {head, t}
        /\ end_cid' = [end_cid EXCEPT ![head] = commit_id[t]]
     \/ head' = head /\ S \subseteq {t} /\ end_cid' = end_cid

\* Commits either retires nothing or is of that form.
LEMMA CommitsRetires ==
  ASSUME VersionTypes, TxnFcns, NEW t \in Txns, Commits(t)
  PROVE  \/ UNCHANGED vvars
         \/ \E S \in SUBSET Versions :
              /\ Retires(t, S)
              /\ begin_cid' \in {begin_cid, [begin_cid EXCEPT ![t] = commit_id[t]]}
<1>1. pc[t] = "active" /\ pc'[t] = "exit"
  BY CommitsFacts
<1>2. ~Past(t) /\ Past(t)'
  BY <1>1 DEF Past
<1>3. head \in Versions /\ t \in Versions
  BY DEF VersionTypes, Versions
<1>4. CASE CommitRead(t)
  BY <1>4 DEF CommitRead
<1>5. CASE CommitUpdate(t)
  <2>1. Retires(t, {head})
    BY <1>2, <1>3, <1>5 DEF CommitUpdate, Retires, Retire, Writable, Deletable
  <2>2. begin_cid' = [begin_cid EXCEPT ![t] = commit_id[t]]
    BY <1>5 DEF CommitUpdate
  <2>3. QED
    BY <1>3, <2>1, <2>2
<1>6. CASE CommitDelete(t)
  <2>1. Retires(t, {head, t})
    BY <1>2, <1>3, <1>6 DEF CommitDelete, Retires, Retire, Deletable
  <2>2. begin_cid' = [begin_cid EXCEPT ![t] = commit_id[t]]
    BY <1>6 DEF CommitDelete
  <2>3. QED
    BY <1>3, <2>1, <2>2
<1>7. CASE Abort(t)
  <2>1. Retires(t, {t}) /\ begin_cid' = begin_cid
    BY <1>2, <1>3, <1>7 DEF Abort, Retires, Retire
  <2>2. QED
    BY <1>3, <2>1
<1>8. QED
  BY <1>4, <1>5, <1>6, <1>7 DEF Commits

\* Retiring a version keeps the garbage of different transactions apart.
LEMMA GarbageStep ==
  ASSUME VersionOK, NEW t \in Txns, NEW S \in SUBSET Versions, Retires(t, S), Alone(t),
         current' = current, EpochOf(commit_id[t]) <= current
  PROVE  \A u \in Txns : GarbageOf(u)'
<1>1. /\ ~Past(t) /\ Past(t)' /\ (~Empty(head) \/ S \subseteq {t}) /\ S \subseteq {head, t}
      /\ gc_set' = [gc_set EXCEPT ![t] = S]
      /\ \/ head' = t /\ end_cid' = [end_cid EXCEPT ![head] = commit_id[t]]
         \/ head' = head /\ S \subseteq {t} /\ end_cid' = end_cid
  BY DEF Retires
<1>2. /\ gc_set[t] = {} /\ t # head /\ \A u \in Txns : t \notin gc_set[u]
      /\ ~Empty(head) => \A u \in Txns : head \notin gc_set[u]
  BY <1>1, NotGarbage
<1>3. \A u \in Txns : S \cap gc_set[u] = {}
  BY ONLY <1>1, <1>2
<1>4. /\ gc_set \in [Txns -> SUBSET Versions] /\ end_cid \in [Versions -> 0..MAX_CID]
      /\ head \in Versions
  BY DEF VersionOK, VersionTypes
<1>5. gc_set'[t] = S /\ \A u \in Txns : u # t => gc_set'[u] = gc_set[u]
  BY ONLY <1>1, <1>4, t \in Txns
<1>6. \A u \in Txns : u # t => (Past(u)' <=> Past(u))
  BY DEF Alone, Past
<1>7. \A u \in Txns : GarbageOf(u)
  BY DEF VersionOK
<1>8. \A u \in Txns : Past(u) => Past(u)'
  BY ONLY <1>1, <1>6
<1>9. TAKE u \in Txns
<1>10. CASE u = t
  <2>1. ASSUME NEW v \in S, v # t PROVE /\ v # head' /\ (v \in Txns => Past(v)')
                                        /\ EpochOf(end_cid'[v]) <= current
    <3>1. v = head /\ head' = t /\ end_cid' = [end_cid EXCEPT ![head] = commit_id[t]]
      BY ONLY <1>1, <2>1
    <3>2. v \in Txns => Past(v)
      BY ONLY <3>1, <1>7 DEF GarbageOf
    <3>3. end_cid'[v] = commit_id[t]
      BY ONLY <1>4, <3>1
    <3>4. QED
      BY <1>8, <2>1, <3>1, <3>2, <3>3
  <2>2. ASSUME NEW w \in Txns, NEW v \in S, v \in gc_set'[w] PROVE w = t
    BY ONLY <1>3, <1>5, <2>2
  <2>3. QED
    BY <1>1, <1>5, <1>10, <2>1, <2>2 DEF GarbageOf
<1>11. CASE u # t
  <2>1. ASSUME ~Past(u)' PROVE gc_set'[u] = {} /\ u # head'
    BY <1>1, <1>5, <1>6, <1>7, <1>11, <2>1 DEF GarbageOf
  <2>2. ASSUME NEW v \in gc_set[u], v # u PROVE /\ v # head' /\ (v \in Txns => Past(v)')
                                                /\ EpochOf(end_cid'[v]) <= current
    <3>1. v # head /\ (v \in Txns => Past(v)) /\ EpochOf(end_cid[v]) <= current /\ v # t
      BY <1>2, <1>7, <2>2 DEF GarbageOf
    <3>2. v \in Versions
      BY ONLY <1>4, <1>9, <2>2
    <3>3. end_cid'[v] = end_cid[v] /\ v # head'
      BY ONLY <1>1, <1>4, <3>1, <3>2
    <3>4. QED
      BY ONLY <1>8, <3>1, <3>3
  <2>3. ASSUME NEW w \in Txns, NEW v \in gc_set[u], v \in gc_set'[w] PROVE w = u
    <3>1. w # t
      BY ONLY <1>3, <1>5, <1>9, <2>3
    <3>2. QED
      BY <1>5, <1>7, <2>3, <3>1 DEF GarbageOf
  <2>4. QED
    BY <1>5, <1>11, <2>1, <2>2, <2>3 DEF GarbageOf
<1>12. QED
  BY <1>10, <1>11

\* The steps of the versions.
LEMMA VersionStep == ASSUME Inv, Next PROVE VersionOK'
<1>0. EpochOK /\ TxnFcns /\ TxnsOK /\ VersionOK /\ VersionTypes /\ EpochOK'
  BY TxnShape, EpochStep DEF Inv, VersionOK
<1>1. /\ current \in Nat /\ current' \in Nat /\ MAX_CID \in Nat /\ current <= MaxEpoch
      /\ MaxEpoch \in Nat
  BY <1>0, EpochNumbers, Widths DEF EpochOK
<1>2. ASSUME UNCHANGED <<begin_cid, end_cid, head, gc_set>>, current <= current',
             witnesses' \in [Versions -> SUBSET Txns], garbage_eid' \in [Txns -> 0..MaxEpoch + 1],
             \A u \in Txns : Past(u) => Past(u)'
      PROVE  VersionOK'
  <2>1. \A t \in Txns : GarbageOf(t)'
    BY <1>0, <1>1, <1>2, GarbageFrame
  <2>2. VersionTypes'
    BY ONLY <1>0, <1>2 DEF VersionTypes
  <2>3. QED
    BY <2>1, <2>2 DEF VersionOK
<1>3. /\ witnesses \in [Versions -> SUBSET Txns] /\ garbage_eid \in [Txns -> 0..MaxEpoch + 1]
  BY <1>0 DEF VersionTypes
<1>4. CASE Ticks
  <2>1. UNCHANGED <<vvars, garbage_eid, tvars>> /\ current' = current + 1
    BY <1>4 DEF Ticks, Tick
  <2>2. \A u \in Txns : Past(u) => Past(u)'
    BY <2>1 DEF Past, tvars
  <2>3. current <= current'
    BY ONLY <1>1, <2>1
  <2>4. QED
    BY <1>2, <1>3, <2>1, <2>2, <2>3 DEF vvars
<1>5. CASE GCNext
  <2>1. UNCHANGED <<vvars, garbage_eid, tvars>> /\ current' = current
    BY <1>5, GCFacts
  <2>2. \A u \in Txns : Past(u) => Past(u)'
    BY <2>1 DEF Past, tvars
  <2>3. current <= current'
    BY ONLY <1>1, <2>1
  <2>4. QED
    BY <1>2, <1>3, <2>1, <2>2, <2>3 DEF vvars
<1>6. ASSUME NEW t \in Txns, Begin(t) PROVE VersionOK'
  <2>1. UNCHANGED <<vvars, garbage_eid>>
    BY <1>6 DEF Begin
  <2>2. Alone(t) /\ ~Past(t) /\ current' = current
    BY <1>0, <1>6, BeginSerializableFacts, BeginSnapshotFacts, EnterSnapshotFacts,
       SnapshotIdFacts, LoadEpochFacts, EnterEpochFacts, RetryEpochFacts
       DEF Begin, BeginNext, Past
  <2>3. \A u \in Txns : Past(u) => Past(u)'
    BY <2>2 DEF Past, Alone
  <2>4. current <= current'
    BY ONLY <1>1, <2>2
  <2>5. QED
    BY <1>2, <1>3, <2>1, <2>3, <2>4 DEF vvars
<1>7. ASSUME NEW t \in Txns, Commits(t) PROVE VersionOK'
  <2>1. /\ Alone(t) /\ pc[t] = "active" /\ pc'[t] = "exit" /\ current' = current
        /\ garbage_eid' = garbage_eid
    BY <1>0, <1>7, CommitsFacts
  <2>2. CASE UNCHANGED vvars
    <3>1. \A u \in Txns : Past(u) => Past(u)'
      BY <2>1 DEF Past, Alone
    <3>2. current <= current'
      BY ONLY <1>1, <2>1
    <3>3. QED
      BY <1>2, <1>3, <2>1, <2>2, <3>1, <3>2 DEF vvars
  <2>3. CASE ~UNCHANGED vvars
    <3>1. PICK S \in SUBSET Versions :
             /\ Retires(t, S)
             /\ begin_cid' \in {begin_cid, [begin_cid EXCEPT ![t] = commit_id[t]]}
      BY <1>0, <1>7, <2>3, CommitsRetires
    <3>2. commit_id[t] \in 0..MAX_CID - 1 /\ EpochOf(commit_id[t]) <= current
      BY <1>0, <1>7, TxnNumbers DEF TxnOK
    <3>3. \A u \in Txns : GarbageOf(u)'
      BY <1>0, <2>1, <3>1, <3>2, GarbageStep
    <3>4. VersionTypes'
      <4>1. commit_id[t] \in 0..MAX_CID /\ t \in Versions /\ Registered \subseteq Txns
        BY <1>1, <1>7, <3>2 DEF Versions, Registered
      <4>2. begin_cid' \in [Versions -> 0..MAX_CID]
        BY ONLY <1>0, <3>1, <4>1 DEF VersionTypes
      <4>3. /\ end_cid' \in [Versions -> 0..MAX_CID] /\ head' \in Versions
        BY ONLY <1>0, <3>1, <4>1 DEF VersionTypes, Retires
      <4>4. gc_set' \in [Txns -> SUBSET Versions]
        BY ONLY <1>0, <3>1 DEF VersionTypes, Retires
      <4>5. witnesses' \in [Versions -> SUBSET Txns]
        BY ONLY <1>3, <3>1, <4>1 DEF Retires
      <4>6. QED
        BY ONLY <1>3, <2>1, <4>2, <4>3, <4>4, <4>5 DEF VersionTypes
    <3>5. QED
      BY ONLY <3>3, <3>4 DEF VersionOK
  <2>4. QED
    BY <2>2, <2>3
<1>8. ASSUME NEW t \in Txns, EndExit(t) PROVE VersionOK'
  <2>1. /\ Alone(t) /\ pc[t] = "exit" /\ pc'[t] = "recycle" /\ current' = current
        /\ UNCHANGED <<begin_cid, end_cid, head, gc_set, garbage_eid>>
        /\ witnesses' = [v \in Versions |-> witnesses[v] \ {t}]
    BY <1>0, <1>8, EndExitFacts
  <2>2. witnesses' \in [Versions -> SUBSET Txns]
    BY ONLY <1>3, <2>1
  <2>3. \A u \in Txns : Past(u) => Past(u)'
    BY <2>1 DEF Past, Alone
  <2>4. current <= current'
    BY ONLY <1>1, <2>1
  <2>5. QED
    BY <1>2, <1>3, <2>1, <2>2, <2>3, <2>4
<1>9. ASSUME NEW t \in Txns, Recycle(t) PROVE VersionOK'
  <2>1. Alone(t) /\ pc'[t] = "ended" /\ current' = current /\ UNCHANGED vvars
    BY <1>0, <1>9, RecycleFacts
  <2>2. garbage_eid' \in [Txns -> 0..MaxEpoch + 1]
    <3>1. read_id[t] \in Nat /\ EpochOf(read_id[t]) \in Nat /\ EpochOf(read_id[t]) <= current
      BY <1>0, <1>9, TxnNumbers DEF TxnOK
    <3>2. EpochOf(read_id[t]) \in 0..MaxEpoch + 1 /\ current + 1 \in 0..MaxEpoch + 1
      BY ONLY <1>1, <3>1
    <3>3. garbage_eid' = garbage_eid \/ garbage_eid' = [garbage_eid EXCEPT ![t] =
                IF begin_cid[t] # MAX_CID THEN EpochOf(read_id[t]) ELSE current + 1]
      BY <1>9 DEF Recycle
    <3>4. QED
      BY ONLY <1>3, <3>2, <3>3
  <2>3. \A u \in Txns : Past(u) => Past(u)'
    BY <2>1 DEF Past, Alone
  <2>4. current <= current'
    BY ONLY <1>1, <2>1
  <2>5. QED
    BY <1>2, <1>3, <2>1, <2>2, <2>3, <2>4 DEF vvars
<1>10. QED
  BY <1>4, <1>5, <1>6, <1>7, <1>8, <1>9, Steps

\* The steps of the queues: a context moves from one to the next.
LEMMA QueueStep == ASSUME Inv, Next PROVE QueuesOK'
<1>0. EpochOK /\ TxnFcns /\ TxnsOK /\ VersionOK /\ QueuesOK /\ QueueTypes /\ EpochOK'
  BY TxnShape, EpochStep DEF Inv, QueuesOK
<1>1. \A t \in Txns : QueueOK(t) /\ GarbageOf(t)
  BY <1>0 DEF QueuesOK, VersionOK
<1>2. ASSUME UNCHANGED <<unlink_queue, local_queue, garbages, reclaim_map, recycled, gc_set>>,
             gpc' \in {"ask", "reclaim", "mark"}, gpc' # "mark" => garbages = {},
             \A u \in Txns : pc'[u] = "ended" <=> pc[u] = "ended"
      PROVE  QueuesOK'
  <2>1. QueueTypes'
    BY ONLY <1>0, <1>2 DEF QueueTypes
  <2>2. ASSUME NEW t \in Txns PROVE QueueOK(t)'
    <3>1. QueueOK(t)
      BY <1>1
    <3>2. QED
      BY ONLY <1>2, <2>2, <3>1 DEF QueueOK, Filed
  <2>3. QED
    BY ONLY <1>0, <1>2, <2>1, <2>2 DEF QueuesOK
<1>3. CASE Ticks
  <2>1. UNCHANGED <<vvars, gvars, tvars>>
    BY <1>3 DEF Ticks, Tick
  <2>2. QED
    BY <1>0, <1>2, <2>1 DEF vvars, gvars, tvars, QueuesOK, QueueTypes
<1>4. ASSUME NEW t \in Txns, Begin(t) PROVE QueuesOK'
  <2>1. UNCHANGED <<vvars, gvars>>
    BY <1>4 DEF Begin
  <2>2. Alone(t) /\ pc[t] # "ended" /\ pc'[t] # "ended"
    BY <1>0, <1>4, BeginSerializableFacts, BeginSnapshotFacts, EnterSnapshotFacts,
       SnapshotIdFacts, LoadEpochFacts, EnterEpochFacts, RetryEpochFacts
       DEF Begin, BeginNext
  <2>3. \A u \in Txns : pc'[u] = "ended" <=> pc[u] = "ended"
    BY <2>2 DEF Alone
  <2>4. QED
    BY <1>0, <1>2, <2>1, <2>3 DEF vvars, gvars, QueuesOK, QueueTypes
<1>5. ASSUME NEW t \in Txns, Commits(t) \/ EndExit(t) PROVE QueuesOK'
  <2>1. /\ Alone(t) /\ pc[t] \in {"active", "exit"} /\ pc'[t] \in {"exit", "recycle"}
        /\ UNCHANGED gvars
    BY <1>0, <1>5, CommitsFacts, EndExitFacts
  <2>2. \A u \in Txns : pc'[u] = "ended" <=> pc[u] = "ended"
    BY <2>1 DEF Alone
  <2>3. UNCHANGED <<unlink_queue, local_queue, garbages, reclaim_map, recycled, gpc>>
    BY <2>1 DEF gvars
  <2>4. CASE UNCHANGED gc_set
    BY <1>0, <1>2, <2>2, <2>3, <2>4 DEF QueuesOK, QueueTypes
  <2>5. CASE ~UNCHANGED gc_set
    <3>1. PICK S \in SUBSET Versions : Retires(t, S)
      <4>1. Commits(t)
        BY <1>0, <1>5, <2>5, EndExitFacts
      <4>2. VersionTypes /\ ~UNCHANGED vvars
        BY <1>0, <2>5 DEF VersionOK, vvars
      <4>3. QED
        BY <1>0, <1>5, <4>1, <4>2, CommitsRetires
    <3>2. /\ gc_set[t] = {} /\ \A u \in Txns : t \notin gc_set[u]
          /\ ~Empty(head) => \A u \in Txns : head \notin gc_set[u]
      BY <1>0, <1>5, <3>1, NotGarbage DEF Retires
    <3>3. S \subseteq {head, t} /\ (~Empty(head) \/ S \subseteq {t})
      BY ONLY <3>1 DEF Retires
    <3>4. S \cap recycled = {}
      <4>1. \A v \in recycled : \E u \in Txns : v \in gc_set[u]
        BY <1>0 DEF QueuesOK
      <4>2. QED
        BY ONLY <3>2, <3>3, <4>1
    <3>5. gc_set'[t] = S /\ \A u \in Txns : u # t => gc_set'[u] = gc_set[u]
      <4>1. gc_set \in [Txns -> SUBSET Versions]
        BY <1>0 DEF VersionOK, VersionTypes
      <4>2. QED
        BY ONLY <1>5, <3>1, <4>1 DEF Retires
    <3>6. ASSUME NEW u \in Txns PROVE QueueOK(u)'
      <4>1. CASE u = t
        <5>1. QueueOK(t) /\ pc[t] # "ended" /\ pc'[t] # "ended"
          BY <1>1, <1>5, <2>1
        <5>2. QED
          BY ONLY <2>3, <3>4, <3>5, <4>1, <5>1 DEF QueueOK, Filed
      <4>2. CASE u # t
        <5>1. QueueOK(u)
          BY <1>1, <3>6
        <5>2. QED
          BY ONLY <2>2, <2>3, <3>5, <3>6, <4>2, <5>1 DEF QueueOK, Filed
      <4>3. QED
        BY <4>1, <4>2
    <3>7. \A v \in recycled : \E u \in Txns : v \in gc_set'[u]
      <4>1. \A v \in recycled : \E u \in Txns : v \in gc_set[u] /\ u # t
        BY <1>0, <3>2 DEF QueuesOK
      <4>2. QED
        BY ONLY <3>5, <4>1
    <3>8. QED
      BY ONLY <1>0, <2>3, <3>6, <3>7 DEF QueuesOK, QueueTypes
  <2>6. QED
    BY <2>4, <2>5
<1>6. ASSUME NEW t \in Txns, Recycle(t) PROVE QueuesOK'
  <2>1. /\ Alone(t) /\ pc[t] = "recycle" /\ pc'[t] = "ended"
        /\ unlink_queue' = IF gc_set[t] = {} THEN unlink_queue ELSE unlink_queue \cup {t}
        /\ UNCHANGED <<local_queue, garbages, reclaim_map, recycled, gpc, gc_set>>
    BY <1>0, <1>6, RecycleFacts DEF vvars
  <2>2. ASSUME NEW u \in Txns PROVE QueueOK(u)'
    <3>1. QueueOK(u)
      BY <1>1, <2>2
    <3>2. CASE u = t
      BY ONLY <2>1, <3>1, <3>2 DEF QueueOK, Filed
    <3>3. CASE u # t
      <4>1. pc'[u] = pc[u] /\ (u \in unlink_queue' <=> u \in unlink_queue)
        BY <2>1, <2>2, <3>3 DEF Alone
      <4>2. QED
        BY ONLY <2>1, <3>1, <4>1 DEF QueueOK, Filed
    <3>4. QED
      BY <3>2, <3>3
  <2>3. QED
    BY ONLY <1>0, <1>6, <2>1, <2>2 DEF QueuesOK, QueueTypes
<1>7. CASE GCNext
  <2>0. pc' = pc /\ gc_set' = gc_set
    BY <1>7, GCFacts DEF tvars, vvars
  <2>1. CASE GCLoad \/ GCExpired \/ \E th \in Threads : GCAsk(th)
    <3>1. UNCHANGED <<unlink_queue, local_queue, garbages, reclaim_map, recycled>>
      BY <1>7, <2>1, GCFacts
    <3>2. gpc = "ask" /\ gpc' \in {"ask", "reclaim"}
      BY <2>1 DEF GCLoad, GCExpired, GCAsk
    <3>3. garbages = {}
      BY <1>0, <3>2 DEF QueuesOK
    <3>4. QED
      BY <1>2, <2>0, <3>1, <3>2, <3>3
  <2>2. CASE ReclaimOne
    <3>1. PICK c \in Epochs, t \in Txns :
             /\ <<c, t>> \in reclaim_map /\ reclaim_map' = reclaim_map \ {<<c, t>>}
             /\ recycled' = recycled \cup gc_set[t]
      <4>1. PICK entry \in reclaim_map : /\ reclaim_map' = reclaim_map \ {entry}
                                         /\ recycled' = recycled \cup gc_set[entry[2]]
        BY <2>2 DEF ReclaimOne
      <4>2. PICK c \in Epochs, t \in Txns : entry = <<c, t>>
        BY <1>0, <4>1 DEF QueueTypes
      <4>3. QED
        BY <4>1, <4>2
    <3>2. /\ UNCHANGED <<unlink_queue, local_queue, garbages, gpc>>
      BY <2>2 DEF ReclaimOne
    <3>3. ASSUME NEW u \in Txns PROVE QueueOK(u)'
      <4>1. QueueOK(u) /\ QueueOK(t) /\ GarbageOf(t)
        BY <1>1, <3>1, <3>3
      <4>2. CASE u = t
        <5>1. \A e \in Epochs : <<e, t>> \in reclaim_map => e = c
          BY ONLY <3>1, <4>1 DEF QueueOK
        <5>2. \A e \in Epochs : <<e, t>> \notin reclaim_map'
          BY ONLY <3>1, <5>1
        <5>3. Filed(t) /\ ~Filed(t)'
          BY ONLY <3>1, <5>2 DEF Filed
        <5>4. /\ t \notin unlink_queue /\ t \notin local_queue /\ t \notin garbages
              /\ pc[t] = "ended" /\ gc_set[t] # {}
          BY ONLY <4>1, <5>3 DEF QueueOK
        <5>5. QED
          BY ONLY <2>0, <3>1, <3>2, <4>2, <5>2, <5>3, <5>4 DEF QueueOK
      <4>3. CASE u # t
        <5>1. gc_set[u] \cap gc_set[t] = {}
          BY ONLY <3>3, <4>1, <4>3 DEF GarbageOf
        <5>2. \A e : <<e, u>> \in reclaim_map' <=> <<e, u>> \in reclaim_map
          BY ONLY <3>1, <4>3
        <5>3. Filed(u)' <=> Filed(u)
          BY ONLY <5>2 DEF Filed
        <5>4. (gc_set[u] \cap recycled' = {} <=> gc_set[u] \cap recycled = {})
              /\ (gc_set[u] \subseteq recycled => gc_set[u] \subseteq recycled')
          BY ONLY <3>1, <5>1
        <5>5. QED
          BY ONLY <2>0, <3>2, <4>1, <5>2, <5>3, <5>4 DEF QueueOK
      <4>4. QED
        BY <4>2, <4>3
    <3>4. gc_set[t] \subseteq Versions
      BY <1>0, <3>1 DEF VersionOK, VersionTypes
    <3>5. QED
      BY ONLY <1>0, <2>0, <3>1, <3>2, <3>3, <3>4 DEF QueuesOK, QueueTypes
  <2>3. CASE Unlink
    <3>0. PICK taken \in Attempt :
            /\ garbages' = {u \in taken \cup local_queue : Expirable(u)}
            /\ local_queue' = {u \in taken \cup local_queue : ~Expirable(u)}
            /\ unlink_queue' = unlink_queue \ taken
      BY <2>3 DEF Unlink
    <3>1. /\ taken \subseteq unlink_queue /\ unlink_queue' = unlink_queue \ taken
          /\ garbages' \cup local_queue' = taken \cup local_queue
          /\ garbages' \cap local_queue' = {}
          /\ gpc = "reclaim" /\ gpc' = "mark" /\ UNCHANGED <<reclaim_map, recycled>>
      BY <2>3, <3>0 DEF Unlink, Attempt
    <3>2. garbages = {}
      BY <1>0, <3>1 DEF QueuesOK
    <3>3. ASSUME NEW u \in Txns PROVE QueueOK(u)'
      <4>1. QueueOK(u)
        BY <1>1, <3>3
      <4>2. /\ u \in garbages' \/ u \in local_queue' <=> u \in taken \/ u \in local_queue
            /\ ~(u \in garbages' /\ u \in local_queue')
            /\ u \in unlink_queue' <=> u \in unlink_queue /\ u \notin taken
            /\ u \in taken => u \in unlink_queue
        BY ONLY <3>1
      <4>3. QED
        BY ONLY <2>0, <3>1, <3>2, <4>1, <4>2 DEF QueueOK, Filed
    <3>4. QED
      BY ONLY <1>0, <2>0, <3>1, <3>3 DEF QueuesOK, QueueTypes
  <2>4. CASE MarkReclaimable
    <3>1. /\ reclaim_map' = reclaim_map \cup {<<current, u>> : u \in garbages}
          /\ garbages' = {} /\ gpc' = "ask" /\ UNCHANGED <<unlink_queue, local_queue, recycled>>
      BY <2>4 DEF MarkReclaimable
    <3>2. current \in Epochs /\ garbages \subseteq Txns
      BY <1>0 DEF EpochOK, QueueTypes
    <3>3. ASSUME NEW u \in Txns PROVE QueueOK(u)'
      <4>1. QueueOK(u)
        BY <1>1, <3>3
      <4>2. \A e : <<e, u>> \in reclaim_map' <=>
                     <<e, u>> \in reclaim_map \/ (u \in garbages /\ e = current)
        BY ONLY <3>1
      <4>3. Filed(u)' <=> Filed(u) \/ u \in garbages
        BY ONLY <3>2, <4>2 DEF Filed
      <4>4. \A d, e \in Epochs : <<d, u>> \in reclaim_map' /\ <<e, u>> \in reclaim_map' => d = e
        BY ONLY <4>1, <4>2 DEF QueueOK, Filed
      <4>5. QED
        BY ONLY <2>0, <3>1, <4>1, <4>3, <4>4 DEF QueueOK
    <3>4. reclaim_map' \subseteq Epochs \X Txns
      BY ONLY <1>0, <3>1, <3>2 DEF QueueTypes
    <3>5. QED
      BY ONLY <1>0, <2>0, <3>1, <3>3, <3>4 DEF QueuesOK, QueueTypes
  <2>5. QED
    BY <1>7, <2>1, <2>2, <2>3, <2>4 DEF GCNext
<1>8. QED
  BY <1>3, <1>4, <1>5, <1>6, <1>7, Steps

\* Nothing has begun at first.
LEMMA InitInv == ASSUME Init PROVE Inv
<1>1. EpochOK
  BY Widths DEF Init, EpochInit, EpochOK
<1>2. LocalOK
  <2>1. /\ lower = [th \in Threads |-> IF th \in {0} THEN 0 ELSE MAX_EID] /\ current = 1
        /\ epochs = [th \in Threads |-> <<>>]
    BY DEF Init, EpochInit
  <2>2. DOMAIN <<>> = {}
    OBVIOUS
  <2>3. ASSUME NEW th \in Threads PROVE ContextOK(lower[th], epochs[th])
    <3>1. lower[th] \in {0, MAX_EID} /\ DOMAIN epochs[th] = {} /\ MAX_EID \in Nat
      BY <2>1, <2>2, <2>3, Widths
    <3>2. QED
      BY ONLY <2>1, <3>1 DEF ContextOK
  <2>4. QED
    BY <2>1, <2>3, Widths DEF LocalOK
<1>3. TxnsOK
  <2>1. 0 \in 0..MAX_CID - 1
    <3>1. Cid(0, 0) \in 0..MAX_CID - 1
      BY CidOfEpoch, Widths
    <3>2. QED
      BY <3>1, Widths
  <2>2. /\ pc = [t \in Txns |-> "begin"] /\ level = [t \in Txns |-> "SERIALIZABLE"]
        /\ thread = [t \in Txns |-> 0] /\ current = 1
        /\ read_id = [t \in Txns |-> 0] /\ commit_id = [t \in Txns |-> 0]
    BY DEF Init, EpochInit
  <2>3. ASSUME NEW t \in Txns PROVE TxnOK(t)
    BY <2>2, NoEpoch DEF TxnOK, Serial
  <2>4. QED
    BY <2>1, <2>2, <2>3, Widths DEF TxnsOK, PCs, Levels
<1>4. VersionOK
  <2>1. VersionTypes
    <3>1. Cid(1, 0) \in 0..MAX_CID
      BY CidOfEpoch, Widths
    <3>2. QED
      BY <3>1, Widths DEF Init, VersionTypes, Versions
  <2>2. ASSUME NEW t \in Txns PROVE GarbageOf(t)
    BY Widths DEF Init, GarbageOf
  <2>3. QED
    BY <2>1, <2>2 DEF VersionOK
<1>5. QueuesOK
  BY DEF Init, EpochInit, QueuesOK, QueueTypes, QueueOK, Filed
<1>6. QED
  BY <1>1, <1>2, <1>3, <1>4, <1>5 DEF Inv

\* The steps keep the invariant, whatever the clients do.
LEMMA NextInv == Inv /\ [Next]_vars => Inv'
<1>1. ASSUME Inv, Next PROVE Inv'
  BY <1>1, EpochStep, LocalStep, TxnsStep, VersionStep, QueueStep DEF Inv
<1>2. ASSUME Inv, UNCHANGED vars PROVE Inv'
  <2>1. UNCHANGED <<evars, vvars, gvars, garbage_eid>>
    BY <1>2 DEF vars
  <2>2. EpochOK' /\ LocalOK' /\ TxnsOK'
    BY <1>2, <2>1 DEF Inv, evars, gvars, EpochOK, LocalOK, TxnsOK, TxnOK, Serial, ContextOK
  <2>3. VersionOK' /\ QueuesOK'
    BY <1>2, <2>1 DEF Inv, evars, vvars, gvars, VersionOK, VersionTypes, GarbageOf, Past,
                      QueuesOK, QueueTypes, QueueOK, Filed
  <2>4. QED
    BY <2>2, <2>3 DEF Inv
<1>3. QED
  BY <1>1, <1>2

\* The invariant holds in every reachable state, whatever the clients do.
THEOREM Invariance == Spec => []Inv
BY InitInv, NextInv, PTL DEF Spec

\* The assertions of LocalEpoch: an epoch with somebody in it lies above the
\* bound of its context.
THEOREM BoundsHold == Spec => []BoundIsBelowEpochs
<1>1. Inv => BoundIsBelowEpochs
  BY DEF Inv, LocalOK, ContextOK, BoundIsBelowEpochs
<1>2. QED
  BY Invariance, <1>1, PTL

\* Every garbage context is in exactly one queue, until its versions are reset.
THEOREM GarbageIsKept == Spec => []NoGarbageIsLost
<1>1. Inv => NoGarbageIsLost
  <2> SUFFICES ASSUME Inv, NEW t \in Txns, pc[t] = "ended", gc_set[t] # {}
               PROVE  \/ gc_set[t] \subseteq recycled /\ Holders(t) = {}
                      \/ gc_set[t] \cap recycled = {} /\ Cardinality(Holders(t)) = 1
    BY DEF NoGarbageIsLost
  <2>1. QueueOK(t)
    BY DEF Inv, QueuesOK
  <2>2. /\ "queue" \in Holders(t) <=> t \in unlink_queue
        /\ "local" \in Holders(t) <=> t \in local_queue
        /\ "garbages" \in Holders(t) <=> t \in garbages
        /\ "map" \in Holders(t) <=> Filed(t)
        /\ Holders(t) \subseteq {"queue", "local", "garbages", "map"}
    BY DEF Holders, Filed
  <2>3. CASE t \in unlink_queue \cup local_queue \cup garbages \/ Filed(t)
    <3>1. \E q : Holders(t) = {q}
      BY ONLY <2>1, <2>2, <2>3 DEF QueueOK
    <3>2. Cardinality(Holders(t)) = 1
      BY <3>1, FS_Singleton
    <3>3. gc_set[t] \cap recycled = {}
      BY ONLY <2>1, <2>3 DEF QueueOK
    <3>4. QED
      BY <3>2, <3>3
  <2>4. CASE ~(t \in unlink_queue \cup local_queue \cup garbages \/ Filed(t))
    <3>1. Holders(t) = {}
      BY ONLY <2>2, <2>4
    <3>2. gc_set[t] \subseteq recycled
      BY ONLY <2>1, <2>4, pc[t] = "ended", gc_set[t] # {} DEF QueueOK
    <3>3. QED
      BY <3>1, <3>2
  <2>5. QED
    BY <2>3, <2>4
<1>2. QED
  BY Invariance, <1>1, PTL

-----------------------------------------------------------------------------
(* Disciplined clients: who is counted where.                              *)

\* Registered transactions run.
LEMMA RegisteredRun ==
  ASSUME NEW t \in Txns, NEW th
  PROVE  RegHere(t, th) => Here(t, th)
BY DEF RegHere, Here, Registered, Occupying

\* What matters about the clients of a thread does not change in most steps.
LEMMA ClientFrame ==
  ASSUME ClientsOK,
         \A u \in Txns : Occupying(u)' => /\ Occupying(u) /\ thread'[u] = thread[u]
                                          /\ level'[u] = level[u]
  PROVE  ClientsOK'
BY DEF ClientsOK, Here, Serial

\* The steps of the clients.
LEMMA ClientStep == ASSUME Disciplined, Inv, ClientsOK, Next PROVE ClientsOK'
<1>0. EpochOK /\ TxnFcns /\ TxnsOK
  BY TxnShape DEF Inv
<1>1. CASE Ticks \/ GCNext
  <2>1. UNCHANGED tvars
    BY <1>1, GCFacts DEF Ticks, Tick
  <2>2. QED
    BY <2>1, ClientFrame DEF tvars, Occupying
<1>2. ASSUME NEW t \in Txns, Alone(t), Occupying(t)' => Occupying(t) /\ thread'[t] = thread[t]
                                                    /\ level'[t] = level[t]
      PROVE  ClientsOK'
  <2>1. \A u \in Txns : Occupying(u)' => /\ Occupying(u) /\ thread'[u] = thread[u]
                                         /\ level'[u] = level[u]
    BY <1>2 DEF Alone, Occupying
  <2>2. QED
    BY <2>1, ClientFrame
<1>3. ASSUME NEW t \in Txns, Alone(t), pc[t] = "begin", thread'[t] \in Threads,
             level'[t] \in Levels, MayBegin(thread'[t], level'[t])
      PROVE  ClientsOK'
  <2> DEFINE me == thread'[t]
  <2>1. me \in Exclusive \/ level'[t] = "SERIALIZABLE"
    BY <1>3 DEF MayBegin, Disciplined
  <2>2. me \in Exclusive => \A u \in Txns : ~Here(u, me)
    BY <1>3 DEF MayBegin, Here, Occupying
  <2>3. \A u \in Txns \ {t} : /\ Occupying(u)' <=> Occupying(u)
                              /\ thread'[u] = thread[u] /\ level'[u] = level[u]
    BY <1>3 DEF Alone, Occupying
  <2>4. ASSUME NEW th \in Threads, NEW u \in Txns, Here(u, th)', th \in Exclusive,
               NEW w \in Txns, Here(w, th)'
        PROVE  w = u
    <3>1. CASE th = me
      BY <2>2, <2>3, <2>4, <3>1 DEF Here
    <3>2. CASE th # me
      <4>1. u # t /\ w # t
        BY <2>4, <3>2 DEF Here
      <4>2. Here(u, th) /\ Here(w, th)
        BY <2>3, <2>4, <4>1 DEF Here
      <4>3. QED
        BY <2>4, <4>2 DEF ClientsOK
    <3>3. QED
      BY <3>1, <3>2
  <2>5. ASSUME NEW th \in Threads, NEW u \in Txns, Here(u, th)', th \notin Exclusive
        PROVE  Serial(u)'
    <3>1. CASE u = t
      BY <2>1, <2>5, <3>1 DEF Here, Serial
    <3>2. CASE u # t
      <4>1. Here(u, th) /\ level'[u] = level[u]
        BY <2>3, <2>5, <3>2 DEF Here
      <4>2. QED
        BY <2>5, <4>1 DEF ClientsOK, Serial
    <3>3. QED
      BY <3>1, <3>2
  <2>6. QED
    BY <2>4, <2>5 DEF ClientsOK
<1>4. ASSUME NEW t \in Txns, Begin(t) PROVE ClientsOK'
  <2>1. CASE BeginSerializable(t)
    <3>1. level'[t] = "SERIALIZABLE"
      BY <1>0, <1>4, <2>1, BeginSerializableFacts DEF TxnsOK, TxnOK, Serial
    <3>2. QED
      BY <1>0, <1>3, <1>4, <2>1, <3>1, BeginSerializableFacts DEF Levels
  <2>2. CASE BeginSnapshot(t)
    BY <1>0, <1>3, <1>4, <2>2, BeginSnapshotFacts
  <2>3. CASE ~BeginSerializable(t) /\ ~BeginSnapshot(t)
    <3>1. /\ Alone(t) /\ pc[t] # "begin" /\ pc[t] # "ended" /\ thread'[t] = thread[t]
          /\ level'[t] = level[t]
      BY <1>0, <1>4, <2>3, EnterSnapshotFacts, SnapshotIdFacts, LoadEpochFacts,
         EnterEpochFacts, RetryEpochFacts DEF Begin, BeginNext
    <3>2. QED
      BY <1>2, <1>4, <3>1 DEF Occupying
  <2>4. QED
    BY <2>1, <2>2, <2>3
<1>5. ASSUME NEW t \in Txns, Commits(t) \/ EndExit(t) \/ Recycle(t) PROVE ClientsOK'
  <2>1. CASE Commits(t) \/ EndExit(t)
    BY <1>0, <1>2, <1>5, <2>1, CommitsFacts, EndExitFacts DEF Occupying
  <2>2. CASE Recycle(t)
    BY <1>0, <1>2, <1>5, <2>2, RecycleFacts DEF Occupying
  <2>3. QED
    BY <1>5, <2>1, <2>2
<1>6. QED
  BY <1>1, <1>4, <1>5, Steps

\* A context is not affected by steps that leave its transactions registered.
LEMMA CountFrame ==
  ASSUME Inv, ClientsOK, NEW th \in Threads, CountOK(th),
         \A u \in Txns : RegHere(u, th)' <=> RegHere(u, th),
         \A u \in Txns : RegHere(u, th) => /\ level'[u] = level[u]
                                           /\ Serial(u) => read_id'[u] = read_id[u],
         epochs'[th] \in {epochs[th], Trim(epochs[th])}
  PROVE  CountOK(th)'
<1> DEFINE q == epochs[th]
           r == epochs'[th]
<1>1. DOMAIN q \subseteq Int
  BY Widths DEF Inv, LocalOK, ContextOK, EpochOK
<1>2. /\ DOMAIN r \subseteq DOMAIN q /\ \A e \in DOMAIN r : r[e] = q[e]
      /\ \A e \in DOMAIN q : q[e] # 0 => e \in DOMAIN r
      /\ \A e : Count(r, e) = Count(q, e)
  BY <1>1, TrimFacts
<1>3. /\ \A u \in Txns : RegHere(u, th)' <=> RegHere(u, th)
      /\ \A u \in Txns : RegHere(u, th) => /\ Serial(u)' <=> Serial(u)
                                           /\ Serial(u) => read_id'[u] = read_id[u]
  BY DEF Serial
<1> HIDE DEF q, r
<1>4. CASE th \in Exclusive
  <2>1. OneOK(th)
    BY <1>4 DEF CountOK
  <2>2. (\A t \in Txns : ~RegHere(t, th)) => DOMAIN r = {}
    BY ONLY <1>2, <2>1 DEF OneOK, q
  <2>3. ASSUME NEW t \in Txns, RegHere(t, th)
        PROVE  \E e \in Nat : /\ DOMAIN r = {e} /\ r[e] = 1
                              /\ Serial(t) => e = EpochOf(read_id[t])
    <3>1. PICK e \in Nat : /\ DOMAIN q = {e} /\ q[e] = 1
                           /\ Serial(t) => e = EpochOf(read_id[t])
      BY ONLY <2>1, <2>3 DEF OneOK, q
    <3>2. DOMAIN r = {e} /\ r[e] = 1
      BY ONLY <1>2, <3>1
    <3>3. QED
      BY ONLY <3>1, <3>2
  <2>4. OneOK(th)'
    BY ONLY <1>3, <2>2, <2>3 DEF OneOK, r
  <2>5. QED
    BY <1>4, <2>4 DEF CountOK
<1>5. CASE th \notin Exclusive
  <2>1. SharedOK(th)
    BY <1>5 DEF CountOK
  <2>2. \A u \in Txns : RegHere(u, th) => Serial(u)
    BY <1>5, RegisteredRun DEF ClientsOK
  <2>3. ASSUME NEW e PROVE Mine(th, e)' = Mine(th, e)
    BY ONLY <1>3, <2>2 DEF Mine
  <2>4. SharedOK(th)'
    BY ONLY <1>2, <2>1, <2>3 DEF SharedOK, q, r
  <2>5. QED
    BY <1>5, <2>4 DEF CountOK
<1>6. QED
  BY <1>4, <1>5

\* A step of t leaves the registrations of the others alone.
LEMMA OtherRegs ==
  ASSUME NEW t \in Txns, Alone(t), NEW u \in Txns, u # t, NEW th
  PROVE  /\ RegHere(u, th)' <=> RegHere(u, th)
         /\ level'[u] = level[u] /\ read_id'[u] = read_id[u] /\ (Serial(u)' <=> Serial(u))
BY DEF Alone, RegHere, Registered, Serial

\* LocalEpoch::EnterEpoch counts one more.
LEMMA EnterCount ==
  ASSUME Inv, ClientsOK, NEW th \in Threads, CountOK(th), NEW t \in Txns, Alone(t),
         Here(t, th), ~RegHere(t, th), RegHere(t, th)', level'[t] = level[t],
         NEW e \in Nat, epochs'[th] = Counted(epochs[th], e),
         Serial(t) => EpochOf(read_id'[t]) = e
  PROVE  CountOK(th)'
<1> DEFINE q == epochs[th]
           r == epochs'[th]
<1>1. \A u \in Txns : u # t => (RegHere(u, th)' <=> RegHere(u, th)) /\ read_id'[u] = read_id[u]
  BY OtherRegs
<1>2. /\ DOMAIN r = DOMAIN q \cup {e}
      /\ \A d : Count(r, d) = Count(q, d) + (IF d = e THEN 1 ELSE 0) \/ d \notin DOMAIN q \cup {e}
      /\ \A d : d \notin DOMAIN q \cup {e} => Count(r, d) = 0 /\ Count(q, d) = 0
  BY DEF Counted, Count
<1>3. CASE th \in Exclusive
  <2>1. OneOK(th) /\ \A u \in Txns : Here(u, th) => u = t
    BY <1>3 DEF CountOK, ClientsOK
  <2>2. \A u \in Txns : ~RegHere(u, th)
    BY <2>1, RegisteredRun
  <2>3. DOMAIN q = {}
    BY <2>1, <2>2 DEF OneOK
  <2>4. DOMAIN r = {e} /\ r[e] = 1
    BY <2>3 DEF Counted
  <2>5. \A u \in Txns : RegHere(u, th)' => u = t
    BY <1>1, <2>2
  <2>6. Serial(t)' => EpochOf(read_id'[t]) = e
    BY DEF Serial
  <2>7. OneOK(th)'
    BY <2>4, <2>5, <2>6 DEF OneOK
  <2>8. QED
    BY <1>3, <2>7 DEF CountOK
<1>4. CASE th \notin Exclusive
  <2>1. SharedOK(th) /\ Serial(t)
    BY <1>4 DEF CountOK, ClientsOK
  <2>2. EpochOf(read_id'[t]) = e
    BY <2>1
  <2>3. ASSUME NEW d \in Nat PROVE Count(r, d) = Cardinality(Mine(th, d)')
    <3>0. Count(q, d) = Cardinality(Mine(th, d)) /\ IsFiniteSet(Mine(th, d))
      <4>1. Mine(th, d) \subseteq Txns /\ IsFiniteSet(Txns)
        BY Widths DEF Mine
      <4>2. QED
        BY <2>1, <2>3, <4>1, FS_Subset DEF SharedOK
    <3>1. Cardinality(Mine(th, d)) \in Nat
      BY <3>0, FS_CardinalityType
    <3>2. CASE d = e
      <4>1. Mine(th, d)' = Mine(th, d) \cup {t} /\ t \notin Mine(th, d)
        BY <1>1, <2>2, <3>2 DEF Mine
      <4>2. Cardinality(Mine(th, d)') = Cardinality(Mine(th, d)) + 1
        BY <3>0, <4>1, FS_AddElement
      <4>3. Count(r, d) = Count(q, d) + 1
        BY <1>2, <3>2
      <4>4. QED
        BY <3>0, <4>2, <4>3
    <3>3. CASE d # e
      <4>1. Mine(th, d)' = Mine(th, d)
        BY <1>1, <2>2, <3>3 DEF Mine
      <4>2. Count(r, d) = Count(q, d)
        BY <1>2, <3>0, <3>1, <3>3
      <4>3. QED
        BY <3>0, <4>1, <4>2
    <3>4. QED
      BY <3>2, <3>3
  <2>4. SharedOK(th)'
    BY <2>3 DEF SharedOK
  <2>5. QED
    BY <1>4, <2>4 DEF CountOK
<1>5. QED
  BY <1>3, <1>4

\* LocalEpoch::ExitEpoch counts one less.
LEMMA ExitCount ==
  ASSUME Inv, ClientsOK, NEW th \in Threads, CountOK(th), NEW t \in Txns, Alone(t),
         RegHere(t, th), ~RegHere(t, th)',
         NEW e, e = EpochOf(read_id[t]), e \in DOMAIN epochs[th],
         epochs'[th] = Exited(epochs[th], e)
  PROVE  CountOK(th)'
<1> DEFINE q == epochs[th]
           p == [q EXCEPT ![e] = @ - 1]
           r == epochs'[th]
<1>1. \A u \in Txns : u # t => (RegHere(u, th)' <=> RegHere(u, th)) /\ read_id'[u] = read_id[u]
  BY OtherRegs
<1>2. DOMAIN q \subseteq Int
  BY Widths DEF Inv, LocalOK, ContextOK, EpochOK
<1>3. /\ DOMAIN p = DOMAIN q /\ p[e] = q[e] - 1 /\ \A d \in DOMAIN q : d # e => p[d] = q[d]
      /\ r = Trim(p)
  BY DEF Exited
<1>4. Here(t, th)
  BY RegisteredRun
<1>5. CASE th \in Exclusive
  <2>1. OneOK(th) /\ \A u \in Txns : Here(u, th) => u = t
    BY <1>4, <1>5 DEF CountOK, ClientsOK
  <2>2. \A u \in Txns : ~RegHere(u, th)'
    BY <1>1, <2>1, RegisteredRun
  <2>3. DOMAIN q = {e} /\ q[e] = 1
    BY <2>1 DEF OneOK
  <2>4. DOMAIN p = {e} /\ p[e] = 0
    BY ONLY <1>3, <2>3
  <2>5. DOMAIN r = {}
    BY ONLY <1>3, <2>4 DEF Trim
  <2>6. OneOK(th)'
    BY <2>2, <2>5 DEF OneOK
  <2>7. QED
    BY <1>5, <2>6 DEF CountOK
<1>6. CASE th \notin Exclusive
  <2>1. SharedOK(th)
    BY <1>6 DEF CountOK
  <2>2. ASSUME NEW d \in Nat PROVE Count(r, d) = Cardinality(Mine(th, d)')
    <3>0. Count(q, d) = Cardinality(Mine(th, d)) /\ IsFiniteSet(Mine(th, d))
      <4>1. Mine(th, d) \subseteq Txns /\ IsFiniteSet(Txns)
        BY Widths DEF Mine
      <4>2. QED
        BY <2>1, <2>2, <4>1, FS_Subset DEF SharedOK
    <3>1. Count(r, d) = Count(p, d)
      <4>1. DOMAIN p \subseteq Int
        BY ONLY <1>2, <1>3
      <4>2. QED
        BY <1>3, <4>1, TrimFacts
    <3>2. CASE d = e
      <4>1. Mine(th, d)' = Mine(th, d) \ {t} /\ t \in Mine(th, d)
        BY <1>1, <3>2 DEF Mine
      <4>2. Cardinality(Mine(th, d)') = Cardinality(Mine(th, d)) - 1
        BY <3>0, <4>1, FS_RemoveElement
      <4>3. Count(p, d) = Count(q, d) - 1
        BY <1>3, <3>2 DEF Count
      <4>4. QED
        BY <3>0, <3>1, <4>2, <4>3
    <3>3. CASE d # e
      <4>1. Mine(th, d)' = Mine(th, d)
        BY <1>1, <3>3 DEF Mine
      <4>2. Count(p, d) = Count(q, d)
        BY <1>3, <3>3 DEF Count
      <4>3. QED
        BY <3>0, <3>1, <4>1, <4>2
    <3>4. QED
      BY <3>2, <3>3
  <2>3. SharedOK(th)'
    BY <2>2 DEF SharedOK
  <2>4. QED
    BY <1>6, <2>3 DEF CountOK
<1>7. QED
  BY <1>5, <1>6

\* The steps of the contexts keep count.
LEMMA CountStep == ASSUME Inv, CountsOK, Next PROVE \A th \in Threads : CountOK(th)'
<1>0. EpochOK /\ LocalOK /\ TxnFcns /\ TxnsOK /\ ClientsOK /\ current \in Epochs
  BY TxnShape DEF Inv, CountsOK, EpochOK
<1>1. TAKE th \in Threads
<1>2. CountOK(th)
  BY DEF CountsOK
<1>3. CASE Ticks \/ GCNext
  <2>1. UNCHANGED tvars
    BY <1>3, GCFacts DEF Ticks, Tick
  <2>2. epochs'[th] \in {epochs[th], Trim(epochs[th])}
    <3>1. CASE UNCHANGED lvars
      BY <3>1 DEF lvars
    <3>2. ASSUME NEW o \in Threads, GCAsk(o) PROVE epochs'[th] \in {epochs[th], Trim(epochs[th])}
      BY <1>0, <3>2 DEF GCAsk, AskLocal, LocalOK
    <3>3. QED
      BY <1>3, <3>1, <3>2, GCFacts DEF Ticks, Tick
  <2>3. \A u \in Txns : /\ RegHere(u, th)' <=> RegHere(u, th)
                        /\ level'[u] = level[u] /\ read_id'[u] = read_id[u]
    BY <2>1 DEF tvars, RegHere, Registered
  <2>4. QED
    BY <1>0, <1>2, <2>2, <2>3, CountFrame
<1>4. ASSUME NEW t \in Txns, Alone(t), RegHere(t, th)' <=> RegHere(t, th),
             RegHere(t, th) => level'[t] = level[t] /\ (Serial(t) => read_id'[t] = read_id[t]),
             epochs'[th] = epochs[th]
      PROVE  CountOK(th)'
  <2>1. \A u \in Txns : /\ RegHere(u, th)' <=> RegHere(u, th)
                        /\ RegHere(u, th) => /\ level'[u] = level[u]
                                             /\ Serial(u) => read_id'[u] = read_id[u]
    BY <1>4, OtherRegs
  <2>2. QED
    BY <1>0, <1>2, <1>4, <2>1, CountFrame
<1>5. ASSUME NEW t \in Txns, Begin(t) PROVE CountOK(th)'
  <2>0. TxnOK(t)
    BY <1>0 DEF TxnsOK
  <2>1. CASE BeginSerializable(t) \/ BeginSnapshot(t)
    <3>1. /\ Alone(t) /\ pc[t] = "begin" /\ pc'[t] \in {"snap", "enter"} /\ UNCHANGED lvars
          /\ pc'[t] = "enter" => level'[t] = level[t]
      BY <1>0, <2>1, BeginSerializableFacts, BeginSnapshotFacts
    <3>2. ~RegHere(t, th) /\ ~RegHere(t, th)'
      BY <2>0, <3>1 DEF RegHere, Registered, TxnOK, Serial
    <3>3. QED
      BY <1>4, <3>1, <3>2 DEF lvars
  <2>2. CASE EnterSnapshot(t) \/ (EnterEpoch(t) /\ Serial(t))
    <3>1. PICK type \in {"SNAPSHOT_READ", "READ"} :
            /\ LocalEnter(thread[t], loaded[t], type)
            /\ Alone(t) /\ level'[t] = level[t] /\ thread'[t] = thread[t]
            /\ pc[t] \in {"snap", "enter"} /\ pc'[t] \in {"snapid", "active"}
            /\ pc[t] = "enter" => Serial(t)
      BY <1>0, <2>2, EnterSnapshotFacts, EnterEpochFacts DEF EntryType, Serial
    <3>2. Serial(t) => EpochOf(read_id'[t]) = loaded[t]
      <4>1. Serial(t) => pc[t] = "enter"
        BY <2>0, <3>1 DEF TxnOK
      <4>2. Serial(t) => read_id'[t] = Cid(loaded[t], next_txn_id)
        BY <1>0, <2>2, <4>1, EnterEpochFacts, EnterSnapshotFacts DEF Serial
      <4>3. loaded[t] \in 0..MaxEpoch /\ next_txn_id \in 0..CidWidth - 1
        BY <1>0, EpochNumbers DEF EpochOK
      <4>4. QED
        BY <4>2, <4>3, CidOfEpoch
    <3>3. thread[t] \in Threads /\ loaded[t] \in 1..current /\ loaded[t] \in Nat
      BY <1>0, <2>0, <3>1, EpochNumbers DEF TxnsOK, TxnOK
    <3>4. /\ epochs'[thread[t]] = Counted(epochs[thread[t]], loaded[t])
          /\ th # thread[t] => epochs'[th] = epochs[th]
      BY <1>0, <3>1, <3>3, EnterFacts DEF Entered
    <3>5. Here(t, thread[t]) /\ ~RegHere(t, thread[t]) /\ RegHere(t, thread[t])'
      BY <3>1 DEF Here, Occupying, RegHere, Registered, Serial
    <3>6. CASE th = thread[t]
      BY <1>0, <1>2, <3>1, <3>2, <3>3, <3>4, <3>5, <3>6, EnterCount
    <3>7. CASE th # thread[t]
      <4>1. ~RegHere(t, th) /\ ~RegHere(t, th)'
        BY <3>1, <3>7 DEF RegHere
      <4>2. QED
        BY <1>4, <3>1, <3>4, <3>7, <4>1
    <3>8. QED
      BY <3>6, <3>7
  <2>3. CASE EnterEpoch(t) /\ ~Serial(t)
    <3>1. /\ Alone(t) /\ level'[t] = level[t] /\ thread'[t] = thread[t]
          /\ pc[t] = "enter" /\ pc'[t] = "active" /\ LocalEnter(thread[t], loaded[t], EntryType(t))
      BY <1>0, <2>3, EnterEpochFacts
    <3>2. level[t] = "SNAPSHOT"
      BY <1>0, <2>0, <2>3, <3>1, TxnNumbers DEF TxnOK, Serial, Levels
    <3>3. epochs'[th] = epochs[th]
      <4>1. thread[t] \in Threads /\ loaded[t] \in 1..current
        BY <1>0, <2>0, <3>1, EpochNumbers DEF TxnsOK, TxnOK
      <4>2. EntryType(t) = "COMMIT"
        BY <3>2 DEF EntryType
      <4>3. QED
        BY <1>0, <3>1, <4>1, <4>2, EnterFacts DEF Entered
    <3>4. RegHere(t, th)' <=> RegHere(t, th)
      BY <3>1, <3>2 DEF RegHere, Registered
    <3>5. QED
      BY <1>4, <2>3, <3>1, <3>3, <3>4
  <2>4. CASE SnapshotId(t)
    <3>1. /\ Alone(t) /\ level'[t] = level[t] /\ thread'[t] = thread[t] /\ pc[t] = "snapid"
          /\ pc'[t] = IF level[t] = "SNAPSHOT" THEN "load" ELSE "active"
          /\ UNCHANGED lvars
      BY <1>0, <2>4, SnapshotIdFacts
    <3>2. ~Serial(t)
      BY <2>0, <3>1 DEF TxnOK
    <3>3. RegHere(t, th)' <=> RegHere(t, th)
      BY <3>1 DEF RegHere, Registered
    <3>4. QED
      BY <1>4, <3>1, <3>2, <3>3 DEF lvars
  <2>5. CASE LoadEpoch(t) \/ RetryEpoch(t)
    <3>1. /\ Alone(t) /\ level'[t] = level[t] /\ thread'[t] = thread[t]
          /\ pc[t] \in {"load", "enter"} /\ pc'[t] \in {"load", "enter"}
          /\ read_id'[t] = read_id[t] /\ UNCHANGED lvars
      BY <1>0, <2>5, LoadEpochFacts, RetryEpochFacts
    <3>2. RegHere(t, th)' <=> RegHere(t, th)
      BY <3>1 DEF RegHere, Registered
    <3>3. QED
      BY <1>4, <3>1, <3>2 DEF lvars
  <2>6. QED
    BY <1>5, <2>1, <2>2, <2>3, <2>4, <2>5 DEF Begin, BeginNext
<1>6. ASSUME NEW t \in Txns, Commits(t) \/ Recycle(t) PROVE CountOK(th)'
  <2>1. CASE Commits(t)
    <3>1. /\ Alone(t) /\ pc[t] = "active" /\ pc'[t] = "exit" /\ level' = level
          /\ thread' = thread /\ read_id' = read_id /\ UNCHANGED lvars
      BY <1>0, <2>1, CommitsFacts
    <3>2. RegHere(t, th)' <=> RegHere(t, th)
      BY <3>1 DEF RegHere, Registered
    <3>3. QED
      BY <1>4, <3>1, <3>2 DEF lvars
  <2>2. CASE Recycle(t)
    <3>1. Alone(t) /\ pc[t] = "recycle" /\ pc'[t] = "ended" /\ UNCHANGED lvars
      BY <1>0, <2>2, RecycleFacts
    <3>2. ~RegHere(t, th)' /\ ~RegHere(t, th)
      BY <3>1 DEF RegHere, Registered
    <3>3. QED
      BY <1>4, <3>1, <3>2 DEF lvars
  <2>3. QED
    BY <1>6, <2>1, <2>2
<1>7. ASSUME NEW t \in Txns, EndExit(t) PROVE CountOK(th)'
  <2>1. /\ Alone(t) /\ pc[t] = "exit" /\ pc'[t] = "recycle" /\ thread' = thread
        /\ LocalExit(thread[t], EpochOf(read_id[t])) /\ thread[t] \in Threads
    BY <1>0, <1>7, EndExitFacts DEF TxnsOK
  <2>2. /\ EpochOf(read_id[t]) \in DOMAIN epochs[thread[t]]
        /\ epochs'[thread[t]] = Exited(epochs[thread[t]], EpochOf(read_id[t]))
        /\ th # thread[t] => epochs'[th] = epochs[th]
    BY <1>0, <2>1, ExitFacts
  <2>3. RegHere(t, thread[t]) /\ \A o : ~RegHere(t, o)'
    BY <2>1 DEF RegHere, Registered
  <2>4. CASE th = thread[t]
    BY <1>0, <1>2, <2>1, <2>2, <2>3, <2>4, ExitCount
  <2>5. CASE th # thread[t]
    <3>1. ~RegHere(t, th)
      BY <2>5 DEF RegHere
    <3>2. QED
      BY <1>4, <2>1, <2>2, <2>3, <2>5, <3>1
  <2>6. QED
    BY <2>4, <2>5
<1>8. QED
  BY <1>3, <1>5, <1>6, <1>7, Steps

-----------------------------------------------------------------------------
(* Disciplined clients: what the collector knows.                          *)

\* A registered transaction is counted by its context.
LEMMA RegisteredHolds ==
  ASSUME Inv, CountsOK, NEW t \in Registered
  PROVE  /\ \E e \in Nat : Holds(t, e) /\ e <= current
         /\ Serial(t) => Holds(t, EpochOf(read_id[t]))
<1> DEFINE th == thread[t]
           q == epochs[th]
<1>1. t \in Txns /\ th \in Threads /\ RegHere(t, th) /\ Here(t, th)
  BY RegisteredRun DEF Registered, RegHere, Inv, TxnsOK
<1>2. EpochOf(read_id[t]) \in Nat /\ EpochOf(read_id[t]) <= current
  BY <1>1, TxnNumbers DEF Inv, TxnOK
<1>3. DOMAIN q \subseteq 1..current /\ ClientsOK /\ CountOK(th)
  BY <1>1 DEF Inv, LocalOK, ContextOK, CountsOK
<1>4. CASE th \in Exclusive
  <2>1. PICK e \in Nat : DOMAIN q = {e} /\ q[e] = 1 /\ (Serial(t) => e = EpochOf(read_id[t]))
    BY <1>1, <1>3, <1>4 DEF CountOK, OneOK
  <2>2. Holds(t, e) /\ e <= current
    <3>1. e \in 1..current
      BY ONLY <1>3, <2>1
    <3>2. QED
      BY <2>1, <3>1 DEF Holds
  <2>3. QED
    BY <2>1, <2>2
<1>5. CASE th \notin Exclusive
  <2> DEFINE e == EpochOf(read_id[t])
             S == Mine(th, e)
  <2>1. t \in S /\ S \subseteq Txns
    BY <1>1 DEF Mine
  <2>2. IsFiniteSet(S)
    BY <2>1, Widths, FS_Subset
  <2>3. Cardinality(S) # 0
    BY <2>1, <2>2, FS_EmptySet
  <2>4. Count(q, e) = Cardinality(S)
    BY <1>2, <1>3, <1>5 DEF CountOK, SharedOK
  <2>5. Holds(t, e)
    BY <2>3, <2>4 DEF Holds, Count
  <2>6. QED
    BY <1>2, <2>5
<1>6. QED
  BY <1>4, <1>5

\* The same, for the next state.
LEMMA RegisteredHoldsNext ==
  Inv' /\ CountsOK' => (\A t \in Registered : \E e \in Nat : Holds(t, e))'
<1>1. Inv /\ CountsOK => \A t \in Registered : \E e \in Nat : Holds(t, e)
  BY RegisteredHolds
<1>2. QED
  BY <1>1, PTL

\* A transaction stays registered until ExitEpoch.
LEMMA RegisteredStay ==
  ASSUME Inv, Next, NEW t \in Registered
  PROVE  \/ EndExit(t)
         \/ /\ t \in Registered' /\ thread'[t] = thread[t] /\ level'[t] = level[t]
            /\ Serial(t) => read_id'[t] = read_id[t]
<1>0. EpochOK /\ TxnFcns /\ TxnsOK /\ t \in Txns /\ TxnOK(t)
  BY TxnShape DEF Inv, Registered, TxnsOK
<1>1. CASE Ticks \/ GCNext
  <2>1. UNCHANGED tvars
    BY <1>1, GCFacts DEF Ticks, Tick
  <2>2. QED
    BY <2>1 DEF tvars, Registered
<1>2. ASSUME NEW u \in Txns, Alone(u), u # t
      PROVE  /\ t \in Registered' /\ thread'[t] = thread[t] /\ level'[t] = level[t]
             /\ read_id'[t] = read_id[t]
  BY <1>0, <1>2 DEF Alone, Registered
<1>3. ASSUME Begin(t)
      PROVE  /\ t \in Registered' /\ thread'[t] = thread[t] /\ level'[t] = level[t]
             /\ Serial(t) => read_id'[t] = read_id[t]
  <2>1. CASE SnapshotId(t)
    BY <1>0, <2>1, SnapshotIdFacts DEF Registered, TxnOK
  <2>2. CASE LoadEpoch(t) \/ RetryEpoch(t)
    BY <1>0, <2>2, LoadEpochFacts, RetryEpochFacts DEF Registered
  <2>3. CASE EnterEpoch(t)
    BY <1>0, <2>3, EnterEpochFacts DEF Registered, Serial
  <2>4. CASE BeginSerializable(t) \/ BeginSnapshot(t) \/ EnterSnapshot(t)
    BY <1>0, <2>4, BeginSerializableFacts, BeginSnapshotFacts, EnterSnapshotFacts
       DEF Registered
  <2>5. QED
    BY <1>3, <2>1, <2>2, <2>3, <2>4 DEF Begin, BeginNext
<1>4. ASSUME NEW u \in Txns, Begin(u) PROVE Alone(u)
  BY <1>0, <1>4, BeginSerializableFacts, BeginSnapshotFacts, EnterSnapshotFacts,
     SnapshotIdFacts, LoadEpochFacts, EnterEpochFacts, RetryEpochFacts DEF Begin, BeginNext
<1>5. ASSUME NEW u \in Txns, Commits(u) \/ EndExit(u) \/ Recycle(u) PROVE Alone(u)
  BY <1>0, <1>5, CommitsFacts, EndExitFacts, RecycleFacts
<1>6. ASSUME Commits(t)
      PROVE  /\ t \in Registered' /\ thread'[t] = thread[t] /\ level'[t] = level[t]
             /\ read_id'[t] = read_id[t]
  BY <1>0, <1>6, CommitsFacts DEF Registered
<1>7. ~Recycle(t)
  BY <1>0, RecycleFacts DEF Registered
<1>8. QED
  BY <1>0, <1>1, <1>2, <1>3, <1>4, <1>5, <1>6, <1>7, Steps

\* Where a context counts somebody, it goes on doing so.
LEMMA HoldsStep ==
  ASSUME Inv, CountsOK, Next, Inv', CountsOK', NEW t \in Registered, ~EndExit(t),
         NEW e, Holds(t, e)
  PROVE  Holds(t, e)'
<1> DEFINE th == thread[t]
<1>0. EpochOK /\ LocalOK /\ TxnFcns /\ TxnsOK /\ ClientsOK /\ t \in Txns /\ th \in Threads
      /\ RegHere(t, th) /\ Here(t, th) /\ current \in Epochs
  BY TxnShape, RegisteredRun DEF Inv, CountsOK, Registered, RegHere, TxnsOK, EpochOK
<1>1. /\ t \in Registered' /\ thread'[t] = th /\ level'[t] = level[t]
      /\ Serial(t) => read_id'[t] = read_id[t]
  BY RegisteredStay
<1>2. \E d \in Nat : Holds(t, d)'
  BY <1>1, RegisteredHoldsNext
<1>3. CASE Serial(t)
  <2>1. e = EpochOf(read_id[t])
    BY <1>3 DEF Holds
  <2>2. PICK d \in Nat : Holds(t, d)'
    BY <1>2
  <2>3. d = e
    BY <1>1, <1>3, <2>1, <2>2 DEF Holds, Serial
  <2>4. QED
    BY <2>2, <2>3
<1>4. CASE ~Serial(t)
  <2>0. th \in Exclusive /\ \A u \in Txns : Here(u, th) => u = t
    BY <1>0, <1>4 DEF ClientsOK
  <2>1. DOMAIN epochs'[th] \subseteq DOMAIN epochs[th]
    <3>1. CASE epochs'[th] \in {epochs[th], Trim(epochs[th])}
      BY <3>1, TrimFacts
    <3>2. CASE Ticks \/ GCNext
      <4>1. CASE UNCHANGED lvars
        BY <3>1, <4>1 DEF lvars
      <4>2. ASSUME NEW o \in Threads, GCAsk(o)
            PROVE  epochs'[th] \in {epochs[th], Trim(epochs[th])}
        BY <1>0, <4>2 DEF GCAsk, AskLocal, LocalOK
      <4>3. QED
        BY <3>1, <3>2, <4>1, <4>2, GCFacts DEF Ticks, Tick
    <3>3. ASSUME NEW u \in Txns, Begin(u) PROVE epochs'[th] = epochs[th]
      <4>1. CASE EnterSnapshot(u) \/ EnterEpoch(u)
        <5>1. PICK type : /\ LocalEnter(thread[u], loaded[u], type)
                          /\ pc[u] \in {"snap", "enter"}
                          /\ pc[u] = "enter" => type = EntryType(u)
          BY <1>0, <4>1, EnterSnapshotFacts, EnterEpochFacts
        <5>2. thread[u] \in Threads /\ loaded[u] \in 1..current
          BY <1>0, <5>1, EpochNumbers DEF TxnsOK, TxnOK
        <5>3. thread[u] = th => u = t
          BY <2>0, <5>1 DEF Here, Occupying
        <5>4. CASE thread[u] = th
          <6>1. pc[u] = "enter" /\ type = "COMMIT"
            BY <5>1, <5>3, <5>4 DEF Registered, EntryType
          <6>2. QED
            BY <1>0, <5>1, <5>2, <5>4, <6>1, EnterFacts DEF Entered
        <5>5. CASE thread[u] # th
          BY <1>0, <5>1, <5>2, <5>5, EnterFacts
        <5>6. QED
          BY <5>4, <5>5
      <4>2. CASE ~EnterSnapshot(u) /\ ~EnterEpoch(u)
        BY <1>0, <3>3, <4>2, BeginSerializableFacts, BeginSnapshotFacts, SnapshotIdFacts,
           LoadEpochFacts, RetryEpochFacts DEF Begin, BeginNext, lvars
      <4>3. QED
        BY <4>1, <4>2
    <3>4. ASSUME NEW u \in Txns, EndExit(u) PROVE epochs'[th] = epochs[th]
      <4>1. /\ pc[u] = "exit" /\ LocalExit(thread[u], EpochOf(read_id[u]))
            /\ thread[u] \in Threads
        BY <1>0, <3>4, EndExitFacts DEF TxnsOK
      <4>2. thread[u] # th
        BY <2>0, <3>4, <4>1 DEF Here, Occupying
      <4>3. QED
        BY <1>0, <4>1, <4>2, ExitFacts
    <3>5. ASSUME NEW u \in Txns, Commits(u) \/ Recycle(u) PROVE epochs'[th] = epochs[th]
      BY <1>0, <3>5, CommitsFacts, RecycleFacts DEF lvars
    <3>6. QED
      BY <3>1, <3>2, <3>3, <3>4, <3>5, Steps
  <2>2. PICK d \in Nat : DOMAIN epochs[th] = {d}
    BY <1>0, <2>0 DEF CountsOK, CountOK, OneOK
  <2>3. PICK c \in Nat : Holds(t, c)'
    BY <1>2
  <2>4. c = e
    BY <1>1, <2>1, <2>2, <2>3 DEF Holds
  <2>5. QED
    BY <2>3, <2>4
<1>5. QED
  BY <1>3, <1>4

\* While t is on its way into a context, the other transactions do not lower
\* the bound of that context.
LEMMA LowerStep ==
  ASSUME Inv, ClientsOK, NEW t \in Txns, Serial(t), pc[t] = "enter", Shut(t),
         NEW u \in Txns, u # t, Begin(u) \/ Commits(u) \/ EndExit(u) \/ Recycle(u)
  PROVE  Shut(t)'
<1> DEFINE th == thread[t]
<1>0. EpochOK /\ LocalOK /\ TxnFcns /\ TxnsOK /\ TxnOK(u) /\ th \in Threads /\ current \in Epochs
      /\ thread[u] \in Threads /\ Here(t, th)
  BY TxnShape DEF Inv, TxnsOK, EpochOK, Here, Occupying
<1>1. loaded[t] \in Nat /\ lower[th] \in Nat /\ MAX_EID \in Nat /\ loaded[u] \in 0..current
  BY <1>0, EpochNumbers, Widths DEF LocalOK
<1>2. loaded[t] <= lower[th] /\ lower[th] # MAX_EID
  BY DEF Shut
<1>3. ASSUME Alone(u), lower'[th] = lower[th] PROVE Shut(t)'
  BY <1>0, <1>2, <1>3 DEF Alone, Shut
<1>4. ASSUME Alone(u), UNCHANGED lvars PROVE Shut(t)'
  BY <1>3, <1>4 DEF lvars
<1>5. CASE Begin(u)
  <2>1. CASE EnterSnapshot(u) \/ EnterEpoch(u)
    <3>1. PICK type : /\ LocalEnter(thread[u], loaded[u], type) /\ Alone(u)
                      /\ pc[u] \in {"snap", "enter"} /\ loaded[u] \in 1..current
                      /\ pc[u] = "enter" => type = EntryType(u)
      <4>1. pc[u] \in {"snap", "enter"}
        BY <1>0, <2>1, EnterSnapshotFacts, EnterEpochFacts
      <4>2. loaded[u] \in 1..current
        BY <1>0, <1>1, <4>1, EpochNumbers DEF TxnOK
      <4>3. QED
        BY <1>0, <2>1, <4>1, <4>2, EnterSnapshotFacts, EnterEpochFacts
    <3>2. CASE thread[u] = th
      <4>1. th \notin Exclusive /\ Serial(u)
        BY <1>0, <3>1, <3>2 DEF ClientsOK, Here, Occupying
      <4>2. pc[u] = "enter" /\ type = "READ"
        BY <1>0, <3>1, <4>1 DEF TxnOK, EntryType, Serial
      <4>3. ~(lower[th] >= loaded[u])
        BY <1>2, <3>1, <3>2, <4>2 DEF LocalEnter, Refused
      <4>4. lower'[th] = lower[th]
        BY <1>0, <3>1, <3>2, <4>3, EnterFacts
      <4>5. QED
        BY <1>3, <3>1, <4>4
    <3>3. CASE thread[u] # th
      BY <1>0, <1>3, <3>1, <3>3, EnterFacts
    <3>4. QED
      BY <3>2, <3>3
  <2>2. CASE ~EnterSnapshot(u) /\ ~EnterEpoch(u)
    BY <1>0, <1>4, <1>5, <2>2, BeginSerializableFacts, BeginSnapshotFacts, SnapshotIdFacts,
       LoadEpochFacts, RetryEpochFacts DEF Begin, BeginNext
  <2>3. QED
    BY <2>1, <2>2
<1>6. CASE Commits(u) \/ Recycle(u)
  BY <1>0, <1>4, <1>6, CommitsFacts, RecycleFacts
<1>7. CASE EndExit(u)
  <2>1. Alone(u) /\ LocalExit(thread[u], EpochOf(read_id[u]))
    BY <1>0, <1>7, EndExitFacts
  <2>2. CASE thread[u] = th
    <3>1. lower'[th] # MAX_EID /\ lower[th] <= lower'[th] /\ lower' \in [Threads -> 0..MAX_EID]
      BY <1>0, <2>1, <2>2, ExitFacts
    <3>2. lower'[th] \in Nat
      BY <1>0, <1>1, <3>1
    <3>3. loaded'[t] = loaded[t] /\ thread'[t] = th
      BY <2>1 DEF Alone
    <3>4. QED
      BY <1>1, <1>2, <3>1, <3>2, <3>3 DEF Shut
  <2>3. CASE thread[u] # th
    BY <1>0, <1>3, <2>1, <2>3, ExitFacts
  <2>4. QED
    BY <2>2, <2>3
<1>8. QED
  BY <1>5, <1>6, <1>7

\* Who is barred from an epoch that is over stays so.  The collector may open
\* a context again, but only for the epochs from the one that it has seen.
LEMMA BarredStep ==
  ASSUME Inv, ClientsOK, Next, NEW t \in Txns, NEW x \in Nat, Barred(t, x), x < current,
         GCAsk(thread[t]) => x < seen
  PROVE  Barred(t, x)'
<1> DEFINE th == thread[t]
<1>0. EpochOK /\ LocalOK /\ TxnFcns /\ TxnsOK /\ TxnOK(t) /\ th \in Threads /\ current \in Epochs
  BY TxnShape DEF Inv, TxnsOK, EpochOK
<1>1. /\ loaded[t] \in Nat /\ lower[th] \in Nat /\ MAX_EID \in Nat /\ loaded[t] \in 0..MaxEpoch
      /\ seen \in Nat /\ current \in Nat
  BY <1>0, EpochNumbers, Widths DEF LocalOK, EpochOK
<1>2. ASSUME UNCHANGED tvars, UNCHANGED lvars PROVE Barred(t, x)'
  BY <1>2 DEF Barred, Shut, Serial, tvars, lvars
<1>3. ASSUME NEW o \in Threads, GCAsk(o), UNCHANGED tvars PROVE Barred(t, x)'
  <2>1. /\ seen \in 1..current /\ DOMAIN epochs = Threads
        /\ lower' = [lower EXCEPT ![o] = LocalExpired(o, seen)]
        /\ epochs' = [epochs EXCEPT ![o] = Trim(@)]
    BY <1>0, <1>1, <1>3 DEF GCAsk, AskLocal, LocalOK, EpochOK
  <2>2. CASE o # th
    <3>1. lower'[th] = lower[th]
      BY <1>0, <2>1, <2>2, AskFacts
    <3>2. QED
      BY <1>3, <3>1 DEF Barred, Shut, Serial, tvars
  <2>3. CASE o = th
    <3>0. x < seen
      BY <1>3, <2>3
    <3>1. PICK b : /\ lower'[th] = b /\ b \in 0..MAX_EID /\ b < MAX_EID
                   /\ lower[th] # MAX_EID => lower[th] <= b \/ seen - 1 = b
      BY <1>0, <2>1, <2>3, AskFacts
    <3>2. x < loaded[t] \/ Shut(t) => x < loaded[t] \/ (loaded[t] <= b /\ b # MAX_EID)
      <4>1. b \in Nat /\ b # MAX_EID
        BY <1>1, <3>1
      <4>2. QED
        BY ONLY <1>1, <3>0, <3>1, <4>1, x \in Nat DEF Shut
    <3>3. QED
      BY <1>3, <3>1, <3>2 DEF Barred, Shut, Serial, tvars
  <2>4. QED
    BY <2>2, <2>3
<1>4. ASSUME NEW u \in Txns, u # t, Begin(u) \/ Commits(u) \/ EndExit(u) \/ Recycle(u)
      PROVE  Barred(t, x)'
  <2>1. Alone(u)
    BY <1>0, <1>4, BeginSerializableFacts, BeginSnapshotFacts, EnterSnapshotFacts,
       SnapshotIdFacts, LoadEpochFacts, EnterEpochFacts, RetryEpochFacts, CommitsFacts,
       EndExitFacts, RecycleFacts DEF Begin, BeginNext
  <2>2. Serial(t) /\ pc[t] = "enter" /\ Shut(t) => Shut(t)'
    BY <1>4, LowerStep
  <2>3. /\ pc'[t] = pc[t] /\ level'[t] = level[t] /\ loaded'[t] = loaded[t]
        /\ read_id'[t] = read_id[t]
    BY <1>4, <2>1 DEF Alone
  <2>4. QED
    BY <2>2, <2>3 DEF Barred, Serial
<1>5. CASE BeginSerializable(t) \/ LoadEpoch(t)
  BY <1>0, <1>5, BeginSerializableFacts, LoadEpochFacts DEF Barred
<1>6. CASE EnterEpoch(t)
  <2>1. /\ LocalEnter(th, loaded[t], EntryType(t)) /\ pc[t] = "enter" /\ pc'[t] = "active"
        /\ level'[t] = level[t]
        /\ Serial(t) => read_id'[t] = Cid(loaded[t], next_txn_id)
    BY <1>0, <1>6, EnterEpochFacts DEF Serial
  <2>2. EpochOf(Cid(loaded[t], next_txn_id)) = loaded[t]
    BY <1>0, <1>1, CidOfEpoch DEF EpochOK
  <2>3. ~Shut(t)
    BY <1>1, <2>1 DEF LocalEnter, Refused, Shut, EntryType
  <2>4. QED
    BY <2>1, <2>2, <2>3 DEF Barred, Serial
<1>7. CASE BeginSnapshot(t) \/ EnterSnapshot(t) \/ SnapshotId(t)
  BY <1>0, <1>7, BeginSnapshotFacts, EnterSnapshotFacts, SnapshotIdFacts DEF Barred, TxnOK, Serial
<1>8. CASE RetryEpoch(t) \/ EndExit(t) \/ Recycle(t)
  BY <1>0, <1>8, RetryEpochFacts, EndExitFacts, RecycleFacts DEF Barred
<1>9. CASE Commits(t)
  BY <1>0, <1>9, CommitsFacts DEF Barred, Serial
<1>10. CASE Ticks \/ GCNext
  <2>1. UNCHANGED tvars /\ (UNCHANGED lvars \/ \E o \in Threads : GCAsk(o))
    BY <1>10, GCFacts DEF Ticks, Tick
  <2>2. QED
    BY <1>2, <1>3, <2>1
<1>11. QED
  BY <1>4, <1>5, <1>6, <1>7, <1>8, <1>9, <1>10, Steps DEF Begin, BeginNext

\* Who is barred from an epoch is barred from the earlier ones.
LEMMA BarredBefore ==
  ASSUME Inv, NEW t \in Txns, NEW x \in Nat, NEW y \in Nat, Barred(t, x), y <= x
  PROVE  Barred(t, y)
<1>1. EpochOf(read_id[t]) \in Nat /\ loaded[t] \in Nat
  BY TxnNumbers, EpochNumbers DEF Inv
<1>2. QED
  BY <1>1 DEF Barred

\* What is garbage stays so: nobody replaces it again, or starts to look on it.
LEMMA GarbageStays ==
  ASSUME Inv, Next, NEW u \in Txns, NEW v \in gc_set[u]
  PROVE  /\ v \in Versions /\ gc_set'[u] = gc_set[u] /\ (v # u => end_cid'[v] = end_cid[v])
         /\ witnesses'[v] \subseteq witnesses[v]
         /\ \A w : EndExit(w) => w \notin witnesses'[v]
<1>0. /\ VersionOK /\ VersionTypes /\ TxnFcns /\ GarbageOf(u) /\ v \in Versions
      /\ gc_set \in [Txns -> SUBSET Versions] /\ end_cid \in [Versions -> 0..MAX_CID]
  BY TxnShape DEF Inv, VersionOK, VersionTypes
<1>1. \A w : EndExit(w) => w \notin witnesses'[v]
  BY <1>0 DEF EndExit
<1>2. ASSUME UNCHANGED vvars
      PROVE  /\ gc_set'[u] = gc_set[u] /\ end_cid'[v] = end_cid[v]
             /\ witnesses'[v] \subseteq witnesses[v]
  BY <1>2 DEF vvars
<1>3. CASE Ticks \/ GCNext
  BY <1>0, <1>1, <1>2, <1>3, GCFacts DEF Ticks
<1>4. ASSUME NEW t \in Txns, Begin(t) \/ Recycle(t) PROVE UNCHANGED vvars
  BY <1>0, <1>4, RecycleFacts DEF Begin
<1>5. ASSUME NEW t \in Txns, EndExit(t)
      PROVE  /\ gc_set'[u] = gc_set[u] /\ end_cid'[v] = end_cid[v]
             /\ witnesses'[v] \subseteq witnesses[v]
  BY <1>0, <1>5, EndExitFacts
<1>6. ASSUME NEW t \in Txns, Commits(t)
      PROVE  /\ gc_set'[u] = gc_set[u] /\ (v # u => end_cid'[v] = end_cid[v])
             /\ witnesses'[v] \subseteq witnesses[v]
  <2>1. CASE UNCHANGED vvars
    BY <1>2, <2>1
  <2>2. ASSUME NEW S \in SUBSET Versions, Retires(t, S)
        PROVE  /\ gc_set'[u] = gc_set[u] /\ (v # u => end_cid'[v] = end_cid[v])
               /\ witnesses'[v] \subseteq witnesses[v]
    <3>1. /\ ~Past(t) /\ (~Empty(head) \/ S \subseteq {t}) /\ S \subseteq {head, t}
          /\ gc_set' = [gc_set EXCEPT ![t] = S]
          /\ witnesses' = [x \in Versions |-> IF x \in S THEN Registered \ {t} ELSE witnesses[x]]
          /\ end_cid' \in {end_cid, [end_cid EXCEPT ![head] = commit_id[t]]}
      BY <2>2 DEF Retires
    <3>2. /\ gc_set[t] = {} /\ v # t /\ (~Empty(head) => v # head)
      BY <1>0, <3>1, NotGarbage
    <3>3. u # t /\ v \notin S
      BY <3>1, <3>2
    <3>4. v # u => v # head
      BY <1>0 DEF GarbageOf
    <3>5. QED
      BY ONLY <1>0, <3>1, <3>3, <3>4
  <2>3. QED
    BY <1>0, <1>6, <2>1, <2>2, CommitsRetires
<1>7. QED
  BY <1>0, <1>1, <1>2, <1>3, <1>4, <1>5, <1>6, Steps

\* Only GetExpiredEpochId changes what the pass of the collector knows.
LEMMA PassFrame ==
  ASSUME Inv, Next
  PROVE  /\ \/ \E o \in Threads : GCAsk(o)
            \/ MarkReclaimable
            \/ todo' = todo /\ expired' = expired
         /\ seen' \in {0, seen, current}
<1>0. TxnFcns
  BY TxnShape DEF Inv
<1>1. CASE Ticks
  BY <1>1 DEF Ticks, Tick, xvars
<1>2. ASSUME NEW t \in Txns, Begin(t) \/ Commits(t) \/ EndExit(t) \/ Recycle(t)
      PROVE  UNCHANGED xvars
  BY <1>0, <1>2, BeginSerializableFacts, BeginSnapshotFacts, EnterSnapshotFacts,
     SnapshotIdFacts, LoadEpochFacts, EnterEpochFacts, RetryEpochFacts, CommitsFacts,
     EndExitFacts, RecycleFacts DEF Begin, BeginNext
<1>3. CASE GCNext
  BY <1>3 DEF GCNext, GCLoad, GCAsk, GCExpired, ReclaimOne, Unlink, MarkReclaimable,
              LoadCurrent, AskLocal, FinishExpire, StartExpire, evars, xvars
<1>4. QED
  BY <1>1, <1>2, <1>3, Steps DEF xvars

\* What GetExpiredEpochId does with the answer b of context th.
LEMMA AskStep ==
  ASSUME Inv, NEW th \in Threads, GCAsk(th)
  PROVE  \E b \in Nat :
           /\ lower'[th] = b /\ b < MAX_EID /\ expired' \in Nat
           /\ expired' <= b /\ expired' <= expired /\ todo' = todo \ {th} /\ th \in todo
           /\ \A e \in DOMAIN epochs[th] : epochs[th][e] # 0 => b < e
<1> DEFINE b == LocalExpired(th, seen)
<1>0. EpochOK /\ LocalOK /\ current \in Epochs /\ MAX_EID \in Nat
  BY Widths DEF Inv, EpochOK
<1>1. /\ th \in todo /\ seen # 0 /\ DOMAIN epochs = Threads /\ todo' = todo \ {th}
      /\ lower' = [lower EXCEPT ![th] = b] /\ epochs' = [epochs EXCEPT ![th] = Trim(@)]
      /\ expired' = IF b < expired THEN b ELSE expired
  BY <1>0 DEF GCAsk, AskLocal, LocalOK
<1>2. seen \in 1..current
  BY <1>0, <1>1, EpochNumbers DEF EpochOK
<1> HIDE DEF b
<1>3. /\ lower'[th] = b /\ b \in 0..MAX_EID /\ b < MAX_EID
      /\ \A e \in DOMAIN epochs[th] : epochs[th][e] # 0 => b < e
  BY <1>0, <1>1, <1>2, AskFacts DEF b
<1>4. b \in Nat /\ expired \in Nat
  BY <1>0, <1>3 DEF EpochOK
<1>5. QED
  BY <1>1, <1>3, <1>4

\* The contexts that were asked stay past the expired epochs, and so does the
\* one that is asked now.
LEMMA PassStep ==
  ASSUME Inv, CountsOK, \A t \in Txns : PassOK(t), Next
  PROVE  \A t \in Txns : PassOK(t)'
<1>1. SUFFICES ASSUME NEW t \in Txns, thread'[t] \notin todo' PROVE Barred(t, expired)'
  BY DEF PassOK
<1> DEFINE th == thread[t]
<1>0. /\ EpochOK /\ LocalOK /\ TxnFcns /\ TxnsOK /\ TxnOK(t) /\ th \in Threads
      /\ current \in Epochs /\ ClientsOK /\ PassOK(t) /\ MAX_EID \in Nat /\ expired \in Nat
      /\ read_id[t] \in Nat
  BY TxnShape, Widths, TxnNumbers DEF Inv, TxnsOK, EpochOK, CountsOK
<1>2. CASE MarkReclaimable
  BY <1>0, <1>1, <1>2 DEF MarkReclaimable, StartExpire, tvars
<1>3. ASSUME NEW o \in Threads, GCAsk(o) PROVE Barred(t, expired)'
  <2>1. PICK b \in Nat :
           /\ lower'[o] = b /\ b < MAX_EID /\ expired' \in Nat
           /\ expired' <= b /\ expired' <= expired /\ todo' = todo \ {o} /\ o \in todo
           /\ \A e \in DOMAIN epochs[o] : epochs[o][e] # 0 => b < e
    BY <1>3, AskStep
  <2>2. UNCHANGED tvars
    BY <1>3 DEF GCAsk, AskLocal
  <2>3. CASE o = th
    <3>1. ASSUME Serial(t), pc[t] \in {"active", "exit"} PROVE expired' < EpochOf(read_id[t])
      <4>1. t \in Registered
        BY <3>1 DEF Registered
      <4>2. Holds(t, EpochOf(read_id[t])) /\ EpochOf(read_id[t]) \in Nat
        BY <1>0, <3>1, <4>1, RegisteredHolds, EpochOrder
      <4>3. b < EpochOf(read_id[t])
        BY <2>1, <2>3, <4>2 DEF Holds
      <4>4. QED
        BY ONLY <2>1, <4>2, <4>3
    <3>2. expired' < loaded[t] \/ (loaded[t] <= b /\ b # MAX_EID)
      <4>1. loaded[t] \in Nat
        BY <1>0, EpochNumbers
      <4>2. QED
        BY ONLY <1>0, <2>1, <4>1
    <3>3. QED
      BY <2>1, <2>2, <2>3, <3>1, <3>2 DEF Barred, Shut, Serial, tvars
  <2>4. CASE o # th
    <3>1. th \notin todo
      BY <1>1, <2>1, <2>2, <2>4 DEF tvars
    <3>2. Barred(t, expired) /\ expired < current /\ ~GCAsk(th)
      BY <1>0, <3>1 DEF PassOK, EpochOK, GCAsk, AskLocal
    <3>3. Barred(t, expired)'
      <4>1. ASSUME NEW x \in Nat, x = expired PROVE Barred(t, x)'
        BY <1>0, <3>2, <4>1, BarredStep
      <4>2. /\ Serial(t) => /\ pc[t] \in {"active", "exit"} => expired < EpochOf(read_id[t])
                            /\ pc[t] = "enter" => expired < loaded[t] \/ Shut(t)'
        BY <1>0, <2>2, <4>1 DEF Barred, Serial, tvars
      <4>3. /\ EpochOf(read_id[t]) \in Nat /\ loaded[t] \in Nat
        BY <1>0, EpochNumbers, EpochOrder
      <4>4. /\ expired < EpochOf(read_id[t]) => expired' < EpochOf(read_id[t])
            /\ expired < loaded[t] => expired' < loaded[t]
        BY ONLY <1>0, <2>1, <4>3
      <4>5. QED
        BY <2>2, <4>2, <4>4 DEF Barred, Serial, tvars
    <3>4. QED
      BY <3>3
  <2>5. QED
    BY <2>3, <2>4
<1>4. CASE todo' = todo /\ expired' = expired
  <2>1. Barred(t, expired)
    <3>1. CASE thread'[t] = thread[t]
      BY <1>0, <1>1, <1>4, <3>1 DEF PassOK
    <3>2. CASE pc[t] \in {"begin", "recycle"}
      BY <3>2 DEF Barred
    <3>3. thread'[t] = thread[t] \/ pc[t] \in {"begin", "recycle"}
      <4>1. CASE Ticks \/ GCNext
        BY <4>1, GCFacts DEF Ticks, Tick, tvars
      <4>2. ASSUME NEW u \in Txns, u # t, Begin(u) \/ Commits(u) \/ EndExit(u) \/ Recycle(u)
            PROVE  thread'[t] = thread[t]
        <5>1. Alone(u)
          BY <1>0, <4>2, BeginSerializableFacts, BeginSnapshotFacts, EnterSnapshotFacts,
             SnapshotIdFacts, LoadEpochFacts, EnterEpochFacts, RetryEpochFacts, CommitsFacts,
             EndExitFacts, RecycleFacts DEF Begin, BeginNext
        <5>2. QED
          BY <4>2, <5>1 DEF Alone
      <4>3. CASE Begin(t) \/ Commits(t) \/ EndExit(t) \/ Recycle(t)
        BY <1>0, <4>3, BeginSerializableFacts, BeginSnapshotFacts, EnterSnapshotFacts,
           SnapshotIdFacts, LoadEpochFacts, EnterEpochFacts, RetryEpochFacts, CommitsFacts,
           EndExitFacts, RecycleFacts DEF Begin, BeginNext
      <4>4. QED
        BY <4>1, <4>2, <4>3, Steps
    <3>4. QED
      BY <3>1, <3>2, <3>3
  <2>2. CASE todo # Threads
    <3>1. expired < current
      BY <1>0, <2>2 DEF EpochOK
    <3>2. ~GCAsk(th)
      BY <1>4 DEF GCAsk, AskLocal
    <3>3. ASSUME NEW x \in Nat, x = expired PROVE Barred(t, x)'
      BY <1>0, <2>1, <3>1, <3>2, <3>3, BarredStep
    <3>4. QED
      BY <1>0, <1>4, <3>3 DEF Barred
  <2>3. CASE todo = Threads
    <3>1. thread'[t] \in Threads
      BY TxnsStep DEF TxnsOK
    <3>2. QED
      BY <1>1, <1>4, <2>3, <3>1
  <2>4. QED
    BY <2>2, <2>3
<1>5. QED
  BY <1>2, <1>3, <1>4, PassFrame

\* Epochs are numbered upwards.
LEMMA CurrentGrows ==
  ASSUME Inv, Next PROVE current' \in Nat /\ current \in Nat /\ current <= current'
<1>1. current' \in Nat
  BY EpochStep, EpochNumbers, Widths DEF EpochOK
<1>2. current' = current \/ current' = current + 1
  <2>1. TxnFcns
    BY TxnShape DEF Inv
  <2>2. CASE Ticks
    BY <2>2 DEF Ticks, Tick
  <2>3. CASE GCNext
    BY <2>3, GCFacts
  <2>4. ASSUME NEW t \in Txns, Begin(t) \/ Commits(t) \/ EndExit(t) \/ Recycle(t)
        PROVE  current' = current
    BY <2>1, <2>4, BeginSerializableFacts, BeginSnapshotFacts, EnterSnapshotFacts,
       SnapshotIdFacts, LoadEpochFacts, EnterEpochFacts, RetryEpochFacts, CommitsFacts,
       EndExitFacts, RecycleFacts DEF Begin, BeginNext
  <2>5. QED
    BY <2>2, <2>3, <2>4, Steps
<1>3. QED
  BY EpochNumbers, <1>1, <1>2 DEF Inv

\* A version that was reset stays out of sight, ...
LEMMA SightStays ==
  ASSUME Inv, ClientsOK, Next, NEW v \in recycled, ~Empty(v) => OutOfSight(v), ~Empty(v)'
  PROVE  OutOfSight(v)'
<1> DEFINE e == EpochOf(end_cid[v])
<1>0. /\ EpochOK /\ QueuesOK /\ VersionTypes /\ current \in Nat /\ seen \in Nat
  BY EpochNumbers, Widths DEF Inv, EpochOK, VersionOK
<1>1. PICK u \in Txns : v \in gc_set[u]
  BY <1>0 DEF QueuesOK
<1>2. ~Empty(v)
  <2> SUFFICES ASSUME Empty(v) PROVE FALSE
    OBVIOUS
  <2>1. v \in Txns /\ v \in gc_set[v]
    BY DEF Empty
  <2>2. gc_set'[v] = gc_set[v]
    BY <2>1, GarbageStays
  <2>3. QED
    BY <2>1, <2>2 DEF Empty
<1>3. u # v
  BY <1>1, <1>2 DEF Empty
<1>4. end_cid'[v] = end_cid[v] /\ v \in Versions
  BY <1>1, <1>3, GarbageStays
<1>5. end_cid[v] \in Nat
  BY <1>0, <1>4, Widths DEF VersionTypes
<1>6. e \in Nat
  BY <1>5, EpochOrder
<1>7. e < current /\ (seen # 0 => e < seen) /\ \A t \in Txns : Barred(t, e)
  BY <1>2 DEF OutOfSight
<1> HIDE DEF e
<1>8. current' \in Nat /\ current <= current'
  BY CurrentGrows
<1>9. seen' \in {0, seen, current}
  BY PassFrame
<1>10. e < current' /\ (seen' # 0 => e < seen')
  BY ONLY <1>0, <1>6, <1>7, <1>8, <1>9
<1>11. ASSUME NEW t \in Txns PROVE Barred(t, e)'
  <2>1. GCAsk(thread[t]) => e < seen
    BY <1>7 DEF GCAsk, AskLocal
  <2>2. ASSUME NEW x \in Nat, x = e PROVE Barred(t, x)'
    BY <1>7, <2>1, <2>2, BarredStep
  <2>3. e' = e
    BY <1>4 DEF e
  <2>4. QED
    BY <1>6, <2>2, <2>3 DEF Barred
<1>12. QED
  BY <1>4, <1>10, <1>11 DEF OutOfSight, e

\* ... and is so when it is reset: the context that held it was due.
LEMMA DueIsOutOfSight ==
  ASSUME Inv, \A t \in Txns : PassOK(t), gpc = "reclaim",
         NEW c \in Epochs, NEW u \in Txns, c <= expired, FiledOK(c, u), NEW v \in gc_set[u]
  PROVE  (~Empty(v) => OutOfSight(v)) /\ witnesses[v] = {}
<1>0. /\ EpochOK /\ TxnsOK /\ VersionTypes /\ current \in Nat /\ seen \in Nat /\ expired \in Nat
      /\ c \in Nat /\ 0 \in Threads /\ v \in Versions
  BY EpochNumbers, Widths DEF Inv, EpochOK, VersionOK, VersionTypes
<1>1. todo = {} /\ seen = 0 /\ expired < current
  BY <1>0 DEF EpochOK
<1>2. witnesses[v] = {}
  <2> SUFFICES ASSUME NEW w \in witnesses[v] PROVE FALSE
    OBVIOUS
  <2>1. PICK d \in Nat : d <= c /\ (thread[w] \in todo \/ expired < d)
    BY DEF FiledOK
  <2>2. QED
    BY <1>0, <1>1, <2>1
<1>3. ASSUME ~Empty(v) PROVE OutOfSight(v)
  <2> DEFINE e == EpochOf(end_cid[v])
  <2>1. v # u
    BY <1>3 DEF Empty
  <2>2. e <= c
    BY <2>1 DEF FiledOK
  <2>3. end_cid[v] \in Nat
    BY <1>0, Widths DEF VersionTypes
  <2>4. e \in Nat
    BY <2>3, EpochOrder
  <2> HIDE DEF e
  <2>5. e <= expired /\ e < current
    BY <1>0, <1>1, <2>2, <2>4
  <2>6. ASSUME NEW t \in Txns PROVE Barred(t, e)
    <3>1. Barred(t, expired)
      BY <1>1 DEF PassOK
    <3>2. QED
      BY <1>0, <2>4, <2>5, <3>1, BarredBefore
  <2>7. QED
    BY <1>1, <2>5, <2>6 DEF OutOfSight, e
<1>4. QED
  BY <1>2, <1>3

\* Whoever may stand on a version is registered.
LEMMA WitnessStep ==
  ASSUME Inv, \A v \in Versions : witnesses[v] \subseteq Registered, Next
  PROVE  \A v \in Versions : witnesses'[v] \subseteq Registered'
<1>1. SUFFICES ASSUME NEW v \in Versions, NEW w \in witnesses'[v] PROVE w \in Registered'
  OBVIOUS
<1>0. VersionTypes /\ TxnFcns
  BY TxnShape DEF Inv, VersionOK
<1>2. ~EndExit(w)
  BY <1>1 DEF EndExit
<1>3. w \in Registered
  <2>1. ASSUME UNCHANGED vvars PROVE w \in Registered
    BY <1>1, <2>1 DEF vvars
  <2>2. CASE Ticks \/ GCNext
    BY <2>1, <2>2, GCFacts DEF Ticks
  <2>3. ASSUME NEW t \in Txns, Begin(t) \/ Recycle(t) PROVE w \in Registered
    BY <1>0, <2>1, <2>3, RecycleFacts DEF Begin
  <2>4. ASSUME NEW t \in Txns, EndExit(t) PROVE w \in Registered
    BY <1>0, <1>1, <2>4, EndExitFacts
  <2>5. ASSUME NEW t \in Txns, Commits(t) PROVE w \in Registered
    <3>1. ASSUME NEW S \in SUBSET Versions, Retires(t, S) PROVE w \in Registered
      BY <1>1, <3>1 DEF Retires
    <3>2. QED
      BY <1>0, <2>1, <2>5, <3>1, CommitsRetires
  <2>6. QED
    BY <2>2, <2>3, <2>4, <2>5, Steps
<1>4. QED
  BY <1>2, <1>3, RegisteredStay

\* A witness keeps being counted, in an epoch that its context was not asked
\* about, or in one that it has not given up.
LEMMA FiledStays ==
  ASSUME Inv, CountsOK, Next, Inv', CountsOK', NEW c \in Epochs, NEW t \in Txns,
         \A v \in Versions : witnesses[v] \subseteq Registered, gc_set[t] # {}, FiledOK(c, t)
  PROVE  FiledOK(c, t)'
<1>0. /\ current \in Nat /\ current' \in Nat /\ current <= current' /\ c \in Nat
      /\ TxnsOK /\ MAX_EID \in Nat /\ expired \in Nat
  BY CurrentGrows, Widths DEF Inv, EpochOK
<1>1. c <= current'
  BY <1>0 DEF FiledOK
<1>2. gc_set'[t] = gc_set[t]
  BY GarbageStays
<1>3. SUFFICES ASSUME NEW v \in gc_set[t]
               PROVE  /\ v # t => EpochOf(end_cid'[v]) <= c
                      /\ \A w \in witnesses'[v] :
                           \E e \in Nat : /\ Holds(w, e)' /\ e <= c
                                          /\ thread'[w] \in todo' \/ expired' < e
  BY <1>1, <1>2 DEF FiledOK
<1>4. v # t => EpochOf(end_cid'[v]) <= c
  BY GarbageStays DEF FiledOK
<1>5. ASSUME NEW w \in witnesses'[v]
      PROVE  \E e \in Nat : Holds(w, e)' /\ e <= c /\ (thread'[w] \in todo' \/ expired' < e)
  <2>1. w \in witnesses[v] /\ ~EndExit(w) /\ v \in Versions
    BY <1>5, GarbageStays
  <2>2. w \in Registered /\ w \in Txns
    BY <2>1 DEF Registered
  <2>3. PICK e \in Nat : Holds(w, e) /\ e <= c /\ (thread[w] \in todo \/ expired < e)
    BY <2>1 DEF FiledOK
  <2>4. Holds(w, e)'
    BY <2>1, <2>2, <2>3, HoldsStep
  <2>5. thread'[w] = thread[w] /\ thread[w] \in Threads
    BY <1>0, <2>1, <2>2, RegisteredStay DEF TxnsOK
  <2>6. thread[w] \in todo' \/ expired' < e
    <3>1. CASE MarkReclaimable
      BY <2>5, <3>1 DEF MarkReclaimable, StartExpire
    <3>2. CASE todo' = todo /\ expired' = expired
      BY <2>3, <3>2
    <3>3. ASSUME NEW o \in Threads, GCAsk(o) PROVE thread[w] \in todo' \/ expired' < e
      <4>1. PICK b \in Nat :
               /\ expired' \in Nat
               /\ expired' <= b /\ expired' <= expired /\ todo' = todo \ {o}
               /\ \A d \in DOMAIN epochs[o] : epochs[o][d] # 0 => b < d
        BY <3>3, AskStep
      <4>2. CASE thread[w] = o
        <5>1. b < e
          BY <2>3, <4>1, <4>2 DEF Holds
        <5>2. QED
          BY ONLY <4>1, <5>1, e \in Nat
      <4>3. CASE thread[w] # o
        <5>1. expired < e => expired' < e
          BY ONLY <1>0, <4>1, e \in Nat
        <5>2. QED
          BY <2>3, <4>1, <4>3, <5>1
      <4>4. QED
        BY <4>2, <4>3
    <3>4. QED
      BY <3>1, <3>2, <3>3, PassFrame
  <2>7. QED
    BY <2>3, <2>4, <2>5, <2>6
<1>6. QED
  BY <1>4, <1>5

\* What is filed now carries the current epoch, and nobody was asked yet.
LEMMA FiledNow ==
  ASSUME Inv, CountsOK, \A v \in Versions : witnesses[v] \subseteq Registered,
         MarkReclaimable, NEW t \in garbages
  PROVE  FiledOK(current, t)'
<1>0. /\ UNCHANGED <<current, lvars, tvars, vvars>> /\ todo' = Threads
      /\ TxnsOK /\ VersionOK /\ t \in Txns /\ current \in Nat
  BY EpochNumbers DEF MarkReclaimable, StartExpire, Inv, QueuesOK, QueueTypes
<1>1. GarbageOf(t) /\ gc_set[t] \subseteq Versions
  BY <1>0 DEF VersionOK, VersionTypes
<1>2. \A v \in gc_set[t] : v # t => EpochOf(end_cid[v]) <= current
  BY <1>1 DEF GarbageOf
<1>3. ASSUME NEW v \in gc_set[t], NEW w \in witnesses[v]
      PROVE  thread[w] \in Threads /\ \E e \in Nat : Holds(w, e) /\ e <= current
  <2>1. w \in Registered /\ w \in Txns
    BY <1>1, <1>3 DEF Registered
  <2>2. QED
    BY <1>0, <2>1, RegisteredHolds DEF TxnsOK
<1>4. QED
  BY <1>0, <1>2, <1>3 DEF FiledOK, Holds, Serial, lvars, tvars, vvars

\* The invariant of disciplined clients, step by step.
LEMMA GraceStep ==
  ASSUME Inv, CountsOK, GraceOK, Next, Inv', CountsOK'
  PROVE  GraceOK'
<1>0. /\ QueueTypes /\ QueuesOK /\ VersionOK /\ VersionTypes /\ ClientsOK
      /\ \A t \in Txns : PassOK(t)
      /\ \A v \in Versions : witnesses[v] \subseteq Registered
      /\ \A c \in Epochs, t \in Txns : <<c, t>> \in reclaim_map => FiledOK(c, t)
      /\ \A v \in recycled : (~Empty(v) => OutOfSight(v)) /\ witnesses[v] = {}
  BY DEF Inv, QueuesOK, VersionOK, CountsOK, GraceOK
<1>1. \A t \in Txns : PassOK(t)'
  BY <1>0, PassStep
<1>2. \A v \in Versions : witnesses'[v] \subseteq Registered'
  BY <1>0, WitnessStep
<1>3. ASSUME NEW v \in recycled PROVE (~Empty(v) => OutOfSight(v))' /\ witnesses'[v] = {}
  <2>1. PICK u \in Txns : v \in gc_set[u]
    BY <1>0 DEF QueuesOK
  <2>2. witnesses'[v] \subseteq witnesses[v]
    BY <2>1, GarbageStays
  <2>3. (~Empty(v))' => OutOfSight(v)'
    BY <1>0, SightStays
  <2>4. QED
    BY <1>0, <2>2, <2>3
<1>4. ASSUME NEW c \in Epochs, NEW t \in Txns, <<c, t>> \in reclaim_map PROVE FiledOK(c, t)'
  <2>1. gc_set[t] # {}
    BY <1>0, <1>4 DEF QueuesOK, QueueOK, Filed
  <2>2. QED
    BY <1>0, <1>4, <2>1, FiledStays
<1>5. CASE ReclaimOne
  <2>1. PICK entry \in reclaim_map :
           /\ Due(entry) /\ reclaim_map' = reclaim_map \ {entry}
           /\ recycled' = recycled \cup gc_set[entry[2]]
    BY <1>5 DEF ReclaimOne
  <2>2. PICK c \in Epochs, u \in Txns : entry = <<c, u>>
    BY <1>0 DEF QueueTypes
  <2>3. c <= expired /\ FiledOK(c, u) /\ gpc = "reclaim" /\ recycled' = recycled \cup gc_set[u]
    BY <1>0, <1>5, <2>1, <2>2 DEF Due, ReclaimOne
  <2>4. ASSUME NEW v \in gc_set[u] PROVE (~Empty(v) => OutOfSight(v))' /\ witnesses'[v] = {}
    <3>1. (~Empty(v) => OutOfSight(v)) /\ witnesses[v] = {}
      BY <1>0, <2>3, <2>4, DueIsOutOfSight
    <3>2. UNCHANGED <<evars, vvars>>
      BY <1>5 DEF ReclaimOne
    <3>3. (\A t \in Txns : \A x : Barred(t, x) => Barred(t, x)')
      BY <3>2 DEF Barred, Shut, Serial, evars
    <3>4. QED
      BY <3>1, <3>2, <3>3 DEF OutOfSight, Empty, Barred, Shut, Serial, evars, vvars
  <2>5. QED
    BY <1>1, <1>2, <1>3, <1>4, <2>1, <2>3, <2>4 DEF GraceOK
<1>6. CASE MarkReclaimable
  <2>1. /\ reclaim_map' = reclaim_map \cup {<<current, t>> : t \in garbages}
        /\ recycled' = recycled /\ current' = current
    BY <1>6 DEF MarkReclaimable, StartExpire
  <2>2. ASSUME NEW c \in Epochs, NEW t \in Txns, <<c, t>> \in reclaim_map',
               <<c, t>> \notin reclaim_map
        PROVE  FiledOK(c, t)'
    <3>1. c = current /\ t \in garbages
      BY <2>1, <2>2
    <3>2. FiledOK(current, t)'
      BY <1>0, <1>6, <3>1, FiledNow
    <3>3. QED
      BY <2>1, <3>1, <3>2 DEF FiledOK
  <2>3. QED
    BY <1>1, <1>2, <1>3, <1>4, <2>1, <2>2 DEF GraceOK
<1>7. CASE reclaim_map' = reclaim_map /\ recycled' = recycled
  BY <1>1, <1>2, <1>3, <1>4, <1>7 DEF GraceOK
<1>8. ReclaimOne \/ MarkReclaimable \/ (reclaim_map' = reclaim_map /\ recycled' = recycled)
  <2>0. TxnFcns
    BY TxnShape DEF Inv
  <2>1. CASE Ticks
    BY <2>1 DEF Ticks, gvars
  <2>2. ASSUME NEW t \in Txns, Begin(t) \/ Commits(t) \/ EndExit(t) \/ Recycle(t)
        PROVE  reclaim_map' = reclaim_map /\ recycled' = recycled
    BY <2>0, <2>2, CommitsFacts, EndExitFacts, RecycleFacts DEF Begin, gvars
  <2>3. CASE GCNext
    <3>1. Unlink => reclaim_map' = reclaim_map /\ recycled' = recycled
      BY DEF Unlink
    <3>2. (\E th \in Threads : GCAsk(th)) \/ GCLoad \/ GCExpired =>
            reclaim_map' = reclaim_map /\ recycled' = recycled
      BY <2>3, GCFacts
    <3>3. QED
      BY <2>3, <3>1, <3>2 DEF GCNext
  <2>4. QED
    BY <2>1, <2>2, <2>3, Steps
<1>9. QED
  BY <1>5, <1>6, <1>7, <1>8

-----------------------------------------------------------------------------
(* Disciplined clients: the results.                                       *)

\* Nobody is registered at first, and nothing was collected.
LEMMA InitFull == ASSUME Init PROVE CountsOK /\ GraceOK
<1>1. /\ epochs = [th \in Threads |-> <<>>] /\ pc = [t \in Txns |-> "begin"]
      /\ thread = [t \in Txns |-> 0] /\ todo = Threads /\ 0 \in Threads
      /\ reclaim_map = {} /\ recycled = {} /\ witnesses = [v \in Versions |-> {}]
  BY Widths DEF Init, EpochInit
<1>2. /\ \A t \in Txns : \A th : ~Here(t, th) /\ ~RegHere(t, th)
      /\ \A th \in Threads : DOMAIN epochs[th] = {}
  BY <1>1 DEF Here, RegHere, Occupying, Registered
<1>3. ASSUME NEW th \in Threads, NEW e \in Nat PROVE Count(epochs[th], e) = Cardinality(Mine(th, e))
  <2>1. Mine(th, e) = {}
    BY <1>2 DEF Mine
  <2>2. QED
    BY <1>2, <2>1, FS_EmptySet DEF Count
<1>4. CountsOK
  BY <1>2, <1>3 DEF CountsOK, ClientsOK, CountOK, OneOK, SharedOK
<1>5. GraceOK
  BY <1>1 DEF GraceOK, PassOK
<1>6. QED
  BY <1>4, <1>5

\* A stuttering step changes nothing.
LEMMA StutterFull ==
  ASSUME CountsOK, GraceOK, UNCHANGED vars
  PROVE  CountsOK' /\ GraceOK'
<1>1. UNCHANGED <<evars, vvars, gvars, garbage_eid>>
  BY DEF vars
<1>2. /\ current' = current /\ lower' = lower /\ epochs' = epochs /\ pc' = pc
      /\ thread' = thread /\ level' = level /\ loaded' = loaded /\ read_id' = read_id
      /\ todo' = todo /\ seen' = seen /\ expired' = expired
      /\ end_cid' = end_cid /\ gc_set' = gc_set /\ witnesses' = witnesses
      /\ reclaim_map' = reclaim_map /\ recycled' = recycled
  BY <1>1 DEF evars, vvars, gvars
<1>3. Registered' = Registered
  BY <1>2 DEF Registered
<1>4. ClientsOK' = ClientsOK
  BY <1>2 DEF ClientsOK, Here, Occupying, Serial
<1>5. ASSUME NEW th \in Threads PROVE CountOK(th)'
  <2>1. CountOK(th)
    BY DEF CountsOK
  <2>2. \A e : Mine(th, e)' = Mine(th, e)
    BY <1>2, <1>3 DEF Mine, RegHere
  <2>3. QED
    BY <1>2, <1>3, <2>1, <2>2 DEF CountOK, OneOK, SharedOK, RegHere, Serial, Count
<1>6. GraceOK'
  BY ONLY <1>2, <1>3, GraceOK DEF GraceOK, PassOK, OutOfSight, FiledOK, Barred, Shut, Serial,
          Holds, Empty
<1>7. QED
  BY <1>4, <1>5, <1>6 DEF CountsOK

\* With disciplined clients, the whole invariant holds in every reachable state.
THEOREM GraceInvariance == Disciplined => (Spec => []FullInv)
<1> SUFFICES ASSUME Disciplined PROVE Spec => []FullInv
  OBVIOUS
<1>1. Init => FullInv
  BY InitInv, InitFull DEF FullInv
<1>2. FullInv /\ [Next]_vars => FullInv'
  <2> SUFFICES ASSUME FullInv, [Next]_vars PROVE FullInv'
    OBVIOUS
  <2>1. Inv'
    BY NextInv DEF FullInv
  <2>2. CASE Next
    <3>1. CountsOK'
      BY <2>2, ClientStep, CountStep DEF FullInv, CountsOK
    <3>2. QED
      BY <2>1, <2>2, <3>1, GraceStep DEF FullInv
  <2>3. CASE UNCHANGED vars
    BY <2>1, <2>3, StutterFull DEF FullInv
  <2>4. QED
    BY <2>2, <2>3
<1>3. QED
  BY <1>1, <1>2, PTL DEF Spec

\* A pass of the collector finds no epoch expired in which a transaction that
\* reads at its own timestamp runs.
THEOREM ExpiredEpochsAreOver == Disciplined => (Spec => []ExpiredIsOver)
<1> SUFFICES ASSUME Disciplined PROVE Spec => []ExpiredIsOver
  OBVIOUS
<1>1. FullInv => ExpiredIsOver
  <2> SUFFICES ASSUME FullInv, gpc = "reclaim", NEW t \in Registered, level[t] = "SERIALIZABLE"
               PROVE  EpochOf(read_id[t]) > expired
    BY DEF ExpiredIsOver
  <2>1. /\ todo = {} /\ t \in Txns /\ TxnsOK /\ Serial(t) /\ expired \in Nat
        /\ PassOK(t) /\ EpochOf(read_id[t]) \in Nat
    BY TxnNumbers, Widths DEF FullInv, Inv, EpochOK, GraceOK, Registered, Serial
  <2>2. pc[t] \in {"active", "exit"}
    BY <2>1 DEF Registered, TxnsOK, TxnOK, Serial
  <2>3. expired < EpochOf(read_id[t])
    BY <2>1, <2>2 DEF PassOK, Barred
  <2>4. QED
    BY <2>1, <2>3
<1>2. QED
  BY GraceInvariance, <1>1, PTL

\* No running transaction that reads at its own timestamp sees a version that
\* was reset.
THEOREM ResetVersionsAreInvisible == Disciplined => (Spec => []RecycledIsInvisible)
<1> SUFFICES ASSUME Disciplined PROVE Spec => []RecycledIsInvisible
  OBVIOUS
<1>1. FullInv => RecycledIsInvisible
  <2> SUFFICES ASSUME FullInv, NEW v \in recycled, NEW t \in Txns, pc[t] = "active",
                      level[t] = "SERIALIZABLE", Sees(t, v)
               PROVE  FALSE
    BY DEF RecycledIsInvisible
  <2>1. ~Empty(v) /\ read_id[t] < end_cid[v]
    BY DEF Sees
  <2>2. EpochOf(end_cid[v]) < EpochOf(read_id[t])
    BY <2>1 DEF FullInv, GraceOK, OutOfSight, Barred, Serial
  <2>3. end_cid[v] \in Nat /\ read_id[t] \in Nat
    BY TxnNumbers, Widths DEF FullInv, Inv, VersionOK, VersionTypes, QueuesOK, QueueTypes
  <2>4. end_cid[v] < read_id[t]
    BY <2>2, <2>3, EpochOrder
  <2>5. QED
    BY <2>1, <2>3, <2>4
<1>2. QED
  BY GraceInvariance, <1>1, PTL

\* When a version is reset, everybody who was registered when it was replaced
\* or rolled back has left.
THEOREM GracePeriodHolds == Disciplined => (Spec => []GracePeriod)
<1> SUFFICES ASSUME Disciplined PROVE Spec => []GracePeriod
  OBVIOUS
<1>1. FullInv => GracePeriod
  BY DEF FullInv, GraceOK, GracePeriod
<1>2. QED
  BY GraceInvariance, <1>1, PTL

\* The types; the counts of a context are natural numbers, for it never
\* discounts a transaction that it has not counted.
THEOREM TypeCorrectness == Disciplined => (Spec => []TypeOK)
<1> SUFFICES ASSUME Disciplined PROVE Spec => []TypeOK
  OBVIOUS
<1>1. ASSUME FullInv PROVE TypeOK
  <2>0. /\ EpochOK /\ LocalOK /\ TxnsOK /\ VersionTypes /\ QueueTypes /\ CountsOK
        /\ current \in 1..MaxEpoch /\ MaxEpoch \in Nat /\ MAX_CID \in Nat /\ MAX_EID \in Nat
    BY <1>1, EpochNumbers, Widths DEF FullInv, Inv, VersionOK, QueuesOK
  <2>1. ASSUME NEW th \in Threads
        PROVE  /\ DOMAIN epochs[th] \subseteq Epochs
               /\ \A e \in DOMAIN epochs[th] : epochs[th][e] \in Nat
    <3>1. DOMAIN epochs[th] \subseteq 1..current /\ CountOK(th)
      BY <2>0 DEF LocalOK, ContextOK, CountsOK
    <3>2. DOMAIN epochs[th] \subseteq Epochs /\ DOMAIN epochs[th] \subseteq Nat
      BY <2>0, <3>1 DEF Epochs
    <3>3. ASSUME NEW e \in DOMAIN epochs[th] PROVE epochs[th][e] \in Nat
      <4>1. CASE th \in Exclusive
        BY <3>1, <4>1 DEF CountOK, OneOK
      <4>2. CASE th \notin Exclusive
        <5>1. Mine(th, e) \subseteq Txns
          BY DEF Mine
        <5>2. Cardinality(Mine(th, e)) \in Nat
          BY <5>1, Widths, FS_Subset, FS_CardinalityType
        <5>3. QED
          BY <3>1, <3>2, <4>2, <5>2 DEF CountOK, SharedOK, Count
      <4>3. QED
        BY <4>1, <4>2
    <3>4. QED
      BY <3>2, <3>3
  <2>2. /\ read_id \in [Txns -> 0..MAX_CID] /\ commit_id \in [Txns -> 0..MAX_CID]
    <3>1. 0..MAX_CID - 1 \subseteq 0..MAX_CID
      BY <2>0
    <3>2. QED
      BY <2>0, <3>1 DEF TxnsOK
  <2>3. EpochTypeOK
    BY <2>0, <2>1, <2>2 DEF EpochTypeOK, EpochOK, LocalOK, TxnsOK
  <2>4. QED
    BY <2>0, <2>3 DEF TypeOK, VersionTypes, QueueTypes
<1>2. QED
  BY GraceInvariance, <1>1, PTL
=============================================================================
