---------------------------- MODULE EpochManager ----------------------------
(***************************************************************************)
(* The epochs of Peloton: classes LocalEpoch and DecentralizedEpochManager *)
(* of peloton/src/concurrency.  A transaction registers in the local epoch *)
(* context of its thread when it begins and leaves it when it ends; the    *)
(* garbage collector asks every context in turn which epochs are over.     *)
(*                                                                         *)
(* The methods of LocalEpoch hold epoch_lock_ throughout and are one       *)
(* action each.  The methods of the manager take no lock: each load of     *)
(* current_global_epoch_id_ or snapshot_global_epoch_id_ is an action.     *)
(***************************************************************************)
EXTENDS Integers, FiniteSets

CONSTANTS Threads,    \* the registered thread ids: one LocalEpoch each
          Txns,       \* the transactions
          Begins,     \* the <<thread_id, type>> BeginTransaction is called with
          Exclusive,  \* the threads that run one transaction at a time
          MaxEpoch,   \* bound on current_global_epoch_id_
          CidWidth    \* 2^32 in the code: transaction ids per epoch

Levels == {"READ_ONLY", "SNAPSHOT", "SERIALIZABLE"}

ASSUME TxnsAssumption == /\ IsFiniteSet(Txns) /\ IsFiniteSet(Threads)
                         /\ 0 \in Threads
                         /\ Begins \subseteq Threads \X Levels
                         /\ Exclusive \subseteq Threads
ASSUME EpochAssumption == MaxEpoch \in Nat \ {0}
ASSUME WidthAssumption == CidWidth \in Nat \ {0, 1} /\ Cardinality(Txns) < CidWidth

VARIABLES current,      \* current_global_epoch_id_
          snapshot,     \* snapshot_global_epoch_id_
          next_txn_id,  \* next_txn_id_
          lower,        \* epoch_id_lower_bound_ of each LocalEpoch
          epochs,       \* epoch_map_ and epoch_queue_: epoch id -> txn_count_
          pc,           \* where each transaction is
          thread,       \* thread_id_ of each transaction
          level,        \* isolation_level_ of each transaction
          loaded,       \* the epoch id a transaction has loaded
          read_id,      \* read_id_ of each transaction
          commit_id,    \* commit_id_ of each transaction
          todo,         \* GetExpiredEpochId: the contexts still to ask
          seen,         \* ... the current epoch it passes to the next one
          expired       \* ... global_expired_eid

lvars == <<lower, epochs>>
avars == <<thread, level>>
tvars == <<pc, thread, level, loaded, read_id, commit_id>>
xvars == <<todo, seen, expired>>
evars == <<current, snapshot, next_txn_id, lower, epochs, pc, thread, level,
           loaded, read_id, commit_id, todo, seen, expired>>

Epochs == 1..MaxEpoch
MAX_EID == MaxEpoch + 1                  \* UINT64_MAX
Cid(e, n) == e * CidWidth + n            \* (e << 32) | n
EpochOf(cid) == cid \div CidWidth        \* cid >> 32
MAX_CID == Cid(MAX_EID, 0)

PCs == { "begin",     \* not begun yet
         "snap",      \* it holds the snapshot epoch, not yet registered
         "snapid",    \* registered, about to load the snapshot epoch again
         "load",      \* about to load the current epoch
         "enter",     \* it holds the current epoch, not yet registered
         "active",    \* BeginTransaction has returned
         "exit",      \* installed or rolled back, about to leave the epoch
         "recycle",   \* has left the epoch, about to hand over its garbage
         "ended" }

MinOf(S) == CHOOSE x \in S : \A y \in S : x <= y

---------------------------------------------------------------------------
(* LocalEpoch *)

\* The queue without the empty epochs on top of it.
Trim(q) == [e \in {x \in DOMAIN q : \E y \in DOMAIN q : y <= x /\ q[y] # 0}
              |-> q[e]]

\* The queue with one more transaction in epoch e.
Counted(q, e) == [d \in DOMAIN q \cup {e} |->
                    (IF d \in DOMAIN q THEN q[d] ELSE 0) + (IF d = e THEN 1 ELSE 0)]

\* Mutant: an epoch equal to the bound is accepted.
RefusedTooLate(th, e, type) ==
  lower[th] # MAX_EID /\ lower[th] > e /\ type # "SNAPSHOT_READ"

\* LocalEpoch::EnterEpoch returns false: the collector is already past e.
Refused(th, e, type) ==
  lower[th] # MAX_EID /\ lower[th] >= e /\ type # "SNAPSHOT_READ"

\* Mutant: a snapshot reader leaves the bound above its epoch.
LocalEnterKeepsBound(th, e, type) ==
  /\ ~Refused(th, e, type)
  /\ lower' = [lower EXCEPT ![th] = IF @ = MAX_EID THEN e - 1 ELSE @]
  /\ epochs' = [epochs EXCEPT ![th] =
                  IF type = "COMMIT" THEN @ ELSE Counted(@, e)]

\* LocalEpoch::EnterEpoch returns true.
LocalEnter(th, e, type) ==
  /\ ~Refused(th, e, type)
  /\ lower' = [lower EXCEPT ![th] = IF @ >= e THEN e - 1 ELSE @]
  /\ epochs' = [epochs EXCEPT ![th] =
                  IF type = "COMMIT" THEN @ ELSE Counted(@, e)]

\* LocalEpoch::ExitEpoch.  Without the epoch in the map the assertion, or the
\* exception of epoch_map_.at, ends it: the transaction does not get further.
LocalExit(th, e) ==
  LET q == Trim([epochs[th] EXCEPT ![e] = @ - 1])
  IN /\ e \in DOMAIN epochs[th]
     /\ epochs' = [epochs EXCEPT ![th] = q]
     /\ lower' = [lower EXCEPT ![th] =
                    IF DOMAIN q = {} THEN @ ELSE MinOf(DOMAIN q) - 1]

\* Mutant: in an idle context the current epoch counts as expired.
LocalExpiredCurrent(th, cur) ==
  LET q == Trim(epochs[th])
  IN IF DOMAIN epochs[th] = {} THEN cur
     ELSE IF DOMAIN q = {} THEN lower[th] ELSE MinOf(DOMAIN q) - 1

\* The bound that LocalEpoch::GetExpiredEpochId(cur) stores and returns.
LocalExpired(th, cur) ==
  LET q == Trim(epochs[th])
  IN IF DOMAIN epochs[th] = {} THEN cur - 1
     ELSE IF DOMAIN q = {} THEN lower[th] ELSE MinOf(DOMAIN q) - 1

---------------------------------------------------------------------------
(* DecentralizedEpochManager, and the two ends of a transaction that call it *)

\* Thread 0 has run the transaction that loaded the data, in epoch 1.
EpochInit(used) ==
  /\ current = 1 /\ snapshot = 1 /\ next_txn_id = 1
  /\ lower = [th \in Threads |-> IF th \in used THEN 0 ELSE MAX_EID]
  /\ epochs = [th \in Threads |-> <<>>]
  /\ pc = [t \in Txns |-> "begin"]
  /\ thread = [t \in Txns |-> 0]
  /\ level = [t \in Txns |-> "SERIALIZABLE"]
  /\ loaded = [t \in Txns |-> 0]
  /\ read_id = [t \in Txns |-> 0]
  /\ commit_id = [t \in Txns |-> 0]
  /\ todo = Threads /\ seen = 0 /\ expired = MAX_EID

Move(t, p) == pc' = [pc EXCEPT ![t] = p]

\* Running: the epoch thread.
Tick == /\ current < MaxEpoch
        /\ current' = current + 1
        /\ UNCHANGED <<snapshot, next_txn_id, lvars, tvars, xvars>>

\* A client may call BeginTransaction(th, type).
MayBegin(th, type) ==
  /\ <<th, type>> \in Begins
  /\ th \in Exclusive =>
       \A t \in Txns : pc[t] \in {"begin", "ended"} \/ thread[t] # th

\* BeginTransaction(thread_id, type) of a transaction that reads at its own
\* timestamp: EnterEpoch(READ) loads the current epoch, ...
BeginSerializable(t) ==
  \E th \in Threads :
    /\ MayBegin(th, "SERIALIZABLE")
    /\ pc[t] = "begin" /\ Move(t, "enter")
    /\ thread' = [thread EXCEPT ![t] = th]
    /\ loaded' = [loaded EXCEPT ![t] = current]
    /\ UNCHANGED <<level, current, snapshot, next_txn_id, lvars, read_id,
                   commit_id, xvars>>

\* ... and of one that reads a snapshot: EnterEpoch(SNAPSHOT_READ) loads the
\* snapshot epoch to register with ...
BeginSnapshot(t) ==
  \E th \in Threads, type \in Levels \ {"SERIALIZABLE"} :
    /\ MayBegin(th, type)
    /\ pc[t] = "begin" /\ Move(t, "snap")
    /\ thread' = [thread EXCEPT ![t] = th]
    /\ level' = [level EXCEPT ![t] = type]
    /\ loaded' = [loaded EXCEPT ![t] = snapshot]
    /\ UNCHANGED <<current, snapshot, next_txn_id, lvars, read_id, commit_id, xvars>>

EnterSnapshot(t) ==
  /\ pc[t] = "snap"
  /\ LocalEnter(thread[t], loaded[t], "SNAPSHOT_READ")
  /\ Move(t, "snapid")
  /\ loaded' = [loaded EXCEPT ![t] = 0]
  /\ UNCHANGED <<avars, current, snapshot, next_txn_id, read_id, commit_id, xvars>>

\* ... and loads it again for the read id it returns.
SnapshotId(t) ==
  /\ pc[t] = "snapid"
  /\ read_id' = [read_id EXCEPT ![t] = Cid(snapshot, 0)]
  /\ commit_id' = [commit_id EXCEPT ![t] = Cid(snapshot, 0)]
  /\ Move(t, IF level[t] = "SNAPSHOT" THEN "load" ELSE "active")
  /\ UNCHANGED <<avars, current, snapshot, next_txn_id, lvars, loaded, xvars>>

\* EnterEpoch(READ), or EnterEpoch(COMMIT) of a snapshot transaction: (re)load
\* the current epoch until the local context accepts it.
EntryType(t) == IF level[t] = "SNAPSHOT" THEN "COMMIT" ELSE "READ"

LoadEpoch(t) ==
  /\ pc[t] = "load"
  /\ loaded' = [loaded EXCEPT ![t] = current]
  /\ Move(t, "enter")
  /\ UNCHANGED <<avars, current, snapshot, next_txn_id, lvars, read_id, commit_id, xvars>>

\* The transaction id is drawn in the step of the entry: the entries of two
\* transactions commute, so its order among them is as free as before.
EnterEpoch(t) ==
  LET cid == Cid(loaded[t], next_txn_id)
  IN /\ pc[t] = "enter"
     /\ LocalEnter(thread[t], loaded[t], EntryType(t))
     /\ next_txn_id' = (next_txn_id + 1) % CidWidth
     /\ commit_id' = [commit_id EXCEPT ![t] = cid]
     /\ read_id' = [read_id EXCEPT ![t] = IF level[t] = "SNAPSHOT" THEN @ ELSE cid]
     /\ loaded' = [loaded EXCEPT ![t] = 0]
     /\ Move(t, "active")
     /\ UNCHANGED <<avars, current, snapshot, xvars>>

RetryEpoch(t) ==
  /\ pc[t] = "enter"
  /\ Refused(thread[t], loaded[t], EntryType(t))
  /\ Move(t, "load")
  /\ loaded' = [loaded EXCEPT ![t] = 0]
  /\ UNCHANGED <<avars, current, snapshot, next_txn_id, lvars, read_id, commit_id, xvars>>

\* ExitEpoch, called by EndTransaction with the epoch of the read id.
ExitEpoch(t) ==
  /\ pc[t] = "exit"
  /\ LocalExit(thread[t], EpochOf(read_id[t]))
  /\ Move(t, "recycle")
  /\ UNCHANGED <<avars, current, snapshot, next_txn_id, loaded, read_id, commit_id, xvars>>

---------------------------------------------------------------------------
(* DecentralizedEpochManager::GetExpiredEpochId, one context at a time *)

StartExpire == /\ todo' = Threads /\ expired' = MAX_EID
               /\ UNCHANGED <<seen, current, snapshot, next_txn_id, lvars, tvars>>

LoadCurrent == /\ todo # {} /\ seen = 0
               /\ seen' = current
               /\ UNCHANGED <<todo, expired, current, snapshot, next_txn_id, lvars, tvars>>

AskLocal(th) ==
  LET bound == LocalExpired(th, seen)
  IN /\ th \in todo /\ seen # 0
     /\ lower' = [lower EXCEPT ![th] = bound]
     /\ epochs' = [epochs EXCEPT ![th] = Trim(@)]
     /\ expired' = IF bound < expired THEN bound ELSE expired
     /\ todo' = todo \ {th} /\ seen' = 0
     /\ UNCHANGED <<current, snapshot, next_txn_id, tvars>>

\* All contexts asked: the snapshot epoch is kept above the expired ones.
FinishExpire ==
  /\ snapshot' = IF expired # MAX_EID /\ expired >= snapshot THEN expired + 1
                 ELSE snapshot
  /\ UNCHANGED <<current, next_txn_id, lvars, tvars, xvars>>

BeginNext(t) == \/ BeginSerializable(t) \/ BeginSnapshot(t) \/ EnterSnapshot(t)
                \/ SnapshotId(t)
                \/ LoadEpoch(t) \/ EnterEpoch(t) \/ RetryEpoch(t)

---------------------------------------------------------------------------
\* Registered in a local epoch: from the successful entry to the exit.
Registered == {t \in Txns : \/ pc[t] \in {"snapid", "active", "exit"}
                            \/ pc[t] \in {"load", "enter"} /\ level[t] = "SNAPSHOT"}

EpochTypeOK ==
  /\ current \in Epochs /\ snapshot \in 1..current
  /\ next_txn_id \in 0..CidWidth - 1
  /\ lower \in [Threads -> 0..MAX_EID]
  /\ \A th \in Threads : /\ DOMAIN epochs[th] \subseteq Epochs
                         /\ \A e \in DOMAIN epochs[th] : epochs[th][e] \in Nat
  /\ pc \in [Txns -> PCs]
  /\ thread \in [Txns -> Threads] /\ level \in [Txns -> Levels]
  /\ loaded \in [Txns -> 0..current]
  /\ read_id \in [Txns -> 0..MAX_CID]
  /\ commit_id \in [Txns -> 0..MAX_CID]
  /\ todo \subseteq Threads /\ seen \in 0..MaxEpoch /\ expired \in 0..MAX_EID
=============================================================================
