-------------------------- MODULE GarbageCollector --------------------------
(***************************************************************************)
(* Peloton's transaction-level garbage collection: class                   *)
(* TransactionLevelGCManager of peloton/src/gc on top of the epochs, and   *)
(* the garbage that CommitTransaction, AbortTransaction and EndTransaction *)
(* hand to it.  One GC thread (the default) runs against the transactions  *)
(* and the epoch thread.                                                   *)
(*                                                                         *)
(* The data are the versions of one tuple that is reached through one      *)
(* index entry.  A version is named after the transaction that writes it;  *)
(* the installation of a version is one step here (TimestampOrdering       *)
(* models its protocol).  A garbage context is named after its             *)
(* transaction.                                                            *)
(***************************************************************************)
EXTENDS EpochManager

CONSTANTS Loader,            \* the writer of the version that is there at first
          MAX_ATTEMPT_COUNT  \* how many contexts one pass takes from its queue

ASSUME LoaderAssumption == Loader \notin Txns
ASSUME AttemptAssumption == MAX_ATTEMPT_COUNT \in Nat \ {0}

VARIABLES begin_cid,     \* begin commit id of each version
          end_cid,       \* end commit id of each version
          head,          \* the version that the index entry points to
          gc_set,        \* gc_set_ of each transaction
          garbage_eid,   \* epoch_id_ of each garbage context
          unlink_queue,  \* unlink_queues_[0]
          local_queue,   \* local_unlink_queues_[0]
          garbages,      \* the contexts that Unlink has collected
          reclaim_map,   \* reclaim_maps_[0]: <<safe epoch, context>>
          recycled,      \* the versions that were reset
          gpc,           \* where the GC thread is
          witnesses      \* history: who was registered when a version retired,
                         \* and has been ever since

vvars == <<begin_cid, end_cid, head, gc_set, witnesses>>
gvars == <<unlink_queue, local_queue, garbages, reclaim_map, recycled, gpc>>
vars == <<evars, vvars, gvars, garbage_eid>>

Versions == Txns \cup {Loader}

Init ==
  /\ EpochInit({0})
  /\ begin_cid = [v \in Versions |-> IF v = Loader THEN Cid(1, 0) ELSE MAX_CID]
  /\ end_cid = [v \in Versions |-> MAX_CID]
  /\ head = Loader
  /\ gc_set = [t \in Txns |-> {}]
  /\ witnesses = [v \in Versions |-> {}]
  /\ garbage_eid = [t \in Txns |-> 0]
  /\ unlink_queue = {} /\ local_queue = {} /\ garbages = {}
  /\ reclaim_map = {} /\ recycled = {} /\ gpc = "ask"

---------------------------------------------------------------------------
(* The end of a transaction *)

Stay == UNCHANGED <<current, snapshot, next_txn_id, lvars, avars, loaded, read_id,
                    commit_id, xvars, gvars, garbage_eid>>

\* An empty version: it was rolled back, or stands for a deleted tuple.
Empty(v) == v \in Txns /\ v \in gc_set[v]

\* The version that IsVisible finds visible.
Sees(t, v) == /\ ~Empty(v)
              /\ begin_cid[v] <= read_id[t] /\ read_id[t] < end_cid[v]

\* t sees the tuple and can own its newest version, which a SNAPSHOT
\* transaction need not see: the update executor checks that it is not newer
\* than the commit id of t, the delete executor does not.
Deletable(t) == /\ level[t] # "READ_ONLY"
                /\ \E v \in Versions \ recycled : Sees(t, v)
                /\ ~Empty(head) /\ end_cid[head] = MAX_CID
                /\ level[t] = "SNAPSHOT" \/ Sees(t, head)

Writable(t) == Deletable(t) /\ begin_cid[head] <= commit_id[t]

Retire(t, S) ==
  /\ gc_set' = [gc_set EXCEPT ![t] = S]
  /\ witnesses' = [v \in Versions |-> IF v \in S THEN Registered \ {t}
                                      ELSE witnesses[v]]

\* CommitTransaction, nothing written.
CommitRead(t) == /\ pc[t] = "active"
                 /\ Move(t, "exit")
                 /\ Stay /\ UNCHANGED vvars

\* CommitTransaction, an update: the new version replaces the old one.
CommitUpdate(t) ==
  /\ pc[t] = "active" /\ Writable(t)
  /\ begin_cid' = [begin_cid EXCEPT ![t] = commit_id[t]]
  /\ end_cid' = [end_cid EXCEPT ![head] = commit_id[t]]
  /\ head' = t
  /\ Retire(t, {head})
  /\ Move(t, "exit") /\ Stay

\* CommitTransaction, a deletion: the new version is an empty one, and both
\* are garbage.  The index entry is the collector's business.
CommitDelete(t) ==
  /\ pc[t] = "active" /\ Deletable(t)
  /\ begin_cid' = [begin_cid EXCEPT ![t] = commit_id[t]]
  /\ end_cid' = [end_cid EXCEPT ![head] = commit_id[t]]
  /\ head' = t
  /\ Retire(t, {head, t})
  /\ Move(t, "exit") /\ Stay

\* AbortTransaction after an update or a deletion: the index entry points to the old
\* version again, and the new one is garbage.
Abort(t) == /\ pc[t] = "active" /\ Deletable(t)
            /\ Retire(t, {t})
            /\ Move(t, "exit") /\ Stay
            /\ UNCHANGED <<begin_cid, end_cid, head>>

\* EndTransaction leaves the epoch first ...
EndExit(t) == /\ ExitEpoch(t)
              /\ witnesses' = [v \in Versions |-> witnesses[v] \ {t}]
              /\ UNCHANGED <<begin_cid, end_cid, head, gc_set, gvars, garbage_eid>>

\* ... and then calls RecycleTransaction: a committed transaction's garbage
\* carries its epoch, an aborted one's the next epoch.  The transaction is
\* deleted.
Recycle(t) ==
  /\ pc[t] = "recycle"
  /\ IF gc_set[t] = {} THEN UNCHANGED <<garbage_eid, unlink_queue>>
     ELSE /\ garbage_eid' = [garbage_eid EXCEPT ![t] =
                IF begin_cid[t] # MAX_CID THEN EpochOf(read_id[t])
                ELSE current + 1]
          /\ unlink_queue' = unlink_queue \cup {t}
  /\ Move(t, "ended")
  /\ read_id' = [read_id EXCEPT ![t] = 0]
  /\ commit_id' = [commit_id EXCEPT ![t] = 0]
  /\ thread' = [thread EXCEPT ![t] = 0]
  /\ level' = [level EXCEPT ![t] = "SERIALIZABLE"]
  /\ UNCHANGED <<current, snapshot, next_txn_id, lvars, loaded, xvars, vvars,
                 local_queue, garbages, reclaim_map, recycled, gpc>>

---------------------------------------------------------------------------
(* The GC thread: TransactionLevelGCManager::Running *)

Data == <<vvars, garbage_eid, unlink_queue, local_queue, garbages, reclaim_map,
          recycled>>

GCLoad == gpc = "ask" /\ LoadCurrent /\ UNCHANGED <<Data, gpc>>

GCAsk(th) == gpc = "ask" /\ AskLocal(th) /\ UNCHANGED <<Data, gpc>>

GCExpired == /\ gpc = "ask" /\ todo = {}
             /\ FinishExpire /\ gpc' = "reclaim" /\ UNCHANGED Data

\* Mutant: a context is due one epoch too early.
DueEarly(entry) == entry[1] <= expired + 1

Due(entry) == entry[1] <= expired

\* Reclaim and AddToRecycleMap: the versions of a due context are reset.
ReclaimOne ==
  /\ gpc = "reclaim"
  /\ \E entry \in reclaim_map :
       /\ Due(entry) /\ \A other \in reclaim_map : entry[1] <= other[1]
       /\ reclaim_map' = reclaim_map \ {entry}
       /\ recycled' = recycled \cup gc_set[entry[2]]
  /\ UNCHANGED <<evars, vvars, garbage_eid, unlink_queue, local_queue, garbages,
                 gpc>>

\* Unlink: collect the contexts whose epoch has expired (deleting them from
\* the indexes is commented out in the code), keep the others for later ...
Expirable(t) == garbage_eid[t] <= expired

\* What one pass may take from the queue: all of it, or as much as its limit
\* allows (which part is left open: contexts are not kept in their order).
Attempt == {S \in SUBSET unlink_queue :
              \/ S = unlink_queue /\ Cardinality(S) <= MAX_ATTEMPT_COUNT
              \/ Cardinality(S) = MAX_ATTEMPT_COUNT}

\* Mutant: the contexts that were put off once are forgotten.
UnlinkForgets ==
  /\ gpc = "reclaim" /\ ~\E entry \in reclaim_map : Due(entry)
  /\ \E taken \in Attempt :
       /\ garbages' = {t \in taken \cup local_queue : Expirable(t)}
       /\ local_queue' = {t \in taken : ~Expirable(t)}
       /\ unlink_queue' = unlink_queue \ taken
  /\ gpc' = "mark"
  /\ UNCHANGED <<evars, vvars, garbage_eid, reclaim_map, recycled>>

Unlink ==
  /\ gpc = "reclaim" /\ ~\E entry \in reclaim_map : Due(entry)
  /\ \E taken \in Attempt :
       /\ garbages' = {t \in taken \cup local_queue : Expirable(t)}
       /\ local_queue' = {t \in taken \cup local_queue : ~Expirable(t)}
       /\ unlink_queue' = unlink_queue \ taken
  /\ gpc' = "mark"
  /\ UNCHANGED <<evars, vvars, garbage_eid, reclaim_map, recycled>>

\* Mutant: a context is filed under its own epoch.
MarkReclaimableAtOwn ==
  /\ gpc = "mark"
  /\ reclaim_map' = reclaim_map \cup {<<garbage_eid[t], t>> : t \in garbages}
  /\ garbages' = {}
  /\ StartExpire /\ gpc' = "ask"
  /\ UNCHANGED <<vvars, garbage_eid, unlink_queue, local_queue, recycled>>

\* ... and file them under the epoch that is current by then.  The next pass
\* begins.
MarkReclaimable ==
  /\ gpc = "mark"
  /\ reclaim_map' = reclaim_map \cup {<<current, t>> : t \in garbages}
  /\ garbages' = {}
  /\ StartExpire /\ gpc' = "ask"
  /\ UNCHANGED <<vvars, garbage_eid, unlink_queue, local_queue, recycled>>

GCNext == \/ GCLoad \/ (\E th \in Threads : GCAsk(th)) \/ GCExpired
          \/ ReclaimOne \/ Unlink \/ MarkReclaimable

Next == \/ Tick /\ UNCHANGED <<vvars, gvars, garbage_eid>>
        \/ \E t \in Txns :
             \/ BeginNext(t) /\ UNCHANGED <<vvars, gvars, garbage_eid>>
             \/ CommitRead(t) \/ CommitUpdate(t) \/ CommitDelete(t) \/ Abort(t)
             \/ EndExit(t) \/ Recycle(t)
        \/ GCNext

Spec == Init /\ [][Next]_vars

---------------------------------------------------------------------------
\* Types, and the ranges of epochs and commit ids.
TypeOK ==
  /\ EpochTypeOK
  /\ begin_cid \in [Versions -> 0..MAX_CID]
  /\ end_cid \in [Versions -> 0..MAX_CID]
  /\ head \in Versions /\ gc_set \in [Txns -> SUBSET Versions]
  /\ witnesses \in [Versions -> SUBSET Txns]
  /\ garbage_eid \in [Txns -> 0..MaxEpoch + 1]
  /\ unlink_queue \subseteq Txns /\ local_queue \subseteq Txns
  /\ garbages \subseteq Txns /\ reclaim_map \subseteq Epochs \X Txns
  /\ recycled \subseteq Versions
  /\ gpc \in {"ask", "reclaim", "mark"}

\* The two assertions of LocalEpoch (local_epoch.cpp, ExitEpoch and
\* GetExpiredEpochId): an epoch in which somebody is registered lies above
\* the bound of its context, whatever the collector and snapshot readers do
\* to that bound.
BoundIsBelowEpochs ==
  \A th \in Threads : \A e \in DOMAIN epochs[th] : lower[th] < e

\* No transaction that reads at its own timestamp runs in an epoch that the
\* collector has found expired (between its passes, and while it acts on the
\* result), although it asks the contexts one by one while others enter.
ExpiredIsOver ==
  gpc = "reclaim" =>
    \A t \in Registered :
      level[t] = "SERIALIZABLE" => EpochOf(read_id[t]) > expired

\* A version that was reset is visible to no running transaction that reads
\* at its own timestamp.
RecycledIsInvisible ==
  \A v \in recycled, t \in Txns :
    pc[t] = "active" /\ level[t] = "SERIALIZABLE" => ~Sees(t, v)

\* The grace period: whoever was registered when a version was replaced or
\* rolled back, and so may be standing on it in the version chain, has left
\* its epoch before the version is reset.
GracePeriod ==
  \A v \in recycled : witnesses[v] = {}

\* A version is handed to the collector once and stays with it: no garbage
\* is lost between the queues, and none is reset twice.
Holders(t) == {q \in {"queue", "local", "garbages", "map"} :
                 \/ q = "queue" /\ t \in unlink_queue
                 \/ q = "local" /\ t \in local_queue
                 \/ q = "garbages" /\ t \in garbages
                 \/ q = "map" /\ \E e \in Epochs : <<e, t>> \in reclaim_map}

NoGarbageIsLost ==
  \A t \in Txns : pc[t] = "ended" /\ gc_set[t] # {} =>
    \/ gc_set[t] \subseteq recycled /\ Holders(t) = {}
    \/ gc_set[t] \cap recycled = {} /\ Cardinality(Holders(t)) = 1
=============================================================================
