-------------------------- MODULE TimestampOrdering --------------------------
(***************************************************************************)
(* Peloton's multi-version timestamp ordering: class                       *)
(* TimestampOrderingTransactionManager of peloton/src/concurrency, driven  *)
(* by the index scan, update and delete executors, for the tuples of a     *)
(* table with a primary index.                                             *)
(*                                                                         *)
(* The versions of a tuple form a chain: the index entry points to the     *)
(* newest one, next to the older one.  A transaction has one commit id     *)
(* from its beginning; it looks for the version it sees, tells the version *)
(* that it was read, takes ownership of the newest version to write, and   *)
(* installs its versions when it commits.  The header fields are read and  *)
(* written without a lock, except that a spinlock of the version protects  *)
(* the last reader and the acquisition of ownership: what runs under it is *)
(* one action, and every other access that a concurrent transaction can    *)
(* notice is an action of its own.                                         *)
(*                                                                         *)
(* Transactions are named by their commit ids.  They run at SERIALIZABLE,  *)
(* except the readers, which are declared READ_ONLY and read a snapshot.   *)
(* Commit ids are handed out before the first statement, so a transaction  *)
(* may start working long after one with a larger id has ended.            *)
(***************************************************************************)
EXTENDS Integers, FiniteSets

CONSTANTS Keys,      \* the tuples
          Updaters,  \* commit ids of the SERIALIZABLE transactions
          Readers,   \* the READ_ONLY transactions
          MaxOps,    \* bound on the statements of an updater
          MaxReads   \* bound on the statements of a reader

INVALID_TXN_ID == 0
INITIAL_TXN_ID == 1
INVALID_CID == 0
Loader == 1          \* begin commit id of the versions that are there at first

ASSUME UpdatersAssumption == /\ IsFiniteSet(Updaters)
                             /\ Updaters \subseteq Nat \ {0, 1}
ASSUME ReadersAssumption == /\ Readers \cap Nat = {} /\ IsFiniteSet(Readers)
ASSUME MaxOpsAssumption == MaxOps \in Nat /\ MaxReads \in Nat

Txns == Updaters \cup Readers
Versions == Updaters \cup {Loader}   \* of a tuple, named after the writer
NULL == 0                            \* INVALID_ITEMPOINTER
MAX_CID == 1 + CHOOSE c \in Versions : \A d \in Versions : d <= c

VARIABLES tuple,   \* the header of each version of each tuple
          head,    \* the ItemPointer of each index entry
          rw_set,  \* what each transaction has written, per tuple
          pc,      \* where each transaction is
          op,      \* its statement: what it does, to which tuple, and where
                   \* in the version chain it is
          ops,     \* how many statements it has executed while it runs
          todo,    \* the tuples it still has to install or roll back
          read_id, \* read_id_ of the readers: the snapshot they see
          reads    \* history: the versions of other transactions that a
                   \* running or committed transaction has read

vars == <<tuple, head, rw_set, pc, op, ops, todo, read_id, reads>>

(***************************************************************************)
(* pc[t] is "idle" between statements (and before the first), and then     *)
(*   visible   about to call IsVisible on the version at op.loc            *)
(*   cids      inside IsVisible, the transaction id of the version loaded  *)
(*   step      it was invisible: about to go on in the chain               *)
(*   perform   it was visible: about to call PerformRead                   *)
(*   own       read for a write: about to call IsOwnable                   *)
(*   acquire   about to call AcquireOwnership                              *)
(*   commit    between two tuples of CommitTransaction, in one of them at  *)
(*             c1, c2 or c3                                                *)
(*   abort     between two tuples of AbortTransaction, in one at a1        *)
(* until it is "committed" or "aborted".                                   *)
(***************************************************************************)
EmptySlot == [txn |-> INVALID_TXN_ID, begin |-> MAX_CID, end |-> MAX_CID,
              prev |-> NULL, next |-> NULL, reader |-> 0]
Kinds == {"read", "update", "delete"}
NoOp == [kind |-> "none", key |-> NULL, loc |-> NULL, len |-> 0, txn |-> 0]

Init ==
  /\ tuple = [k \in Keys |-> [v \in Versions |->
                IF v = Loader
                THEN [EmptySlot EXCEPT !.txn = INITIAL_TXN_ID, !.begin = Loader]
                ELSE EmptySlot]]
  /\ head = [k \in Keys |-> Loader]
  /\ rw_set = [t \in Txns |-> [k \in Keys |-> "NONE"]]
  /\ pc = [t \in Txns |-> "idle"]
  /\ op = [t \in Txns |-> NoOp]
  /\ ops = [t \in Txns |-> 0]
  /\ todo = [t \in Txns |-> {}]
  /\ read_id = [t \in Txns |-> IF t \in Updaters THEN t ELSE 0]
  /\ reads = [t \in Txns |-> [k \in Keys |-> {}]]

Move(t, p) == pc' = [pc EXCEPT ![t] = p]
At(t) == tuple[op[t].key][op[t].loc]
Set(k, v, h) == tuple' = [tuple EXCEPT ![k][v] = h]

---------------------------------------------------------------------------
(* Statements: IndexScanExecutor::ExecPrimaryIndexLookup *)

\* A reader gets the snapshot of an epoch all of whose transactions have
\* ended (EpochManager).
Ended(t) == pc[t] \in {"committed", "aborted"}

\* Mutant: a reader is given a snapshot that is still being written.
BeginReaderEarly(r) ==
  /\ r \in Readers /\ read_id[r] = 0
  /\ \E s \in Versions : read_id' = [read_id EXCEPT ![r] = s]
  /\ UNCHANGED <<tuple, head, rw_set, pc, op, ops, todo, reads>>

BeginReader(r) ==
  /\ r \in Readers /\ read_id[r] = 0
  /\ \E s \in Versions :
       /\ \A t \in Updaters : t <= s => Ended(t)
       /\ read_id' = [read_id EXCEPT ![r] = s]
  /\ UNCHANGED <<tuple, head, rw_set, pc, op, ops, todo, reads>>

\* A statement looks its tuple up in the index.
Start(t, kind, k) ==
  /\ pc[t] = "idle" /\ read_id[t] # 0
  /\ ops[t] < (IF t \in Readers THEN MaxReads ELSE MaxOps)
  /\ t \in Readers => kind = "read"
  /\ op' = [op EXCEPT ![t] = [NoOp EXCEPT !.kind = kind, !.key = k,
                                           !.loc = head[k], !.len = 1]]
  /\ ops' = [ops EXCEPT ![t] = @ + 1]
  /\ Move(t, "visible")
  /\ UNCHANGED <<tuple, head, rw_set, todo, read_id, reads>>

\* TransactionManager::IsVisible loads the transaction id of the version and
\* then its commit ids, which CommitBegin and CommitEnd set meanwhile.
LoadTransactionId(t) ==
  /\ pc[t] = "visible" /\ Move(t, "cids")
  /\ op' = [op EXCEPT ![t].txn = At(t).txn]
  /\ UNCHANGED <<tuple, head, rw_set, ops, todo, read_id, reads>>

\* Mutant: a version that was not installed yet counts as visible.
VisibilityOfTheOwned(t, h) ==
  LET over == read_id[t] >= h.end
  IN CASE h.txn = INVALID_TXN_ID -> "INVISIBLE"
       [] h.end = INVALID_CID -> "DELETED"
       [] OTHER -> IF over THEN "INVISIBLE" ELSE "OK"

Visibility(t, h) ==
  LET activated == read_id[t] >= h.begin
      invalidated == read_id[t] >= h.end
  IN CASE h.txn = INVALID_TXN_ID ->
            IF activated /\ ~invalidated THEN "DELETED" ELSE "INVISIBLE"
       [] h.txn = t ->
            CASE h.begin = MAX_CID /\ h.end # INVALID_CID -> "OK"
              [] h.end = INVALID_CID -> "DELETED"
              [] OTHER -> "INVISIBLE"
       [] OTHER ->
            IF h.begin # MAX_CID /\ activated /\ ~invalidated THEN "OK"
            ELSE "INVISIBLE"

\* The statement is over; saw is what it has read of its tuple.
Done(t, saw) ==
  /\ Move(t, "idle")
  /\ reads' = [reads EXCEPT ![t][op[t].key] = @ \cup saw]
  /\ op' = [op EXCEPT ![t] = NoOp]

\* The statement fails: the transaction is aborted.
Written(t) == {k \in Keys : rw_set[t][k] # "NONE"}

Fail(t) == /\ Move(t, IF Written(t) = {} THEN "aborted" ELSE "abort")
           /\ todo' = [todo EXCEPT ![t] = Written(t)]
           /\ op' = [op EXCEPT ![t] = NoOp]
           /\ ops' = [ops EXCEPT ![t] = 0]
           /\ reads' = [reads EXCEPT ![t] = [k \in Keys |-> {}]]

\* One written tuple is finished, and with the last one the transaction.
Finish(t, busy, ended) ==
  /\ todo' = [todo EXCEPT ![t] = @ \ {op[t].key}]
  /\ Move(t, IF todo[t] = {op[t].key} THEN ended ELSE busy)
  /\ op' = [op EXCEPT ![t] = NoOp]

\* What a statement that finds no tuple has read.
Nothing == NULL

CheckVisible(t) ==
  LET vis == Visibility(t, [At(t) EXCEPT !.txn = op[t].txn])
      rest == op' = [op EXCEPT ![t].txn = 0]
  IN /\ pc[t] = "cids"
     /\ \/ vis = "DELETED" /\ Done(t, IF op[t].txn = t THEN {} ELSE {Nothing})
        \/ vis = "OK" /\ Move(t, "perform") /\ rest /\ UNCHANGED reads
        \/ vis = "INVISIBLE" /\ Move(t, "step") /\ rest /\ UNCHANGED reads
     /\ UNCHANGED <<tuple, head, rw_set, ops, todo, read_id>>

\* Mutant: back to the head from every released version.
ReplacedAlways(t) == At(t).txn = INITIAL_TXN_ID

\* An invisible version: back to the head of the chain if it has been replaced
\* meanwhile, or on to the older version.
Replaced(t) == At(t).txn = INITIAL_TXN_ID /\ At(t).end <= read_id[t]

StepChain(t) ==
  /\ pc[t] = "step"
  /\ \/ /\ Replaced(t)
        /\ op' = [op EXCEPT ![t].loc = head[op[t].key], ![t].len = 1]
        /\ Move(t, "visible") /\ UNCHANGED <<todo, ops, reads>>
     \/ /\ ~Replaced(t) /\ At(t).next # NULL
        /\ op' = [op EXCEPT ![t].loc = At(t).next, ![t].len = 2]
        /\ Move(t, "visible") /\ UNCHANGED <<todo, ops, reads>>
     \/ /\ ~Replaced(t) /\ At(t).next = NULL /\ op[t].len = 1
        /\ Done(t, {Nothing}) /\ UNCHANGED <<todo, ops>>
     \/ /\ ~Replaced(t) /\ At(t).next = NULL /\ op[t].len # 1
        /\ Fail(t)
  /\ UNCHANGED <<tuple, head, rw_set, read_id>>

\* Mutant: the last reader is overwritten instead of raised.
LastReaderOverwritten(h, t) == [h EXCEPT !.reader = t]

\* SetLastReaderCommitId, under the spinlock of the version.
SetLastReaderCommitId(h, t) == [h EXCEPT !.reader = IF @ < t THEN t ELSE @]

\* PerformRead: READ_ONLY reads without a trace; SERIALIZABLE reads its own
\* version, or raises the last reader of a version that nobody owns.
PerformRead(t) ==
  LET after == op[t].kind # "read"
      own == At(t).txn = t
  IN /\ pc[t] = "perform"
     /\ \/ /\ t \in Readers
           /\ Done(t, {op[t].loc}) /\ UNCHANGED <<tuple, todo, ops>>
        \/ /\ t \in Updaters /\ (own \/ At(t).txn = INITIAL_TXN_ID)
           /\ IF own THEN UNCHANGED tuple
              ELSE Set(op[t].key, op[t].loc, SetLastReaderCommitId(At(t), t))
           /\ IF after
              THEN /\ Move(t, "own") /\ UNCHANGED op
                   /\ reads' = [reads EXCEPT ![t][op[t].key] =
                                  IF own THEN @ ELSE @ \cup {op[t].loc}]
              ELSE Done(t, IF own THEN {} ELSE {op[t].loc})
           /\ UNCHANGED <<todo, ops>>
        \/ /\ t \in Updaters /\ ~own /\ At(t).txn # INITIAL_TXN_ID
           /\ Fail(t) /\ UNCHANGED tuple
     /\ UNCHANGED <<head, rw_set, read_id>>

---------------------------------------------------------------------------
(* UpdateExecutor::DExecute and DeleteExecutor::DExecute *)

\* The transaction has written this version itself: it changes it in place.
IsOwnVersion(t) == pc[t] = "own" /\ At(t).txn = t /\ At(t).begin = MAX_CID

UpdateInPlace(t) ==
  /\ IsOwnVersion(t) /\ op[t].kind = "update"
  /\ Done(t, {}) /\ UNCHANGED <<tuple, head, rw_set, ops, todo, read_id>>

DeleteInPlace(t) ==
  /\ IsOwnVersion(t) /\ op[t].kind = "delete"
  /\ Set(op[t].key, op[t].loc, [At(t) EXCEPT !.end = INVALID_CID])
  /\ rw_set' = [rw_set EXCEPT ![t][op[t].key] = "DELETE"]
  /\ Done(t, {}) /\ UNCHANGED <<head, ops, todo, read_id>>

\* Mutant: a version that was replaced meanwhile can be owned.
OwnableIfReleased(t) == At(t).txn = INITIAL_TXN_ID

Ownable(t) == At(t).txn = INITIAL_TXN_ID /\ At(t).end = MAX_CID

IsOwnable(t) ==
  /\ pc[t] = "own" /\ At(t).txn # t
  /\ \/ Ownable(t) /\ Move(t, "acquire") /\ UNCHANGED <<op, todo, ops, reads>>
     \/ ~Ownable(t) /\ Fail(t)
  /\ UNCHANGED <<tuple, head, rw_set, read_id>>

\* AcquireOwnership: nobody with a larger commit id may have read the version.
\* PerformUpdate and PerformDelete then link the new version in, which becomes
\* reachable with their last write, that of the index entry (whoever loads
\* the entry before that might as well have loaded it before the acquisition).
Acquirable(t) == At(t).reader <= t /\ At(t).txn = INITIAL_TXN_ID

Install(t, end, type) ==
  LET k == op[t].key
      old == op[t].loc
      old_prev == At(t).prev
      new == [EmptySlot EXCEPT !.txn = t, !.end = end, !.prev = old_prev, !.next = old]
  IN /\ pc[t] = "acquire" /\ Acquirable(t)
     /\ tuple' = [tuple EXCEPT ![k] = [v \in Versions |->
                    CASE v = t -> new
                      [] v = old -> [@[v] EXCEPT !.txn = t, !.prev = t]
                      [] v = old_prev -> [@[v] EXCEPT !.next = t]
                      [] OTHER -> @[v]]]
     /\ head' = [head EXCEPT ![k] = IF old_prev = NULL THEN t ELSE @]
     /\ rw_set' = [rw_set EXCEPT ![t][k] = type]
     /\ Done(t, {}) /\ UNCHANGED <<ops, todo, read_id>>

PerformUpdate(t) == op[t].kind = "update" /\ Install(t, MAX_CID, "UPDATE")
PerformDelete(t) == op[t].kind = "delete" /\ Install(t, INVALID_CID, "DELETE")

AcquireFails(t) ==
  /\ pc[t] = "acquire" /\ ~Acquirable(t) /\ Fail(t)
  /\ UNCHANGED <<tuple, head, rw_set, read_id>>

---------------------------------------------------------------------------
(* CommitTransaction: each written tuple is installed in four steps *)

Commit(t) == /\ pc[t] = "idle" /\ read_id[t] # 0
             /\ Move(t, IF Written(t) = {} THEN "committed" ELSE "commit")
             /\ todo' = [todo EXCEPT ![t] = Written(t)]
             /\ ops' = [ops EXCEPT ![t] = 0]
             /\ UNCHANGED <<tuple, head, rw_set, op, read_id, reads>>

Old(t) == tuple[op[t].key][t].next   \* the version that t replaces

\* begin and end commit id of the new version ...
CommitBegin(t) ==
  /\ pc[t] = "commit"
  /\ \E k \in todo[t] :
       LET old == tuple[k][t].next
       IN /\ op' = [op EXCEPT ![t] = [NoOp EXCEPT !.key = k]]
          /\ Set(k, t, [tuple[k][t] EXCEPT !.begin = t, !.end = tuple[k][old].end])
  /\ Move(t, "c1")
  /\ UNCHANGED <<head, rw_set, ops, todo, read_id, reads>>

\* ... then the end of the old version ...
CommitEnd(t) ==
  LET k == op[t].key
  IN /\ pc[t] = "c1" /\ Move(t, "c2")
     /\ Set(k, Old(t), [tuple[k][Old(t)] EXCEPT !.end = t])
     /\ UNCHANGED <<head, rw_set, op, ops, todo, read_id, reads>>

\* ... then the new version is released (an empty one stays invalid) ...
CommitNew(t) ==
  LET k == op[t].key
  IN /\ pc[t] = "c2" /\ Move(t, "c3")
     /\ Set(k, t, [tuple[k][t] EXCEPT !.txn =
              IF rw_set[t][k] = "DELETE" THEN INVALID_TXN_ID ELSE INITIAL_TXN_ID])
     /\ UNCHANGED <<head, rw_set, op, ops, todo, read_id, reads>>

\* ... and the old one.
CommitOld(t) ==
  LET k == op[t].key
  IN /\ pc[t] = "c3" /\ Finish(t, "commit", "committed")
     /\ Set(k, Old(t), [tuple[k][Old(t)] EXCEPT !.txn = INITIAL_TXN_ID])
     /\ UNCHANGED <<head, rw_set, ops, read_id, reads>>

---------------------------------------------------------------------------
(* AbortTransaction: the index entry is reset before the versions are freed *)

UserAbort(t) == /\ t \in Updaters /\ pc[t] = "idle" /\ Fail(t)
                /\ UNCHANGED <<tuple, head, rw_set, read_id>>

\* Mutant: the index entry is left alone.
AbortHeadKeeps(t) ==
  /\ pc[t] = "abort"
  /\ \E k \in todo[t] :
       /\ op' = [op EXCEPT ![t] = [NoOp EXCEPT !.key = k]]
       /\ Set(k, t, [tuple[k][t] EXCEPT !.begin = MAX_CID, !.end = MAX_CID])
  /\ Move(t, "a1")
  /\ UNCHANGED <<head, rw_set, ops, todo, read_id, reads>>

AbortHead(t) ==
  /\ pc[t] = "abort"
  /\ \E k \in todo[t] :
       /\ op' = [op EXCEPT ![t] = [NoOp EXCEPT !.key = k]]
       /\ Set(k, t, [tuple[k][t] EXCEPT !.begin = MAX_CID, !.end = MAX_CID])
       /\ head' = [head EXCEPT ![k] =
                     IF tuple[k][t].prev = NULL THEN tuple[k][t].next ELSE @]
  /\ Move(t, "a1")
  /\ UNCHANGED <<rw_set, ops, todo, read_id, reads>>

\* The new version becomes invalid (it was invisible before, as it is now), the
\* old one is linked to the newer ones again and released.
AbortUnlink(t) ==
  LET k == op[t].key
      prev == tuple[k][t].prev
  IN /\ pc[t] = "a1" /\ Finish(t, "abort", "aborted")
     /\ tuple' = [tuple EXCEPT ![k] = [v \in Versions |->
                    CASE v = t -> [@[v] EXCEPT !.txn = INVALID_TXN_ID]
                      [] v = Old(t) -> [@[v] EXCEPT !.prev = prev,
                                                    !.txn = INITIAL_TXN_ID]
                      [] v = prev -> [@[v] EXCEPT !.next = Old(t)]
                      [] OTHER -> @[v]]]
     /\ UNCHANGED <<head, rw_set, ops, read_id, reads>>

---------------------------------------------------------------------------
\* The steps of a transaction that has something to do.
Work(t) == \/ LoadTransactionId(t) \/ CheckVisible(t) \/ StepChain(t)
           \/ PerformRead(t) \/ UpdateInPlace(t) \/ DeleteInPlace(t)
           \/ IsOwnable(t) \/ PerformUpdate(t) \/ PerformDelete(t) \/ AcquireFails(t)
           \/ CommitBegin(t) \/ CommitEnd(t) \/ CommitNew(t) \/ CommitOld(t)
           \/ AbortHead(t) \/ AbortUnlink(t)

\* What a client decides.
Client(t) == \/ BeginReader(t)
             \/ \E kind \in Kinds, k \in Keys : Start(t, kind, k)
             \/ Commit(t) \/ UserAbort(t)

Next == \E t \in Txns : Work(t) \/ Client(t)

Spec == Init /\ [][Next]_vars
FairSpec == Spec /\ \A t \in Txns : WF_vars(Work(t))

---------------------------------------------------------------------------
Committing == {"commit", "c1", "c2", "c3"}

\* The writers of a tuple that have committed, or are committing it already.
Installed(k) == {Loader} \cup
  {t \in Updaters : /\ rw_set[t][k] # "NONE"
                    /\ \/ pc[t] = "committed"
                       \/ pc[t] \in Committing /\ k \notin todo[t]}

\* No dirty read (anomaly_test.cpp): what a transaction reads, and did not
\* write itself, is a version of a transaction that commits.
ReadsAreCommitted ==
  \A t \in Txns, k \in Keys : \A v \in reads[t][k] \ {Nothing, Loader} :
    v # t => pc[v] \in Committing \cup {"committed"}

\* No dirty write and no lost update: the installed versions of a tuple follow
\* each other without gap or overlap, each one linked to the one it replaced.
Newer(k, v) == {w \in Installed(k) : w > v}
Successor(k, v) == CHOOSE w \in Newer(k, v) : \A x \in Newer(k, v) : w <= x

InFlight(k) == \E t \in Updaters : pc[t] \in {"c1", "c2", "c3"} /\ op[t].key = k

VersionsPartitionTime ==
  \A k \in Keys : ~InFlight(k) =>
    \A v \in Installed(k) :
      /\ tuple[k][v].begin = v
      /\ IF Newer(k, v) = {} THEN tuple[k][v].end = MAX_CID
         ELSE /\ tuple[k][v].end = Successor(k, v)
              /\ tuple[k][Successor(k, v)].next = v

\* A transaction that has ended owns nothing, and a transaction that aborted
\* has left no trace: its versions are invalid and no index entry leads there.
NothingIsLeft ==
  \A t \in Updaters : Ended(t) =>
    \A k \in Keys :
      /\ \A v \in Versions : tuple[k][v].txn # t
      /\ pc[t] = "aborted" =>
           /\ head[k] # t /\ tuple[k][t].txn = INVALID_TXN_ID
           /\ \A v \in Installed(k) : t \notin {tuple[k][v].prev, tuple[k][v].next}

\* The rule of timestamp ordering: a write that comes too late is rejected.  A
\* transaction never takes ownership of a version that a transaction with a
\* larger commit id has read, however the two ran up to then.  (The rule says
\* nothing of a read that comes after the write: see ReadsOneState.)
LateWritesAreRejected ==
  [][\A w \in Updaters, k \in Keys :
       rw_set[w][k] = "NONE" /\ rw_set'[w][k] # "NONE" =>
         \A t \in Updaters : op[w].loc \in reads[t][k] => t <= w]_vars

\* A READ_ONLY transaction reads exactly its snapshot, while others install
\* and roll back versions around it: of every tuple the version of the last
\* transaction up to its read id that wrote it, or nothing if that deleted it.
\* And "a pre-declared read-only transaction will never abort", as
\* AbortTransaction asserts: its walk down a chain always ends at a version.
SnapshotVersion(k, s) ==
  LET last == CHOOSE v \in Installed(k) : /\ v <= s
                /\ \A w \in Installed(k) : w <= s => w <= v
  IN IF last # Loader /\ rw_set[last][k] = "DELETE" THEN Nothing ELSE last

ReadersSeeTheirSnapshot ==
  \A r \in Readers :
    /\ pc[r] \notin {"abort", "aborted"}
    /\ \A k \in Keys : \A v \in reads[r][k] : v = SnapshotVersion(k, read_id[r])

\* A transaction that has committed has read one state of the database, as the
\* tests of fuzzy read and read skew (anomaly_test.cpp) expect: at most one
\* version of each tuple besides its own, and with a version of another one no
\* older version of a tuple that the other one wrote as well.
NoFuzzyRead(t) == \A k \in Keys : Cardinality(reads[t][k]) <= 1
NoReadSkew(t) ==
  \A w \in Updaters, k, l \in Keys :
    w \in reads[t][l] /\ w \in Installed(k) =>
      \A v \in reads[t][k] \ {Nothing} : w <= v

ReadsOneState ==
  \A t \in Txns : pc[t] = "committed" => NoFuzzyRead(t) /\ NoReadSkew(t)

\* Every statement, commit and rollback ends: a reader does not run up and
\* down a version chain for ever while others change it.
WorkEnds == \A t \in Txns :
  pc[t] # "idle" ~> pc[t] \in {"idle", "committed", "aborted"}
=============================================================================
