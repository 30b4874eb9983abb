# Verification of the storage engine of `15445` and the transactions of `peloton`

The repository is a collection of course projects. Two of them are systems with
logic of their own. The storage engine under `src/15445/src` is written here: a
database file, a buffer pool, slotted pages, a table heap and the beginnings of
a B+ tree, offered to sqlite as virtual tables. `src/peloton` is the database
system of the same course, of which this project takes the core that runs
concurrently: epochs, multi-version timestamp ordering and garbage collection.
Both are modelled in TLA+ and checked with TLC on small instances; what matters
most of both is proved with TLAPS for every size that the named assumptions
allow.

## Inventory

| Component (`15445/src/...`) | State | Operations | Hard behaviour |
|---|---|---|---|
| `include/common/rwmutex.h` RWMutex | `reader_count_`, `writer_entered_`, two condition variables | WLock, WUnlock, RLock, RUnlock | interleavings, lost wakeups, the limit of readers |
| `buffer/lru_replacer.cpp` LRUReplacer | `_orderList`, `_map` of list iterators | Insert, Victim, Erase, Size | Insert is two critical sections; iterators outlive nodes |
| `hash/extendible_hash.cpp` ExtendibleHash | directory, buckets, depths | Find, Insert, Remove | several splits within one Insert, buckets far above the directory |
| `disk/disk_manager.cpp` DiskManager | the file, `next_page_id_` | ReadPage, WritePage, AllocatePage, DeallocatePage | pages past the end of the file, restart |
| `buffer/buffer_pool_manager.cpp` BufferPoolManager | frames, page table, free list, replacer | FetchPage, UnpinPage, FlushPage, FlushAllPages, DeletePage, NewPage | four structures that must agree, dirty flags of shared pages, a full pool |
| `page/table_page.cpp` TablePage | header, slots, bytes of one page | Insert-, Update-, Delete-, GetTuple, First- and NextTupleRid | moving bytes, offsets of other tuples, a page full to the byte |
| `table/table_heap.cpp`, `table_iterator.cpp` | a list of pages in the pool; `rid_` | constructor, Insert-, Update-, Delete-, GetTuple, begin, `operator++` | pages pinned across pool calls, changes during a scan |
| `vtable/virtual_table.cpp` | the pool, one table per virtual table | VtabCreate, Connect, Disconnect, Update, cursor | several pool users in one call |
| `page/header_page.cpp` | records name/root in page 0 | Insert-, Update-, DeleteRecord, GetRootId | no check that there is room |
| `index/`, `page/b_plus_tree_*.cpp` | the index tree | Insert, Remove, GetValue, iterator | partly written: removal, merging and the iterator are stubs |
| `table/tuple.cpp`, `catalog/`, `type/` | none shared | conversions of values and bytes | none that interleaves |

| Component (`peloton/src/...`) | State | Operations | Hard behaviour |
|---|---|---|---|
| `concurrency/local_epoch.cpp`, `decentralized_epoch_manager.cpp` | epochs of each thread, the current and the snapshot epoch | EnterEpoch, ExitEpoch, GetExpiredEpochId, the epoch thread | no lock across threads; asked one by one while transactions enter |
| `concurrency/timestamp_ordering_transaction_manager.cpp`, `transaction_manager.cpp` | headers of the versions, read/write sets | IsVisible, PerformRead, IsOwnable, AcquireOwnership, PerformUpdate, PerformDelete, CommitTransaction, AbortTransaction | headers read and written without a lock |
| `executor/index_scan_executor.cpp`, `update_executor.cpp`, `delete_executor.cpp` | where a statement is in a version chain | the primary index lookup, DExecute | chains that change under the reader |
| `gc/transaction_level_gc_manager.cpp` | unlink queues, reclaim map | RecycleTransaction, Unlink, Reclaim | a version in use must not be reset |
| `index/`, `storage/`, the other executors, `codegen/`, `parser/`, `optimizer/`, `planner/`, `catalog/`, `type/`, `wire/`, `networking/`, `statistics/`, `brain/`, `logging/` | | | not modelled, see below |

Outside these two: three versions of the tiny shell `tsh.c` (in
`15213/tshlab-handout` eval and the signal handlers are still to be written, in
`15213/spring15213-master/tshlab-handout` there is an `eval` and the handlers are
stubs, and `mytest/tsh.c` there has `eval`, the built-ins and the handlers, on a
job list they share), the allocator `15213/malloclab-handout/mm.c`, the proxy,
and the select loop `15441/project1/echo_server.c`; the rest is exercises,
starter code, notebooks and vendored code (sqlite, googletest).

How they interact. A virtual table calls its table heap, the heap and its
iterator call the buffer pool page by page, and work through pointers into
frames between FetchPage or NewPage and UnpinPage. The pool keeps its page table
in an ExtendibleHash and its replaceable frames in an LRUReplacer, and reads and
writes pages through the disk manager. The replacer and the hash table lock
themselves; the pool does not (`free_list_latch_` is never used), so the pool,
and what is above it, is called by one thread at a time. RWMutex is the latch
for concurrent users of a page.

In Peloton a transaction enters the epoch context of its thread when it begins
and gets its ids from the epoch. Its statements find a version through an index
entry and a version chain, and take ownership of the newest version to write.
Commit and rollback change the headers of the versions, hand the versions that
are garbage to the collector, and leave the epoch. The collector thread asks the
epoch manager which epochs are over, resets versions, and thereby moves the
epoch that later snapshot readers get.

What makes them correct:

- latch: a writer is alone, no sleeper is forgotten, an entered writer gets in;
- replacer: list and map agree whatever threads race;
- hash table: it is a map, across any number of splits;
- pool: one frame per page and one table entry per frame, a frame that nobody
  holds can be had again, no change lost when a frame is taken away, what is
  fetched is what was stored (the second only as long as no pinned frame is
  taken away, and the last two not always: see the findings and known limits);
- disk: an id is handed out once;
- page: tuples never overlap each other or the slots, no byte leaks, a tuple is
  unaffected by what happens to others;
- table: its pages are a list, rids are stable, no pin is left, a scan misses
  nothing;
- epochs: what is reported as expired is over, and stays so;
- transactions: no dirty read, no lost update, snapshots that do not move,
  rollbacks without a trace, statements that end;
- collector: nothing that can be seen or stood on is reset, nothing is lost.

`PROJECT.json` lists the hazards, each at its line, with the properties that
cover it.

## Modules

| Module | Models | Notes |
|---|---|---|
| `ReadWriteLock` | what a latch with writer priority promises | abstract |
| `RWMutex` | RWMutex | implements `ReadWriteLock` |
| `RWMutexProofs` | | theorems |
| `LRUReplacer` | LRUReplacer | nodes have addresses that are reused |
| `LRUReplacerProofs` | | theorems |
| `HashTable` | the interface `hash_table.h` | abstract |
| `ExtendibleHash` | HashPage, ExtendibleHash | one split per step; implements `HashTable` |
| `DiskManager` | DiskManager | operators, used by the pool |
| `BufferPoolManager` | BufferPoolManager and its callers | extends `DiskManager` |
| `BufferPoolProofs` | | theorems |
| `TupleStore` | what a page of tuples promises | abstract |
| `TablePage` | TablePage, byte by byte | implements `TupleStore` |
| `TablePageProofs` | | theorems |
| `TableHeap` | TableHeap, TableIterator, creation of a virtual table | extends `BufferPoolManager` |
| `TableHeapProofs` | | theorems, extends `BufferPoolProofs` |
| `EpochManager` | LocalEpoch, DecentralizedEpochManager, BeginTransaction | no specification of its own |
| `GarbageCollector` | TransactionLevelGCManager, EndTransaction | extends `EpochManager` |
| `GarbageProofs` | | theorems about both |
| `TimestampOrdering` | the transaction manager and three executors | on one or more tuples with their version chains |
| `VersionChainProofs` | | lemmas about the version chain of one tuple |
| `TimestampProofs` | | theorems, extends `VersionChainProofs` |
| `MC...` | instances for TLC | |

**RWMutex.** The variables are the two members and where each thread is. The
code between two waits holds `mutex_` and is one action. A sleeper wakes by a
notification or spuriously; `notify_one` picks any sleeper.

**LRUReplacer.** `Erase` and `Victim` are one critical section, `Insert` two:
another thread may run in between. `_map` is an ExtendibleHash, which can hold a
key twice, and is a sequence of pairs of which Find and Remove take the first. A
new node gets any free address, as from an allocator.

**ExtendibleHash.** Every method holds the mutex. Insert is a call, one step per
split, and the store. Buckets live in `page` and are reset when no directory
entry refers to them, as `shared_ptr` frees them.

**BufferPoolManager.** One action per method. The page table and the replacer
are the data they hold. The page table is made with buckets of 100
(`buffer_pool_manager.cpp:17`), so that it never splits in a pool of at most
100 frames, and `PoolSizeAssumption` keeps to these (sqlite's pool has 10, the
tests' 50); in a larger one it is the hash table of `hash` and `hash_skew`. The
replacer has one caller; its map of iterators has buckets of 8 and may split,
and is taken to be a map, which it is up to the case of `hash_skew`. `PinSpec`
is the pool up to the first time that it takes a frame away from a pinned page.
`Clients` stands for the callers: each holds at most one page, may write to it,
and says in UnpinPage whether it has. `live` remembers the pages created and
not deleted.

**TablePage.** `offset`, `size`, `tuple_count` and `free_space_pointer` are the
header and slot array; `bytes` is the page. `memmove` and `memcpy` move real
bytes, so that an off-by-one shows as a damaged tuple.

**TableHeap.** Each operation is a sequence of steps with one pool call each;
`pc` says where it is. The pointers `cur_page`, `new_page` and the header page
are clients of the pool: a pointer is a frame, and when the pool gives the frame
to another page the pointer sees that page. A page is its links, the room left
and its slots; `TablePage` shows that this is what a page is. `table` is a
history of results: what the table should hold. `owed` is what an open scan
still has to return. `broken` records that the pool took a pinned frame, lost a
change, or returned something else than the page.
The branches that handle `FetchPage` returning `nullptr` are not modelled: one
thread pins at most two pages at a time, and while the pool keeps its contract
an unpinned frame is in one of the lists, so there is a frame for them.

**EpochManager.** A method of LocalEpoch holds its lock and is one action. The
manager's methods take no lock: every load of `current_global_epoch_id_` and
`snapshot_global_epoch_id_` is a step of its own, so that the epoch may advance
and the collector may pass between the load and the registration. A commit id is
an epoch and a counter, `CidWidth` being 2^32. When ExitEpoch does not find its
epoch, which the code asserts, the transaction stays where it is.

**GarbageCollector.** The data are the versions of one tuple, each named after
its writer; a commit is one step, because its protocol is the subject of
`TimestampOrdering`. The collector is the loop of `Running`: ask each context,
reclaim what is due, collect what has expired from the at most
`MAX_ATTEMPT_COUNT` contexts that one pass takes off the unlink queue, file it
under the epoch that is current by then. `witnesses` is a history variable: the transactions that were
registered when a version became garbage and have not left since.

**TimestampOrdering.** A transaction is named by its commit id. The fields of a
version's header are read and written one step at a time wherever another
transaction can notice, and what runs under the spinlock of a version is one
step. IsVisible loads the transaction id first and the commit ids later; the
check for a replaced version reads the header again. A commit is four stores per
tuple, a rollback two steps, tuple after tuple. `reads` is a history variable:
the versions of others that a transaction has read, or that it found nothing.
How READ_ONLY transactions get a snapshot whose transactions have all ended is
the business of the epochs, and a guard here.

## Runs

| Run | Expect | Shows |
|---|---|---|
| `rwmutex` | pass | exclusion, no lost wakeup, refinement, and progress of the latch |
| `lru` | pass | list and map agree under races; the window in Insert makes at most one copy per thread |
| `hash` | pass | the hash table is a map, its directory well formed between splits, Insert returns |
| `hash_skew` | violation | a bucket two levels above the directory splits wrongly |
| `buffer_pool` | pass | page table, frames and free list agree |
| `table_page` | pass | no overlap, no leak, refinement of `TupleStore` |
| `table_heap` | pass | list, rids, pins, frames and scans, while the pool keeps its contract |
| `table_heap_full` | violation | a new page takes the frame of the pinned page before it |
| `gc` | pass | an expired epoch is over; no version is reset too early, twice or never |
| `mvcc` | pass | no dirty read, no lost update, clean rollback, stable snapshots, late writes rejected |
| `mvcc_walk` | pass | every statement, commit and rollback ends |
| `mvcc_reads` | violation | a transaction reads a tuple twice with two results |

Bounds, and why they are enough.

- `rwmutex`: four threads, three readers. The limit is reached, a fourth waits
  at it, and two writers can compete with two readers. One thread more would
  break `ReaderSleepsForReason`, which needs at most `max_readers_ + 1`
  threads; with `UINT_MAX` readers no program has more.
- `lru`: three threads and two values: two threads in the window of Insert with
  a third calling Victim or Erase.
- `hash`: buckets of two and six keys, of which some hashes agree in up to two
  bits: one Insert splits twice, and buckets split right after the directory is
  doubled and, when another bucket had it doubled before, without a doubling.
  The keys are chosen so that no bucket that splits is further above the
  directory; `hash_skew` has that case. `MaxDepth` is as deep as these keys
  ever need.
- `buffer_pool`: two frames, three pages, two clients: a miss with the pool
  full, eviction, sharing and deletion all happen. Contents are zero or not.
- `table_page`: a page of ten bytes with tuples of one to three: it fills to
  the byte, slots are reused, updates grow and shrink tuples above others.
- `table_heap`: two frames for the header page and two pages of the table, of
  two slots each, and a small and a large tuple, so that an update changes what
  is stored and may not fit: pages with holes, slots taken again, scans within
  a page and across pages, insertions that a page has no room for, updates that
  are refused, eviction at every step. The `InsertTuple` guard bounds the
  number of pages. `table_heap_full` has three pages of one slot.
- `gc`: two transactions, two threads, four epochs. A version needs three
  epochs to be written, retired and reset, and a fourth lets a late transaction
  enter meanwhile. A pass takes one context off the unlink queue, so that some
  wait there for the next. Thread 0 is shared by transactions at SERIALIZABLE
  (REPEATABLE_READS and READ_COMMITTED begin alike), thread 1 runs one SNAPSHOT
  transaction at a time: see the known limits for why they are kept apart. The
  two transactions are interchangeable.
- `mvcc`: two updaters with two statements each on two tuples, and a reader:
  each of the two can be the later one, own one tuple and want the other's,
  commit in the middle of the other's walk, or roll back. The tuples are
  interchangeable. `mvcc_walk` has one tuple, `mvcc_reads` no reader.
- The violations use the same bounds and are found within seconds.

`table_heap` uses `ContractSpec`, which stops once the pool has broken its
contract: it shows that the table is right on a pool that is. The same table on the pool
as it is, `HeapSpec`, is what `table_heap_full` checks.

Deadlock is checked in every run but those of `TimestampOrdering`, where the
transactions of the instance end and nothing is left to do.

**Fairness.** `RWMutex!FairSpec` assumes weak fairness of each thread's own
steps: a runnable thread eventually gets the mutex, and a holder eventually
unlocks. It assumes nothing of who is notified or of spurious wakeups, and
nothing makes an idle thread call. `WriterGetsIn` says that a writer that has
entered gets in; `SomebodyGetsIn` that not everybody sleeps for ever. That a
particular reader gets in is not promised by the code and not checked.
`ExtendibleHash!FairSpec` assumes that a call of Insert keeps running.
`TimestampOrdering!FairSpec` assumes that a transaction with something to do
keeps running; clients need not go on, and nothing is assumed of who is first.

Every property of a passing run has a mutant, a definition that changes the
model as a plausible bug would, with which TLC finds the property violated.

## Findings

1. `hash_skew`: a split redirects two directory entries whatever the bucket's
   depth (`extendible_hash.cpp:193`). With a bucket two levels above the
   directory others keep the old bucket; an element is stored twice and survives
   its removal.
2. `table_heap_full`: FetchPage of a resident page does not take it out of the
   replacer (`buffer_pool_manager.cpp:55`), so a pinned page can be evicted:
   InsertTuple's `cur_page` and `new_page` become one frame, and the new page is
   not linked. The eviction of a pinned page loses the frame as well. Its pin
   stays on the frame: UnpinPage of the old page finds no entry and returns
   false, UnpinPage of the new one leaves a pin, and then nobody holds the frame,
   it is in neither list, and DeletePage refuses its page. `NoFrameIsLost` is
   therefore checked and proved of a pool that takes no pinned frame away
   (`ContractSpec`, `PinSpec`), and false of the pool as it is (`Spec`).
3. `mvcc_reads`: a SERIALIZABLE transaction looks at the only version of a
   tuple while one with a smaller commit id has set the end of that version and
   not released it yet. The version is invisible, does not count as replaced,
   and has no older one: the lookup breaks without a failure
   (`index_scan_executor.cpp:302`) and the tuple seems not to exist. A second
   read finds the new version.
   There is another way to violate `ReadsOneState`, with tuples that are found:
   SetLastReaderCommitId looks whether somebody owns the version, not whether it
   has been replaced (`timestamp_ordering_transaction_manager.cpp:58`). A
   transaction that found a version visible, and is delayed until one with a
   smaller commit id has replaced and released it, still marks and reads it, and
   then reads this tuple again, or another one of the same update, in its new
   version. TLC finds it with `NoReadSkew` alone in place of the conjunction.
   `LateWritesAreRejected` is not affected: at the time of the write nobody had
   read the version.

## Known limits of the code

Seen while modelling and not the subject of a run. They are part of the models,
but for the restart of DiskManager and the index entries.

- UnpinPage assigns `is_dirty_` (`buffer_pool_manager.cpp:100`): when the reader
  of a page unpins it after a writer, the change is not written back.
- ReadPage past the end of the file leaves the buffer alone
  (`disk_manager.cpp:56`): a page that was evicted clean before it was ever
  written reads as the former page of the frame. `PoolKeepsContract` states what
  this and the former take from a table, and `ContractSpec` stops there.
- The constructor of DiskManager sets `next_page_id_` to 0 on an existing file
  (`disk_manager.cpp:18`): ids in use are handed out after a restart.
- EnterEpoch for a snapshot loads `snapshot_global_epoch_id_` twice
  (`decentralized_epoch_manager.cpp:27` and `:29`). When the collector moves it
  in between, the read id names an epoch that was not entered, and ExitEpoch
  fails its assertion or, without assertions, throws.
- A snapshot reader moves the bound of its context down (`local_epoch.cpp:30`),
  and a transaction that is about to enter an epoch the collector has already
  passed is then accepted in that context. This is why `gc` keeps the two kinds
  of transactions in threads of their own; the code does not.
- A snapshot reader may be delayed between loading the snapshot epoch and
  registering for two passes of the collector, and find its versions reset.
  `RecycledIsInvisible` is therefore about transactions that read at their own
  timestamp; `GracePeriod` is about all that are registered.
- DeleteExecutor takes the newest version for a SNAPSHOT transaction without the
  check that UpdateExecutor makes (`delete_executor.cpp:107`,
  `update_executor.cpp:173`).
- Deleting index entries is commented out in the collector
  (`transaction_level_gc_manager.cpp:131`): the entry of a deleted tuple leads to
  an empty version that is reset.

## Proofs

All for every value of the constants that satisfies the named assumptions.

- `RWMutexProofs` (finite `Threads`, `MaxReaders` at least 1). `LatchInv` is
  inductive: the counter is the number of readers inside, `writer_entered_` is
  set exactly while one thread is between entering and WUnlock, a writer inside
  means the counter is zero, and a thread asleep in the drain loop has readers
  to wait for. The last conjunct is needed because exclusion alone says nothing
  of sleepers; the counter conjunct because exclusion is about threads and the
  code tests a number. Exclusion, types, `WritersAreWoken` and the refinement
  `LatchImplements` follow; `ReadersAreWoken` strengthens the invariant with the
  bound on the number of threads.
- `BufferPoolProofs` (any pool of 1 to 100 frames, any pages and contents, any
  finite set of clients). `PoolInv`, of the pool as it is, is types, one entry
  per resident page and one page per entry, blank frames on the free list once
  each, and frames with a page and no pin in the replacer. Each conjunct needs
  the others: that a victim is in the table, that a free frame is in no entry,
  that a deleted page's frame is blank. The lemmas say what the list operations
  do to membership and duplicates, and what giving a frame to a page does to the
  table. That is not enough for `NoFrameIsLost`, which is about holders and not
  about pin counts and is false of the pool as it is. Of `PinSpec` it is proved
  (`FramesComeBack`) with `PinInv`, which adds that the pin count of a frame is
  the number of its holders and that each holder's page is in its frame: so
  UnpinPage finds the page, and takes one holder and one pin away.
- `TablePageProofs` (any page, header and slot size, any set of non-empty
  tuples). `PageInv` says that slots and tuples fit, tuples are disjoint, and
  the bytes above the free space pointer are exactly those of tuples. The last
  is what makes the shift of DeleteTuple and UpdateTuple hit every tuple below
  and no other. One lemma per operation proves both that `PageInv` is preserved
  and that the step is one of `TupleStore`; `PageImplements` is the refinement.
  The compactness is stated without sums: every byte above the pointer belongs
  to some tuple.

- `LRUReplacerProofs` (finite `Values` and `Threads`; `_map` is a map, which an
  ExtendibleHash is up to the case of `hash_skew`). List and map run in
  parallel: place i of the map is the value and the address of node i of the
  list. This is stronger than `MapMatchesList`, which says the same up to the
  order of different keys, and unlike it is inductive with nothing but types:
  the first pair of a key is at the place of its oldest node, so Erase and
  Victim take the same place out of both. `CopiesBounded` is inductive next to
  it; a step either keeps the two sets of a value or moves one thread between
  them. `SingleCaller` is its case of one thread, and justifies the replacer
  without copies that `BufferPoolManager` uses.
- `VersionChainProofs` and `TimestampProofs` (any tuples, any finite sets of
  updaters and readers, any number of statements). What a tuple's headers look
  like depends on how far each updater has got with it. `PhaseOf` derives that
  phase from the program counter and `KeyOK` says what the headers are in terms
  of phases: committed versions are linked in order and the life of one ends
  where the next begins; the at most one owner has its version on top of the
  newest; nobody else's id is in a header. The lemmas of `VersionChainProofs`
  are about header functions and phases, free of the program's variables, one
  per store of a commit or a rollback. `TimestampProofs` adds where a
  transaction on its way can be. An updater about to take a version has already
  been counted as a reader of it, so either a later one has read it and the
  attempt fails, or it is still the newest: this is what makes the check in
  IsOwnable, made before the spinlock is taken, good enough. A READ_ONLY
  transaction has not walked past its version: every committed version up to its
  snapshot is where it stands or below. No dirty read, no lost update, complete
  rollback, snapshot reads and `LateWritesAreRejected` follow.
- `GarbageProofs` (finite `Txns` and `Threads`; one thread is numbered 0, as the
  manager's constructor calls `RegisterThread(0)`; `CidWidth` is more than one
  and than the number of transactions). `Inv` holds whatever the clients do: the
  bound of a context is below every epoch it counts and below the current one,
  a version is the garbage of one transaction, and a garbage context is in one
  queue. The assertions of LocalEpoch (`BoundIsBelowEpochs`) and
  `NoGarbageIsLost` follow from it.
  The other three need clients that are `Disciplined`: a thread runs one
  transaction at a time, or none on a snapshot. The run `gc` satisfies it; the
  code does not enforce it, and without it the results are false (see the known
  limits: a snapshot transaction may be discounted under another epoch than it
  was counted under). Then a context counts exactly the transactions registered
  there (`CountsOK`), and `GraceOK` follows a transaction through its entry: a
  transaction that has only loaded an epoch is `Barred` from registering in one
  that a pass has declared over, because the pass has raised the bound of its
  context. Hence the answer of a finished pass is over for good
  (`ExpiredIsOver`), a version filed under an epoch is out of everybody's sight
  and its witnesses gone when that epoch is over (`RecycledIsInvisible`,
  `GracePeriod`).
- `TableHeapProofs` (any pool of 1 to 100 frames, any number of pages, any
  tuples and page size with room for at most `MaxSlots` slots). About
  `ContractSpec`, the table up to the first time that the pool breaks its
  contract; the pool's own invariant `PoolInv` is a conjunct and its preservation
  is taken from the lemmas of `BufferPoolProofs`. The proof has two layers. The
  lower one sees the pool through `Content`, what a page holds wherever it is:
  fetching, flushing and releasing leave every content alone, NewPage changes
  one, a write through a pointer changes that of the pointer's page. It needs
  `PinsOK` and `PointersOK`: a pin is always that of a pointer into the frame,
  so that the contract (only unpinned frames are taken away) keeps each pointer
  on its page. The upper layer is one lemma per action about contents and
  pointers alone. The list is in the order of page ids, because InsertTuple
  creates a page only from the last one; hence the links of page p are p - 1 and
  p + 1, and `Linked` says which pages are in the list while one is being
  created. `RoomOK` accounts for the room in a page as the cardinality of a set
  of cells, one per unit of a tuple, which replaces a sum over the slots; with
  `SizeAssumption` it bounds the slots. `ScanOK` orders rids by page and slot:
  what a scan owes is in the table and after the cursor. `NoPinIsLeft`,
  `ListIsLinked` and `TableIsIntact` follow, `NoFrameIsLost` up to the first
  breach of the contract (`FramesStayInReach`), and the two action properties.

TLC checked each inductive invariant on the bounds of the run before it was
proved.

Only model-checked:

- liveness (`WriterGetsIn`, `SomebodyGetsIn`, that Insert returns, `WorkEnds`),
  which is out of the prover's reach;
- the hash table: its correctness depends on the keys (`hash_skew`), and a proof
  needs powers of two by induction.

## Not modelled

- The B+ tree, the header page's records and `VtabUpdate` (see the plan).
- Values, schemas, parsing of statements, column formatting: data without
  control that interleaves.
- I/O errors, which DiskManager logs and ignores; a restart on an existing file;
  page ids near overflow; pools of more than 100 frames, whose page table splits.
- Concurrent calls of the pool, which has no lock: every member would race.
- The bytes behind an iterator's tuple, which points into an unpinned frame.
- sqlite, googletest and the other courses' code.
- Peloton: insertions, whose index check is the Bw-tree's; SELECT FOR UPDATE;
  the branches of PerformRead for SNAPSHOT and READ_COMMITTED; the secondary
  index lookup; registering threads; the reuse of recycled slots.
- Most of Peloton's lines (parser, optimizer, code generation, types, wire
  format, benchmarks) and sqlite's translate data or do I/O: they have no state
  that operations share and nothing that interleaves. The Bw-tree is a library
  of its own. This is why the modules cover a small share of the repository's
  lines, and the larger part of those where order matters.

## Plan

Done: latch, replacer, hash table, disk manager, pool, page, table heap with
iterator; Peloton's epochs, collector and timestamp ordering; proofs of all of
them but the hash table.

Next, in this order:

1. Proof: `DirectoryInv` of the hash table for buckets one level above the
   directory, as far as it goes without induction.
2. `TimestampOrdering`: insertions with the check for a concurrent insertion of
   the same key, and SELECT FOR UPDATE.
3. `VirtualTable`: VtabUpdate as one operation (an update that does not fit is a
   deletion and an insertion) and a cursor that reads its tuple after other pool
   calls; `HeaderPage` with its limit of records.
4. `BPlusTree`: insertion and leaf splits, as far as the code goes, against an
   abstract ordered map.
5. `DataTable`: claiming slots in the active tile groups.
6. `TinyShell`: the job list of `mytest/tsh.c` under `eval`, the built-ins and the
   signal handlers, which interrupt them wherever signals are not blocked.
