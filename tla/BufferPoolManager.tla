-------------------------- MODULE BufferPoolManager --------------------------
(***************************************************************************)
(* The buffer pool of the storage engine: class BufferPoolManager of       *)
(* 15445/src/buffer/buffer_pool_manager.cpp, on top of DiskManager.        *)
(*                                                                         *)
(* The class takes no lock (free_list_latch_ is never used), so its        *)
(* methods are called one at a time and each is one action.  Its helpers   *)
(* appear as data:                                                         *)
(*  - page_table_, an ExtendibleHash: for each page id the frames inserted *)
(*    under it, oldest first (Find and Remove take the first).  It is made *)
(*    with buckets of TableBucketSize, and a pool of no more frames never  *)
(*    splits its only bucket.  A larger one does, and then what module     *)
(*    ExtendibleHash shows of buckets far above the directory applies;     *)
(*    PoolSizeAssumption leaves it out;                                    *)
(*  - replacer_, an LRUReplacer with one caller: frames, oldest first; its *)
(*    map from frames to list nodes is taken to be a map (see LRUReplacer);*)
(*  - free_list_, a list of frames.                                        *)
(* Clients are the callers: each holds at most one page at a time, writes  *)
(* to it through GetData(), and unpins it with is_dirty saying whether it  *)
(* has written, as TableHeap does.                                         *)
(***************************************************************************)
EXTENDS DiskManager, Sequences, FiniteSets

CONSTANTS PoolSize,  \* pool_size_
          Clients    \* the callers

\* The bucket size that the constructor gives page_table_.
TableBucketSize == 100

ASSUME PoolSizeAssumption == PoolSize \in 1 .. TableBucketSize
ASSUME ClientsAssumption == IsFiniteSet(Clients)

VARIABLES page_id, pin_count, is_dirty, data,  \* the members of pages_[f]
          page_table, replacer, free_list,
          handle,    \* the page each client holds, or NoHandle
          live       \* the pages the clients have created and not deleted

frameVars == <<page_id, pin_count, is_dirty, data>>
diskVars == <<db_file, next_page_id>>
clientVars == <<handle, live>>
vars == <<frameVars, diskVars, page_table, replacer, free_list, clientVars>>

Frames == 1 .. PoolSize

NoHandle == [frame |-> 0, page |-> INVALID_PAGE_ID, wrote |-> FALSE]
Handles == [frame : Frames, page : PageIds, wrote : BOOLEAN]

Init == /\ DiskInit
        /\ page_id = [f \in Frames |-> INVALID_PAGE_ID]
        /\ pin_count = [f \in Frames |-> 0]
        /\ is_dirty = [f \in Frames |-> FALSE]
        /\ data = [f \in Frames |-> Zero]
        /\ page_table = [p \in PageIds |-> <<>>]
        /\ replacer = <<>>
        /\ free_list = [f \in Frames |-> f]
        /\ handle = [c \in Clients |-> NoHandle]
        /\ live = {}

-----------------------------------------------------------------------------
(* page_table_ and replacer_.                                              *)

InTable(p) == p \in PageIds /\ page_table[p] # <<>>
Lookup(p) == Head(page_table[p])
\* Mutant: the old entry stays in the table.
TableKeeps(table, p) == table

TableRemove(table, p) ==
  [q \in PageIds |-> IF q = p /\ table[q] # <<>> THEN Tail(table[q]) ELSE table[q]]
TableInsert(table, p, f) == [table EXCEPT ![p] = Append(@, f)]

Has(list, f) == \E i \in DOMAIN list : list[i] = f

\* Erase: the list without the element at the place of f, if f is in it.
Erase(list, f) ==
  IF Has(list, f)
  THEN LET i == CHOOSE i \in DOMAIN list : list[i] = f
       IN  [j \in 1 .. Len(list) - 1 |-> IF j < i THEN list[j] ELSE list[j + 1]]
  ELSE list

\* Mutant: the frame is taken out of the list and not put back.
ReplacerInsertForgets(f) == Erase(replacer, f)

\* Insert moves a frame that is in the list already to the back.
ReplacerInsert(f) == Append(Erase(replacer, f), f)

-----------------------------------------------------------------------------
(* The frame that FetchPage and NewPage use: from the free list first,     *)
(* else the replacer's victim.  There is none when both are empty.         *)

HasFrame == free_list # <<>> \/ replacer # <<>>
ChosenFrame == IF free_list # <<>> THEN Head(free_list) ELSE Head(replacer)

\* Mutant: the frame stays in the free list.
TakeFrameKeepsFree ==
  \/ free_list # <<>> /\ UNCHANGED <<free_list, replacer>>
  \/ /\ free_list = <<>>
     /\ replacer # <<>>
     /\ replacer' = Tail(replacer)
     /\ UNCHANGED free_list

TakeFrame ==
  \/ /\ free_list # <<>>
     /\ free_list' = Tail(free_list)
     /\ UNCHANGED replacer
  \/ /\ free_list = <<>>
     /\ replacer # <<>>
     /\ replacer' = Tail(replacer)
     /\ UNCHANGED free_list

Give(c, f, p) == handle' = [handle EXCEPT ![c] = [frame |-> f, page |-> p, wrote |-> FALSE]]

-----------------------------------------------------------------------------
\* FetchPage of a page in the pool.
FetchHit(c, p) ==
  /\ handle[c] = NoHandle
  /\ InTable(p)
  /\ pin_count' = [pin_count EXCEPT ![Lookup(p)] = @ + 1]
  /\ Give(c, Lookup(p), p)
  /\ UNCHANGED <<page_id, is_dirty, data, diskVars, page_table, replacer, free_list, live>>

\* FetchPage of a page that is not in the pool.  It returns nullptr, and
\* changes nothing, when there is no frame for the page.  Clients ask for pages
\* they have created and not deleted.
FetchMiss(c, p) ==
  /\ handle[c] = NoHandle
  /\ ~InTable(p)
  /\ p \in live
  /\ TakeFrame
  /\ LET f    == ChosenFrame
         file == IF is_dirty[f] THEN WritePage(db_file, page_id[f], data[f]) ELSE db_file
     IN  /\ db_file' = file
         /\ page_table' = TableInsert(TableRemove(page_table, page_id[f]), p, f)
         /\ page_id' = [page_id EXCEPT ![f] = p]
         /\ pin_count' = [pin_count EXCEPT ![f] = @ + 1]
         /\ is_dirty' = [is_dirty EXCEPT ![f] = FALSE]
         /\ data' = [data EXCEPT ![f] = ReadPage(file, p, @)]
         /\ Give(c, f, p)
  /\ UNCHANGED <<next_page_id, live>>

FetchPage(c, p) == FetchHit(c, p) \/ FetchMiss(c, p)

\* Mutant: the pin count is not looked at.
CanUnpinResident(p) == InTable(p)

\* UnpinPage returns false for a page that is not in the pool or not pinned.
CanUnpin(p) == InTable(p) /\ pin_count[Lookup(p)] > 0

\* UnpinPage(p, dirty) as it changes the pool.
Unpin(p, dirty) ==
  \/ /\ CanUnpin(p)
     /\ LET f == Lookup(p)
        IN  /\ is_dirty' = [is_dirty EXCEPT ![f] = dirty]
            /\ pin_count' = [pin_count EXCEPT ![f] = @ - 1]
            /\ replacer' = IF pin_count[f] = 1 THEN ReplacerInsert(f) ELSE replacer
  \/ /\ ~CanUnpin(p)
     /\ UNCHANGED <<is_dirty, pin_count, replacer>>

\* UnpinPage, by the client that holds the page.  The client lets go of it
\* whatever UnpinPage returns.
UnpinPage(c) ==
  /\ handle[c] # NoHandle
  /\ handle' = [handle EXCEPT ![c] = NoHandle]
  /\ Unpin(handle[c].page, handle[c].wrote)
  /\ UNCHANGED <<page_id, data, diskVars, page_table, free_list, live>>

\* FlushPage of a page in the pool; it returns false for any other page.
FlushPage(p) ==
  /\ InTable(p)
  /\ db_file' = WritePage(db_file, page_id[Lookup(p)], data[Lookup(p)])
  /\ is_dirty' = [is_dirty EXCEPT ![Lookup(p)] = FALSE]
  /\ UNCHANGED <<page_id, pin_count, data, next_page_id, page_table, replacer,
                 free_list, clientVars>>

\* The file after FlushAllPages has written the dirty frames in their order.
DirtyFrames(p) == {f \in Frames : is_dirty[f] /\ page_id[f] = p}
LastOf(S) == CHOOSE f \in S : \A g \in S : g <= f
FlushedFile ==
  [p \in PageIds |->
     IF DirtyFrames(p) # {} THEN data[LastOf(DirtyFrames(p))]
     ELSE IF db_file[p] = Absent /\ \E q \in PageIds : q > p /\ DirtyFrames(q) # {}
     THEN Zero
     ELSE db_file[p]]

\* FlushAllPages, which leaves the dirty flags as they are.
FlushAllPages == /\ db_file' = FlushedFile
                 /\ UNCHANGED <<frameVars, next_page_id, page_table, replacer,
                                free_list, clientVars>>

\* DeletePage.  A page that is not in the pool is only deallocated on disk,
\* which does nothing; a pinned page is not deleted.
DeletePage(p) ==
  /\ p \in live
  /\ \/ /\ InTable(p)
        /\ pin_count[Lookup(p)] <= 0
        /\ page_table' = TableRemove(page_table, p)
        /\ page_id' = [page_id EXCEPT ![Lookup(p)] = INVALID_PAGE_ID]
        /\ pin_count' = [pin_count EXCEPT ![Lookup(p)] = 0]
        /\ is_dirty' = [is_dirty EXCEPT ![Lookup(p)] = FALSE]
        /\ free_list' = Append(free_list, Lookup(p))
     \/ /\ ~InTable(p)
        /\ UNCHANGED <<page_table, page_id, pin_count, is_dirty, free_list>>
  /\ DeallocatePage(p)
  /\ live' = live \ {p}
  /\ UNCHANGED <<data, db_file, replacer, handle>>

\* NewPage.  A victim's page is flushed, dirty or not, and leaves the table.
NewPage(c) ==
  /\ handle[c] = NoHandle
  /\ AllocatePage
  /\ TakeFrame
  /\ LET f    == ChosenFrame
         p    == next_page_id
         old  == page_id[f]
         lost == free_list = <<>> /\ InTable(old)
     IN  /\ db_file' = IF lost THEN WritePage(db_file, page_id[Lookup(old)], data[Lookup(old)])
                               ELSE db_file
         /\ is_dirty' = IF lost THEN [is_dirty EXCEPT ![Lookup(old)] = FALSE] ELSE is_dirty
         /\ page_table' = TableInsert(IF free_list = <<>> THEN TableRemove(page_table, old)
                                                          ELSE page_table, p, f)
         /\ data' = [data EXCEPT ![f] = Zero]
         /\ pin_count' = [pin_count EXCEPT ![f] = @ + 1]
         /\ page_id' = [page_id EXCEPT ![f] = p]
         /\ Give(c, f, p)
         /\ live' = live \cup {p}

\* NewPage without a frame returns nullptr, after it has allocated an id.
NewPageFails == /\ ~HasFrame
                /\ AllocatePage
                /\ UNCHANGED <<frameVars, db_file, page_table, replacer, free_list, clientVars>>

\* A client changes the page it holds, through the pointer it was given.
Write(c, d) == /\ handle[c] # NoHandle
               /\ data' = [data EXCEPT ![handle[c].frame] = d]
               /\ handle' = [handle EXCEPT ![c].wrote = TRUE]
               /\ UNCHANGED <<page_id, pin_count, is_dirty, diskVars, page_table,
                              replacer, free_list, live>>

Next == \/ \E c \in Clients, p \in PageIds : FetchPage(c, p)
        \/ \E c \in Clients : UnpinPage(c) \/ NewPage(c)
        \/ \E c \in Clients, d \in Contents : Write(c, d)
        \/ \E p \in PageIds : FlushPage(p) \/ DeletePage(p)
        \/ FlushAllPages
        \/ NewPageFails

Spec == Init /\ [][Next]_vars

\* The pool as long as it takes no pinned frame away from its page.  FetchPage
\* of a resident page leaves it in the replacer (line 55), so Spec does.
PinnedStay == \A f \in Frames : page_id'[f] # page_id[f] => pin_count[f] = 0
PinSpec == Init /\ [][Next /\ PinnedStay]_vars

-----------------------------------------------------------------------------
(***************************************************************************)
(* Properties.                                                             *)
(***************************************************************************)

\* Type invariant: pin counts never go below zero, and the ids in use are ids
\* that AllocatePage has handed out.
TypeOK ==
  /\ page_id \in [Frames -> PageIds \cup {INVALID_PAGE_ID}]
  /\ pin_count \in [Frames -> Nat]
  /\ is_dirty \in [Frames -> BOOLEAN]
  /\ data \in [Frames -> Contents]
  /\ db_file \in [PageIds -> Contents \cup {Absent}]
  /\ next_page_id \in 0 .. MaxPages
  /\ page_table \in [PageIds -> Seq(Frames)]
  /\ replacer \in Seq(Frames)
  /\ free_list \in Seq(Frames)
  /\ handle \in [Clients -> Handles \cup {NoHandle}]
  /\ \A f \in Frames : page_id[f] < next_page_id
  /\ \A c \in Clients : handle[c].page < next_page_id
  /\ live \subseteq 0 .. next_page_id - 1

\* The page table and the frames agree: a page is in the table exactly when
\* one frame holds it, and the table names that frame.  So no page is in two
\* frames, whatever is evicted, deleted or fetched again.
TableMatchesFrames ==
  \A p \in PageIds :
    \/ page_table[p] = <<>> /\ \A f \in Frames : page_id[f] # p
    \/ \E f \in Frames : /\ page_table[p] = <<f>>
                        /\ \A g \in Frames : page_id[g] = p <=> g = f

\* The free list holds exactly the frames without a page, each once, and they
\* are unpinned and clean, which NewPage relies on when it takes one without
\* resetting its metadata.
FreeFramesAreBlank ==
  /\ \A i, j \in DOMAIN free_list : free_list[i] = free_list[j] => i = j
  /\ \A f \in Frames :
       page_id[f] = INVALID_PAGE_ID <=> Has(free_list, f)
  /\ \A f \in Frames :
       page_id[f] = INVALID_PAGE_ID => pin_count[f] = 0 /\ ~is_dirty[f]

\* The clients that hold frame f.
HeldBy(f) == {c \in Clients : handle[c].frame = f}

\* No frame is lost: one that no client holds is in the free list or in the
\* replacer, so FetchPage and NewPage return nullptr only when every frame is
\* in use ("all the pages in pool are pinned").  It holds of PinSpec and not of
\* Spec: when a pinned frame is given to another page, UnpinPage of the old one
\* finds no entry, its pin stays, and the frame never comes back.
NoFrameIsLost ==
  \A f \in Frames :
    HeldBy(f) = {} => Has(free_list, f) \/ Has(replacer, f)

\* A frame whose pin count is zero is in the replacer, if it holds a page.
IdleFramesAreReplaceable ==
  \A f \in Frames :
    page_id[f] # INVALID_PAGE_ID /\ pin_count[f] = 0
      => Has(replacer, f)

\* The inductive invariant behind the theorems of BufferPoolProofs.
PoolInv == /\ TypeOK
           /\ TableMatchesFrames
           /\ FreeFramesAreBlank
           /\ IdleFramesAreReplaceable

\* What PinSpec adds to it: the pin count of a frame is the number of clients
\* that hold it, and what they hold is the page they asked for.
PinsMatchHandles ==
  /\ \A f \in Frames : pin_count[f] = Cardinality(HeldBy(f))
  /\ \A c \in Clients : handle[c] # NoHandle =>
       page_id[handle[c].frame] = handle[c].page

PinInv == PoolInv /\ PinsMatchHandles

\* What the file holds for a page: past its end, nothing was ever stored.
OnDisk(p) == IF db_file[p] = Absent THEN Zero ELSE db_file[p]
=============================================================================
