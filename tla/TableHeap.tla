------------------------------ MODULE TableHeap ------------------------------
(***************************************************************************)
(* A table on top of the buffer pool: TableHeap and TableIterator          *)
(* (15445/src/table), created and connected to by the virtual table        *)
(* (15445/src/vtable/virtual_table.cpp).                                   *)
(*                                                                         *)
(* One thread runs one operation at a time.  An operation is a sequence of *)
(* steps, each with one call of the buffer pool, and works on pages        *)
(* through pointers into frames: the clients "cur", "new" and "header" of  *)
(* BufferPoolManager.  Between operations pc is "idle".  A page is its     *)
(* header fields, the room left in it, and the tuples in its slots, which  *)
(* TablePage models byte by byte; slots are numbered from 1 here.          *)
(***************************************************************************)
EXTENDS BufferPoolManager

CONSTANTS Tuples, NoTuple,
          Size,       \* the size of each tuple
          PageSpace,  \* the room for slots and tuples in a page
          SlotSize,   \* the room a slot takes
          MaxSlots    \* bound: the slots a page can get

ASSUME ClientAssumption == Clients = {"cur", "new", "header"}
ASSUME SizeAssumption == /\ Size \in [Tuples -> Nat \ {0}]
                         /\ SlotSize \in Nat \ {0} /\ MaxSlots \in Nat
                         /\ PageSpace \in 0 .. (MaxSlots + 1) * (SlotSize + 1) - 1
                         /\ NoTuple \notin Tuples

VARIABLES pc,      \* what the operation under way does next
          arg,     \* the tuple it inserts or writes
          rid,     \* the place of the tuple it is about
          nxt,     \* where it goes next: next_page_id, next_tuple_rid
          cursor,  \* rid_ of the open iterator
          table,   \* what the table should hold, by the results of operations
          owed,    \* the tuples that an open scan still has to return
          broken   \* whether the pool has broken its contract

opVars == <<pc, arg, rid, nxt>>
scanVars == <<cursor, owed>>
poolVars == vars
heapVars == <<poolVars, opVars, scanVars, table, broken>>

HEADER_PAGE_ID == 0
first_page_id == 1   \* ids are handed out in order

Rids == PageIds \X (1 .. MaxSlots)
EOF == <<INVALID_PAGE_ID, -1>>

-----------------------------------------------------------------------------
(* Pages.                                                                  *)

Images == [id : PageIds, prev : PageIds \cup {INVALID_PAGE_ID},
           next : PageIds \cup {INVALID_PAGE_ID}, free : -1 .. PageSpace,
           slots : UNION {[1 .. n -> Tuples \cup {NoTuple}] : n \in 0 .. MaxSlots}]

\* A page of zeros: its free space pointer is below the slots.
ZeroImage == [id |-> 0, prev |-> 0, next |-> 0, free |-> -1, slots |-> <<>>]

ASSUME ImageAssumption == Contents = Images /\ Zero = ZeroImage

\* TablePage::Init.
Formatted(p, prev) == [id |-> p, prev |-> prev, next |-> INVALID_PAGE_ID,
                       free |-> PageSpace, slots |-> <<>>]

IsLive(page, i) == i \in DOMAIN page.slots /\ page.slots[i] # NoTuple
LiveSlots(page) == {i \in DOMAIN page.slots : page.slots[i] # NoTuple}
FirstOf(S) == CHOOSE i \in S : \A j \in S : i <= j

\* TablePage::InsertTuple: the slot it takes, whether the tuple fits, and the
\* page with the tuple in it.
NewSlot(page) == Len(page.slots) + 1

\* Mutant: the first slot is taken for free.
SlotForFirst(page) == 1

SlotFor(page) == FirstOf((DOMAIN page.slots \ LiveSlots(page)) \cup {NewSlot(page)})
Cost(page, t) == Size[t] + IF SlotFor(page) = NewSlot(page) THEN SlotSize ELSE 0
Fits(page, t) == page.free >= Cost(page, t)
Inserted(page, t) ==
  [page EXCEPT !.free = @ - Cost(page, t),
               !.slots = [i \in 1 .. Len(@) \cup {SlotFor(page)} |->
                            IF i = SlotFor(page) THEN t ELSE @[i]]]

\* Mutant: the slot is taken out of the array.
DeletedClosesGap(page, i) ==
  [page EXCEPT !.free = @ + Size[page.slots[i]],
               !.slots = SubSeq(@, 1, i - 1) \o SubSeq(@, i + 1, Len(@))]

\* TablePage::DeleteTuple and TablePage::UpdateTuple, where they succeed.
Deleted(page, i) == [page EXCEPT !.free = @ + Size[page.slots[i]], !.slots[i] = NoTuple]
CanUpdate(page, i, t) == IsLive(page, i) /\ page.free >= Size[t] - Size[page.slots[i]]

Updated(page, i, t) == [page EXCEPT !.free = @ + Size[page.slots[i]] - Size[t], !.slots[i] = t]

\* Mutant: a deleted tuple ends the page.
RidAfterStops(page, i) == IF IsLive(page, i + 1) THEN <<page.id, i + 1>> ELSE EOF

\* TablePage::GetFirstTupleRid and GetNextTupleRid.
RidAfter(page, i) ==
  LET later == {j \in LiveSlots(page) : j > i}
  IN  IF later = {} THEN EOF ELSE <<page.id, FirstOf(later)>>
FirstRid(page) == RidAfter(page, 0)

-----------------------------------------------------------------------------
(* Steps.                                                                  *)

Step(from, to) == pc = from /\ pc' = to

\* The operation returns, and its variables are gone.
Return == pc' = "idle" /\ arg' = NoTuple /\ rid' = EOF /\ nxt' = INVALID_PAGE_ID

\* What pointer c sees.
Page(c) == data[handle[c].frame]
SetPage(c, page) == data' = [data EXCEPT ![handle[c].frame] = page]

\* UnpinPage(p, dirty), after which pointer c is not used again.
Release(c, p, dirty) ==
  /\ Unpin(p, dirty)
  /\ handle' = [handle EXCEPT ![c] = NoHandle]
  /\ UNCHANGED <<page_id, diskVars, page_table, free_list, live>>

\* sqlite3_vtable_init creates the header page; VtabCreate pins it, lets the
\* constructor of TableHeap create the first page, and adds a record to the
\* header (its count of records is where a table page has its id).
Create ==
  /\ \/ Step("start", "init") /\ NewPage("header")
     \/ Step("init", "create") /\ Release("header", HEADER_PAGE_ID, TRUE) /\ UNCHANGED data
     \/ Step("create", "first") /\ FetchPage("header", HEADER_PAGE_ID)
     \/ Step("first", "format") /\ NewPage("cur")
     \/ /\ Step("format", "record")
        /\ SetPage("cur", Formatted(first_page_id, INVALID_PAGE_ID))
        /\ Release("cur", first_page_id, TRUE)
     \/ /\ Step("record", "idle")
        /\ SetPage("header", [Page("header") EXCEPT !.id = 1])
        /\ Release("header", HEADER_PAGE_ID, TRUE)
  /\ UNCHANGED <<arg, rid, nxt, scanVars, table>>

\* VtabConnect looks the table up in the header page.
Connect ==
  /\ \/ Step("idle", "connect") /\ FetchPage("header", HEADER_PAGE_ID)
     \/ Step("connect", "idle") /\ Release("header", HEADER_PAGE_ID, FALSE) /\ UNCHANGED data
  /\ UNCHANGED <<arg, rid, nxt, scanVars, table>>

\* VtabDisconnect destroys the table, which flushes the pool.
Disconnect ==
  /\ pc = "idle" /\ cursor = EOF
  /\ FlushAllPages
  /\ UNCHANGED <<opVars, scanVars, table>>

-----------------------------------------------------------------------------
(* TableHeap::InsertTuple.                                                 *)

\* The pages of the table, and what they hold, in the pool or in the file.
HeapPages == live \ {HEADER_PAGE_ID}
Content(p) == IF InTable(p) THEN data[Lookup(p)] ELSE OnDisk(p)

\* The call starts at the first page; it returns false for a tuple that no page
\* can hold.  Bound: there is room in a page, or an id left for a new one.
InsertTuple(t) ==
  /\ Step("idle", "insert")
  /\ Size[t] + SlotSize <= PageSpace
  /\ next_page_id < MaxPages \/ \E p \in HeapPages : Fits(Content(p), t)
  /\ arg' = t
  /\ FetchPage("cur", first_page_id)
  /\ UNCHANGED <<rid, nxt, scanVars, table>>

\* The tuple fits into the page.
NewRid == <<Page("cur").id, SlotFor(Page("cur"))>>
InsertHere ==
  /\ pc = "insert"
  /\ Fits(Page("cur"), arg)
  /\ SetPage("cur", Inserted(Page("cur"), arg))
  /\ Release("cur", Page("cur").id, TRUE)
  /\ table' = [table EXCEPT ![NewRid] = arg]
  /\ Return
  /\ UNCHANGED scanVars

\* It does not, and there is a next page.
InsertGoesOn ==
  /\ \/ /\ Step("insert", "next page")
        /\ ~Fits(Page("cur"), arg)
        /\ Page("cur").next # INVALID_PAGE_ID
        /\ nxt' = Page("cur").next
        /\ Release("cur", Page("cur").id, FALSE)
        /\ UNCHANGED data
     \/ Step("next page", "insert") /\ FetchPage("cur", nxt) /\ UNCHANGED nxt
  /\ UNCHANGED <<arg, rid, scanVars, table>>

\* It does not, and there is none.
InsertNewPage ==
  /\ Step("insert", "link")
  /\ ~Fits(Page("cur"), arg)
  /\ Page("cur").next = INVALID_PAGE_ID
  /\ NewPage("new")
  /\ UNCHANGED <<arg, rid, nxt, scanVars, table>>

\* Mutant: the old page is not told of the new one.
NotLinked(from, p) == data

\* cur_page->SetNextPageId(p).
LinkedTo(from, p) == [data EXCEPT ![from].next = p]

\* The new page becomes the last one.  The two pointers may be the same.
InsertLink ==
  LET p      == handle["new"].page
      cur    == handle["cur"].frame
      linked == LinkedTo(cur, p)
  IN  /\ Step("link", "insert")
      /\ data' = [linked EXCEPT ![handle["new"].frame] = Formatted(p, linked[cur].id)]
      /\ Unpin(data'[cur].id, TRUE)
      /\ handle' = [handle EXCEPT !["cur"] = handle["new"], !["new"] = NoHandle]
      /\ UNCHANGED <<page_id, diskVars, page_table, free_list, live, arg, rid, nxt,
                     scanVars, table>>

-----------------------------------------------------------------------------
(* TableHeap::DeleteTuple, UpdateTuple and GetTuple.                       *)

\* The call fetches the page of the tuple.
Call(op, r) ==
  /\ Step("idle", op)
  /\ r[1] \in HeapPages
  /\ rid' = r
  /\ FetchPage("cur", r[1])
  /\ UNCHANGED <<nxt, scanVars, table>>

DeleteTuple(r) == Call("delete", r) /\ UNCHANGED arg
UpdateTuple(t, r) == Call("update", r) /\ arg' = t
GetTuple(r) == Call("get", r) /\ UNCHANGED arg

\* The page deletes the tuple, or returns false.
DeleteInPage ==
  /\ pc = "delete"
  /\ LET gone == IsLive(Page("cur"), rid[2])
     IN  /\ SetPage("cur", IF gone THEN Deleted(Page("cur"), rid[2]) ELSE Page("cur"))
         /\ Release("cur", Page("cur").id, gone)
         /\ table' = IF gone THEN [table EXCEPT ![rid] = NoTuple] ELSE table
         /\ owed' = IF gone THEN owed \ {rid} ELSE owed
  /\ Return
  /\ UNCHANGED cursor

\* The page updates the tuple, or returns false.
UpdateInPage ==
  /\ pc = "update"
  /\ LET done == CanUpdate(Page("cur"), rid[2], arg)
     IN  /\ SetPage("cur", IF done THEN Updated(Page("cur"), rid[2], arg) ELSE Page("cur"))
         /\ Release("cur", Page("cur").id, done)
         /\ table' = IF done THEN [table EXCEPT ![rid] = arg] ELSE table
  /\ Return
  /\ UNCHANGED scanVars

\* Mutant: GetTuple does not unpin the page.
GetInPageKeepsPin ==
  /\ pc = "get"
  /\ handle' = [handle EXCEPT !["cur"] = NoHandle]
  /\ Return
  /\ UNCHANGED <<frameVars, replacer, page_table, diskVars, free_list, live, scanVars, table>>

\* GetTuple only reads.
GetInPage ==
  /\ pc = "get"
  /\ Release("cur", rid[1], FALSE)
  /\ Return
  /\ UNCHANGED <<data, scanVars, table>>

-----------------------------------------------------------------------------
(* TableIterator.                                                          *)

\* The iterator has reached r: it loads the tuple there unless it is at the end.
Reach(r) == /\ cursor' = r
            /\ pc' = IF r = EOF THEN "idle" ELSE "load"
            /\ owed' = IF r = EOF THEN {} ELSE owed
            /\ UNCHANGED <<arg, rid>>
            /\ nxt' = INVALID_PAGE_ID

\* TableHeap::begin finds the first tuple.
Begin ==
  \/ /\ Step("idle", "begin")
     /\ cursor = EOF
     /\ FetchPage("cur", first_page_id)
     /\ owed' = {r \in Rids : table[r] # NoTuple}
     /\ UNCHANGED <<arg, rid, nxt, cursor, table>>
  \/ /\ pc = "begin"
     /\ Release("cur", first_page_id, FALSE)
     /\ Reach(FirstRid(Page("cur")))
     /\ UNCHANGED <<data, table>>

\* The iterator loads the tuple it has reached.
Load ==
  /\ \/ Step("load", "loaded") /\ FetchPage("cur", cursor[1]) /\ UNCHANGED owed
     \/ /\ Step("loaded", "idle")
        /\ Release("cur", cursor[1], FALSE)
        /\ owed' = owed \ {cursor}
        /\ UNCHANGED data
  /\ UNCHANGED <<arg, rid, nxt, cursor, table>>

\* operator++ fetches the page of the current tuple.
Advance == /\ Step("idle", "advance")
           /\ cursor # EOF
           /\ FetchPage("cur", cursor[1])
           /\ UNCHANGED <<arg, rid, nxt, scanVars, table>>

\* There is another tuple in the page, or no further page.
AdvanceHere ==
  LET r == RidAfter(Page("cur"), cursor[2])
  IN  /\ pc = "advance"
      /\ r # EOF \/ Page("cur").next = INVALID_PAGE_ID
      /\ Release("cur", cursor[1], FALSE)
      /\ Reach(r)
      /\ UNCHANGED <<data, table>>

\* Otherwise it goes to the first tuple of the next page; if that page is
\* empty, to the end.
AdvanceToNextPage ==
  \/ /\ Step("advance", "cross")
     /\ RidAfter(Page("cur"), cursor[2]) = EOF
     /\ Page("cur").next # INVALID_PAGE_ID
     /\ FetchPage("new", Page("cur").next)
     /\ UNCHANGED <<arg, rid, nxt, scanVars, table>>
  \/ /\ Step("cross", "crossed")
     /\ nxt' = FirstRid(Page("new"))
     /\ Release("new", Page("cur").next, FALSE)
     /\ UNCHANGED <<data, arg, rid, scanVars, table>>
  \/ /\ pc = "crossed"
     /\ Release("cur", cursor[1], FALSE)
     /\ Reach(nxt)
     /\ UNCHANGED <<data, table>>

-----------------------------------------------------------------------------
HeapInit == /\ Init
            /\ pc = "start"
            /\ arg = NoTuple /\ rid = EOF /\ nxt = INVALID_PAGE_ID
            /\ cursor = EOF /\ owed = {}
            /\ table = [r \in Rids |-> NoTuple]
            /\ broken = FALSE

Operation ==
  \/ Create \/ Connect \/ Disconnect
  \/ \E t \in Tuples : InsertTuple(t)
  \/ InsertHere \/ InsertGoesOn \/ InsertNewPage \/ InsertLink
  \/ \E r \in Rids : DeleteTuple(r) \/ GetTuple(r)
  \/ \E r \in Rids, t \in Tuples : UpdateTuple(t, r)
  \/ DeleteInPage \/ UpdateInPage \/ GetInPage
  \/ Begin \/ Load \/ Advance \/ AdvanceHere \/ AdvanceToNextPage

\* The pool keeps its contract when it takes only frames away that are unpinned
\* and whose page is on disk, and puts into them what the page has on disk.
PoolKeepsContract ==
  \A f \in Frames, p \in PageIds :
    page_id'[f] # page_id[f] =>
      /\ pin_count[f] = 0
      /\ p = page_id[f] => OnDisk(p)' = data[f]
      /\ p = page_id'[f] => data'[f] = OnDisk(p)'

HeapNext == Operation /\ broken' = (broken \/ ~PoolKeepsContract)

HeapSpec == HeapInit /\ [][HeapNext]_heapVars

\* The table up to the first time that the pool breaks its contract.
ContractNext == \/ ~broken /\ HeapNext
                \/ broken /\ UNCHANGED heapVars

ContractSpec == HeapInit /\ [][ContractNext]_heapVars

-----------------------------------------------------------------------------
(***************************************************************************)
(* Properties.                                                             *)
(***************************************************************************)

\* No operation is under way, on a pool that has kept its contract.
AtRest == pc = "idle" /\ ~broken

\* Every operation gives back the pins it took.
NoPinIsLeft == AtRest => \A f \in Frames : pin_count[f] = 0

\* The pages of the table are a doubly linked list: the first page has no
\* predecessor, each other one is the next page of its predecessor and of no
\* other, and one page is the last.
IsDoublyLinkedList ==
  /\ Content(first_page_id).prev = INVALID_PAGE_ID
  /\ \A p \in HeapPages : LET page == Content(p)
                          IN  /\ page.id = p
                              /\ page.next # INVALID_PAGE_ID =>
                                   page.next \in HeapPages /\ Content(page.next).prev = p
                              /\ p # first_page_id =>
                                   page.prev \in HeapPages /\ Content(page.prev).next = p
  /\ \E p \in HeapPages : Content(p).next = INVALID_PAGE_ID

ListIsLinked == AtRest => IsDoublyLinkedList

\* What operations returned is what the table holds: a tuple inserted stays
\* under its rid until it is updated or deleted, in the pool or on disk.
TableIsIntact ==
  AtRest => \A r \in Rids :
              table[r] = IF r[1] \in HeapPages /\ IsLive(Content(r[1]), r[2])
                         THEN Content(r[1]).slots[r[2]] ELSE NoTuple

\* InsertTuple returns a rid that no tuple has.
InsertReturnsFreshRid ==
  [][InsertHere => table[NewRid] = NoTuple]_heapVars

\* A scan returns every tuple that is in the table from its beginning to its
\* end, whatever is inserted, updated and deleted meanwhile, as long as no page
\* of the table is empty.
ScanIsComplete ==
  [][ /\ pc \in {"begin", "advance", "crossed"} /\ pc' = "idle"
      /\ \A p \in HeapPages : LiveSlots(Content(p)) # {}
      => owed = {} ]_heapVars

\* The pages of the table form a list ("doubly-linked list of heap pages")
\* whenever no operation is under way.
ListIsAlwaysLinked == pc = "idle" => IsDoublyLinkedList
=============================================================================
