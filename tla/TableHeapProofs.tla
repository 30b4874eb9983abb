--------------------------- MODULE TableHeapProofs ---------------------------
(***************************************************************************)
(* Proofs about the table heap on a buffer pool that keeps its contract,   *)
(* for every pool of BufferPoolProofs, any page size, pages and tuples.     *)
(*                                                                         *)
(* A table sees the pool through Content: fetching, flushing and releasing *)
(* a page leave the content of every page alone, wherever it is, and a     *)
(* pointer sees the content of its page as long as it holds a pin.         *)
(***************************************************************************)
EXTENDS TableHeap, BufferPoolProofs, WellFoundedInduction, FiniteSetTheorems

-----------------------------------------------------------------------------
(* The pool and the pointers into it.                                      *)

Held(c, f) == IF handle[c].frame = f THEN 1 ELSE 0

\* Every pin of a frame is that of a pointer into it, ...
PinsOK == \A f \in Frames : pin_count[f] = Held("cur", f) + Held("new", f) + Held("header", f)

\* ... which still points at the page it was given.
PointersOK == \A c \in Clients : \/ handle[c] = NoHandle
                                 \/ /\ handle[c] \in Handles
                                    /\ page_id[handle[c].frame] = handle[c].page

PoolOK == PoolInv /\ PinsOK /\ PointersOK

-----------------------------------------------------------------------------
(* The table.                                                              *)

\* The room of a page is what its slots and its tuples leave.
Cells(page) == UNION {{i} \X (1 .. Size[page.slots[i]]) : i \in LiveSlots(page)}
RoomOK(page) ==
  /\ page.free \in Nat
  /\ page.free + Len(page.slots) * SlotSize + Cardinality(Cells(page)) = PageSpace

\* Pages 1 to Linked are in the list; a page after them has just been created.
Linked == IF pc \in {"start", "init", "create", "first", "format"} THEN 0
          ELSE IF pc = "link" THEN next_page_id - 2 ELSE next_page_id - 1

\* The list is in the order of page ids: a new page goes to the end.
PageOK(p, page) == /\ RoomOK(page) /\ page.id = p
                   /\ page.prev = IF p = first_page_id THEN INVALID_PAGE_ID ELSE p - 1
                   /\ page.next = IF p = Linked THEN INVALID_PAGE_ID ELSE p + 1

PagesOK == /\ live = 0 .. next_page_id - 1
           /\ \A p \in 1 .. Linked : PageOK(p, Content(p))
           /\ \A p \in 1 .. next_page_id - 1 : p > Linked => Content(p).slots = <<>>

\* Where an operation is: the pointers it holds and what it knows.
PCs == {"start", "init", "create", "first", "format", "record", "idle", "connect", "insert",
        "next page", "link", "delete", "update", "get", "begin", "load", "loaded", "advance",
        "cross", "crossed"}

IsHeld(c) == handle[c] # NoHandle
HeldPage(c) == handle[c].page

PointerOK ==
  /\ IsHeld("header") <=> pc \in {"init", "first", "format", "record", "connect"}
  /\ IsHeld("cur") <=> pc \in {"format", "insert", "link", "delete", "update", "get", "begin",
                               "loaded", "advance", "cross", "crossed"}
  /\ IsHeld("new") <=> pc \in {"link", "cross"}
  /\ IsHeld("header") => HeldPage("header") = HEADER_PAGE_ID
  /\ pc \in {"format", "begin"} => HeldPage("cur") = first_page_id
  /\ pc \in {"delete", "update", "get"} => HeldPage("cur") = rid[1]
  /\ pc \in {"loaded", "advance", "cross", "crossed"} => HeldPage("cur") = cursor[1]
  /\ pc \in {"insert", "link"} => HeldPage("cur") \in 1 .. Linked
  /\ pc = "link" => HeldPage("cur") = Linked /\ HeldPage("new") = Linked + 1
  /\ pc = "cross" => HeldPage("new") = cursor[1] + 1 /\ cursor[1] < Linked

ControlOK ==
  /\ pc \in PCs
  /\ pc = "start" <=> next_page_id = 0
  /\ pc \in {"init", "create", "first"} <=> next_page_id = 1
  /\ pc = "format" => next_page_id = 2
  /\ pc = "link" => next_page_id > 2
  /\ pc \in {"insert", "next page", "link", "update"} => arg \in Tuples
  /\ pc \in {"delete", "update", "get"} => rid \in Rids /\ rid[1] \in 1 .. Linked
  /\ pc = "next page" => nxt \in 1 .. Linked
  /\ cursor # EOF => cursor \in Rids /\ cursor[1] \in 1 .. Linked
  /\ pc \in {"load", "loaded", "advance", "cross", "crossed"} => cursor # EOF
  /\ pc = "begin" => cursor = EOF
  /\ pc = "crossed" => cursor[1] < Linked /\ nxt = FirstRid(Content(cursor[1] + 1))

\* The history of results.
Stored(r) == IF r[1] \in HeapPages /\ IsLive(Content(r[1]), r[2])
             THEN Content(r[1]).slots[r[2]] ELSE NoTuple
TableOK == table = [r \in Rids |-> Stored(r)]

\* What a scan still owes is in the table and not behind the iterator.
Before(r, s) == r[1] < s[1] \/ (r[1] = s[1] /\ r[2] < s[2])
ScanOK ==
  /\ \A r \in owed : r \in Rids /\ table[r] # NoTuple
  /\ cursor = EOF /\ pc # "begin" => owed = {}
  /\ cursor # EOF => \A r \in owed :
       \/ Before(cursor, r)
       \/ pc \in {"load", "loaded"} /\ r = cursor
  /\ pc \in {"cross", "crossed"} => \A r \in owed : cursor[1] < r[1]

HeapInv == PoolOK /\ PagesOK /\ PointerOK /\ ControlOK /\ TableOK /\ ScanOK

Inv == ~broken => HeapInv

-----------------------------------------------------------------------------
(* Pages.                                                                  *)

Entries == Tuples \cup {NoTuple}

\* What a page is.
LEMMA ImageFacts ==
  ASSUME NEW page \in Images
  PROVE  /\ page.id \in PageIds /\ page.prev \in PageIds \cup {INVALID_PAGE_ID}
         /\ page.next \in PageIds \cup {INVALID_PAGE_ID} /\ page.free \in -1 .. PageSpace
         /\ Len(page.slots) \in 0 .. MaxSlots /\ DOMAIN page.slots = 1 .. Len(page.slots)
         /\ page.slots \in [1 .. Len(page.slots) -> Entries]
<1>1. /\ page.id \in PageIds /\ page.prev \in PageIds \cup {INVALID_PAGE_ID}
      /\ page.next \in PageIds \cup {INVALID_PAGE_ID} /\ page.free \in -1 .. PageSpace
      /\ page.slots \in UNION {[1 .. n -> Entries] : n \in 0 .. MaxSlots}
  BY DEF Images, Entries
<1>2. PICK n \in 0 .. MaxSlots : page.slots \in [1 .. n -> Entries]
  BY <1>1
<1>3. n \in Nat /\ page.slots \in Seq(Entries)
  BY <1>2, SizeAssumption, SeqDef
<1>4. Len(page.slots) = n /\ DOMAIN page.slots = 1 .. n
  BY <1>2, <1>3
<1>5. QED
  BY <1>1, <1>2, <1>4

\* Putting a page together.
LEMMA MakeImage ==
  ASSUME NEW i \in PageIds, NEW p \in PageIds \cup {INVALID_PAGE_ID},
         NEW q \in PageIds \cup {INVALID_PAGE_ID}, NEW f \in -1 .. PageSpace,
         NEW n \in 0 .. MaxSlots, NEW s \in [1 .. n -> Entries]
  PROVE  [id |-> i, prev |-> p, next |-> q, free |-> f, slots |-> s] \in Images
<1>1. s \in UNION {[1 .. m -> Entries] : m \in 0 .. MaxSlots}
  OBVIOUS
<1>2. QED
  BY <1>1 DEF Images, Entries

\* The length of an array of slots.
LEMMA LenOf ==
  ASSUME NEW n \in Nat, NEW s \in [1 .. n -> Entries]
  PROVE  Len(s) = n /\ s \in Seq(Entries)
<1>1. s \in Seq(Entries)
  BY SeqDef
<1>2. QED
  BY <1>1

\* Changing the tuples of a page.
Edit(page, f, s) == [page EXCEPT !.free = f, !.slots = s]

\* The result is a page.
LEMMA EditImage ==
  ASSUME NEW page \in Images, NEW f \in -1 .. PageSpace, NEW n \in 0 .. MaxSlots,
         NEW s \in [1 .. n -> Entries]
  PROVE  LET new == Edit(page, f, s)
         IN  /\ new \in Images /\ new.id = page.id /\ new.prev = page.prev
             /\ new.next = page.next /\ new.free = f /\ new.slots = s /\ Len(s) = n
<1> DEFINE new == Edit(page, f, s)
<1>1. s \in UNION {[1 .. m -> Tuples \cup {NoTuple}] : m \in 0 .. MaxSlots}
  BY DEF Entries
<1>2. /\ new \in Images /\ new.id = page.id /\ new.prev = page.prev
      /\ new.next = page.next /\ new.free = f /\ new.slots = s
  BY <1>1 DEF Images, Edit
<1>4. Len(s) = n
  <2>1. n \in Nat
    BY SizeAssumption
  <2>2. QED
    BY <2>1, LenOf
<1>5. QED
  BY <1>2, <1>4

\* The first of a nonempty set of numbers.
LEMMA FirstFacts ==
  ASSUME NEW S \in SUBSET Nat, S # {}
  PROVE  FirstOf(S) \in S /\ \A y \in S : FirstOf(S) <= y
<1> DEFINE R == OpToRel(<, Nat)
<1>1. \A a, b \in Nat : a < b => <<a, b>> \in R
  BY DEF OpToRel
<1>2. IsWellFoundedOn(R, Nat)
  BY NatLessThanWellFounded
<1> HIDE DEF R
<1>3. S \subseteq Nat /\ S # {} /\ IsWellFoundedOn(R, Nat)
  BY <1>2
<1>4. PICK x \in S : \A y \in S : ~(<<y, x>> \in R)
  BY ONLY <1>3, WFMin
<1>5. \A y \in S : x \in Nat /\ y \in Nat /\ ~(y < x)
  BY <1>1, <1>4
<1>6. \E z \in S : \A y \in S : z <= y
  BY <1>5
<1>7. QED
  BY <1>6 DEF FirstOf

\* The tuples in a page are finitely many cells.
LEMMA CellsFacts ==
  ASSUME NEW page \in Images
  PROVE  /\ IsFiniteSet(Cells(page)) /\ Cardinality(Cells(page)) \in Nat
         /\ \A i, k : <<i, k>> \in Cells(page) <=> /\ i \in LiveSlots(page)
                                                  /\ k \in 1 .. Size[page.slots[i]]
<1>1. \A i \in LiveSlots(page) : i \in 1 .. Len(page.slots) /\ page.slots[i] \in Tuples
  BY ImageFacts DEF LiveSlots, Entries
<1>2. \A i \in LiveSlots(page) : Size[page.slots[i]] \in Nat \ {0}
  BY <1>1, SizeAssumption
<1>3. Len(page.slots) \in Nat /\ IsFiniteSet(1 .. Len(page.slots))
  <2>1. Len(page.slots) \in Nat
    BY ImageFacts, SizeAssumption
  <2>2. QED
    BY <2>1, FS_Interval
<1>4. IsFiniteSet(LiveSlots(page))
  BY <1>1, <1>3, FS_Subset
<1> DEFINE Row(i) == {i} \X (1 .. Size[page.slots[i]])
           Rows == {Row(i) : i \in LiveSlots(page)}
<1>5. \A i \in LiveSlots(page) : IsFiniteSet(Row(i))
  <2>1. ASSUME NEW i \in LiveSlots(page) PROVE IsFiniteSet(Row(i))
    <3>0. 1 \in Int /\ Size[page.slots[i]] \in Int
      BY <1>2
    <3>1. IsFiniteSet({i}) /\ IsFiniteSet(1 .. Size[page.slots[i]])
      BY <3>0, FS_Singleton, FS_Interval
    <3>2. QED
      BY <3>1, FS_Product
  <2>2. QED
    BY <2>1
<1>6. IsFiniteSet(Rows)
  <2> HIDE DEF Row
  <2> DEFINE g == [i \in LiveSlots(page) |-> Row(i)]
  <2>1. g \in Surjection(LiveSlots(page), Rows)
    BY DEF Surjection
  <2>2. QED
    BY <1>4, <2>1, FS_Surjection
<1>7. Cells(page) = UNION Rows
  BY DEF Cells
<1>8. \A S \in Rows : IsFiniteSet(S)
  BY <1>5
<1>9. IsFiniteSet(UNION Rows)
  <2> HIDE DEF Rows
  <2>1. QED
    BY <1>6, <1>8, FS_UNION
<1>10. QED
  BY <1>7, <1>9, FS_CardinalityType DEF Cells

\* A tuple more takes its size in cells.
LEMMA AddCells ==
  ASSUME NEW page \in Images, NEW new \in Images, NEW t \in Tuples, NEW s,
         s \notin LiveSlots(page), LiveSlots(new) = LiveSlots(page) \cup {s},
         new.slots[s] = t, \A i \in LiveSlots(page) : new.slots[i] = page.slots[i]
  PROVE  Cardinality(Cells(new)) = Cardinality(Cells(page)) + Size[t]
<1> DEFINE row == {s} \X (1 .. Size[t])
           A == Cells(page)
           B == Cells(new)
<1>1. Size[t] \in Nat \ {0}
  BY SizeAssumption
<1>2. IsFiniteSet(row) /\ Cardinality(row) = Size[t]
  <2>0. 1 \in Int /\ Size[t] \in Int
    BY <1>1
  <2>1. IsFiniteSet({s}) /\ Cardinality({s}) = 1
    BY FS_Singleton
  <2>2. IsFiniteSet(1 .. Size[t]) /\ Cardinality(1 .. Size[t]) = Size[t]
    BY <1>1, <2>0, FS_Interval
  <2>3. IsFiniteSet(row) /\ Cardinality(row) = Cardinality({s}) * Cardinality(1 .. Size[t])
    BY <2>1, <2>2, FS_Product
  <2>4. QED
    BY <1>1, <2>1, <2>2, <2>3
<1>3. IsFiniteSet(A) /\ Cardinality(A) \in Nat
  BY CellsFacts
<1>4. A \cap row = {}
  BY DEF Cells
<1>5. B = A \cup row
  BY DEF Cells
<1> HIDE DEF row, A, B
<1>6. Cardinality(A \cap row) = 0
  BY <1>4, FS_EmptySet
<1>7. Cardinality(A \cup row) = Cardinality(A) + Cardinality(row) - Cardinality(A \cap row)
  BY <1>2, <1>3, FS_Union
<1>8. QED
  BY <1>1, <1>2, <1>3, <1>5, <1>6, <1>7 DEF A, B

\* Live slots are the slots with a tuple.
LEMMA LiveFacts ==
  ASSUME NEW page \in Images
  PROVE  /\ \A i : i \in LiveSlots(page) <=> IsLive(page, i)
         /\ \A i : IsLive(page, i) =>
              /\ i \in 1 .. Len(page.slots) /\ i \in 1 .. MaxSlots /\ i \in Nat
              /\ page.slots[i] \in Tuples /\ page.slots[i] # NoTuple
              /\ Size[page.slots[i]] \in Nat \ {0}
<1>1. /\ Len(page.slots) \in 0 .. MaxSlots /\ DOMAIN page.slots = 1 .. Len(page.slots)
      /\ page.slots \in [1 .. Len(page.slots) -> Entries] /\ MaxSlots \in Nat
  BY ImageFacts, SizeAssumption
<1>2. \A i : i \in LiveSlots(page) <=> IsLive(page, i)
  BY DEF LiveSlots, IsLive
<1>3. ASSUME NEW i, IsLive(page, i)
      PROVE  /\ i \in 1 .. Len(page.slots) /\ i \in 1 .. MaxSlots /\ i \in Nat
             /\ page.slots[i] \in Tuples /\ page.slots[i] # NoTuple
  BY <1>1, <1>3 DEF IsLive, Entries
<1>4. \A u \in Tuples : Size[u] \in Nat \ {0}
  BY SizeAssumption
<1>5. QED
  BY <1>2, <1>3, <1>4

\* The slot that InsertTuple takes.
LEMMA SlotFacts ==
  ASSUME NEW page \in Images
  PROVE  /\ SlotFor(page) \in 1 .. Len(page.slots) + 1
         /\ ~IsLive(page, SlotFor(page))
         /\ SlotFor(page) = Len(page.slots) + 1 => \A i \in 1 .. Len(page.slots) : IsLive(page, i)
<1> DEFINE n == Len(page.slots)
           U == (DOMAIN page.slots \ LiveSlots(page)) \cup {n + 1}
           s == SlotFor(page)
<1>1. n \in Nat /\ DOMAIN page.slots = 1 .. n
  BY ImageFacts, SizeAssumption
<1>2. U \in SUBSET Nat /\ U # {}
  BY <1>1
<1>3. s = FirstOf(U)
  BY DEF SlotFor, NewSlot
<1> HIDE DEF U, s
<1>4. s \in U /\ \A y \in U : s <= y
  BY <1>2, <1>3, FirstFacts
<1>5. s \in 1 .. n + 1
  BY <1>1, <1>4 DEF U
<1>6. ~IsLive(page, s)
  BY <1>1, <1>4 DEF U, IsLive, LiveSlots
<1>7. ASSUME s = n + 1, NEW i \in 1 .. n PROVE IsLive(page, i)
  <2>1. i \notin U
    BY <1>1, <1>4, <1>7
  <2>2. QED
    BY <1>1, <2>1 DEF U, IsLive, LiveSlots
<1>8. QED
  BY <1>5, <1>6, <1>7 DEF s

\* A page in which every slot has a tuple has at least as many cells.
LEMMA FullPage ==
  ASSUME NEW page \in Images, \A i \in 1 .. Len(page.slots) : IsLive(page, i)
  PROVE  Len(page.slots) <= Cardinality(Cells(page))
<1> DEFINE n == Len(page.slots)
           column == (1 .. n) \X {1}
<1>1. n \in Nat /\ 1 \in Int /\ n \in Int
  BY ImageFacts, SizeAssumption
<1>2. IsFiniteSet(1 .. n) /\ Cardinality(1 .. n) = n /\ IsFiniteSet({1}) /\ Cardinality({1}) = 1
  <2>1. IsFiniteSet(1 .. n) /\ Cardinality(1 .. n) = IF 1 > n THEN 0 ELSE n - 1 + 1
    BY <1>1, FS_Interval
  <2>2. IsFiniteSet({1}) /\ Cardinality({1}) = 1
    BY FS_Singleton
  <2>3. QED
    BY <1>1, <2>1, <2>2
<1>3. IsFiniteSet(column) /\ Cardinality(column) = n
  <2>1. IsFiniteSet(column) /\ Cardinality(column) = Cardinality(1 .. n) * Cardinality({1})
    BY <1>2, FS_Product
  <2>2. QED
    BY <1>1, <1>2, <2>1
<1>4. column \subseteq Cells(page)
  <2>1. ASSUME NEW i \in 1 .. n PROVE <<i, 1>> \in Cells(page)
    <3>1. i \in LiveSlots(page) /\ Size[page.slots[i]] \in Nat \ {0}
      BY LiveFacts
    <3>2. 1 \in 1 .. Size[page.slots[i]]
      BY <3>1
    <3>3. QED
      BY <3>1, <3>2, CellsFacts
  <2>2. QED
    BY <2>1
<1>5. IsFiniteSet(Cells(page))
  BY CellsFacts
<1> HIDE DEF column
<1>6. Cardinality(column) <= Cardinality(Cells(page))
  BY <1>4, <1>5, FS_Subset
<1>7. QED
  BY <1>3, <1>6

\* A page has no room for more than MaxSlots slots.
LEMMA SlotBound ==
  ASSUME NEW n \in Nat, NEW a \in Nat, NEW b \in Nat, NEW c \in Nat,
         a + n * SlotSize + b = PageSpace, a >= c + SlotSize, c >= 1, b >= n
  PROVE  n + 1 <= MaxSlots
<1>1. SlotSize \in Nat /\ MaxSlots \in Nat /\ PageSpace < (MaxSlots + 1) * (SlotSize + 1)
      /\ PageSpace \in Nat
  BY SizeAssumption
<1>2. n * SlotSize \in Nat
  BY <1>1
<1>3. PageSpace >= (n + 1) * (SlotSize + 1)
  <2>1. (n + 1) * (SlotSize + 1) = n * SlotSize + SlotSize + n + 1
    BY <1>1
  <2>2. QED
    BY <1>1, <1>2, <2>1
<1>4. SUFFICES ASSUME n >= MaxSlots PROVE FALSE
  BY <1>1
<1>5. (n - MaxSlots) * (SlotSize + 1) \in Nat
  <2>1. n - MaxSlots \in Nat /\ SlotSize + 1 \in Nat
    BY <1>1, <1>4
  <2>2. QED
    BY <2>1
<1>6. (n + 1) * (SlotSize + 1) = (MaxSlots + 1) * (SlotSize + 1) + (n - MaxSlots) * (SlotSize + 1)
  BY <1>1
<1>7. (n + 1) * (SlotSize + 1) \in Nat /\ (MaxSlots + 1) * (SlotSize + 1) \in Nat
  BY <1>1
<1>8. QED
  BY <1>1, <1>3, <1>5, <1>6, <1>7

\* The page after TablePage::InsertTuple.
LEMMA InsertedFacts ==
  ASSUME NEW page \in Images, RoomOK(page), NEW t \in Tuples, Fits(page, t)
  PROVE  LET new == Inserted(page, t)
             s   == SlotFor(page)
         IN  /\ new \in Images /\ RoomOK(new) /\ new.id = page.id
             /\ new.prev = page.prev /\ new.next = page.next
             /\ s \in 1 .. MaxSlots /\ ~IsLive(page, s)
             /\ IsLive(new, s) /\ new.slots[s] = t
             /\ \A i : i # s => /\ IsLive(new, i) <=> IsLive(page, i)
                                /\ IsLive(page, i) => new.slots[i] = page.slots[i]
<1> DEFINE n == Len(page.slots)
           s == SlotFor(page)
           b == Cardinality(Cells(page))
           m == IF s = n + 1 THEN n + 1 ELSE n
           f == page.free - Cost(page, t)
           slots == [i \in 1 .. n \cup {s} |-> IF i = s THEN t ELSE page.slots[i]]
           new == Inserted(page, t)
<1>1. /\ n \in 0 .. MaxSlots /\ n \in Nat /\ MaxSlots \in Nat /\ DOMAIN page.slots = 1 .. n
      /\ page.slots \in [1 .. n -> Entries] /\ page.free \in -1 .. PageSpace
      /\ PageSpace \in Nat /\ SlotSize \in Nat \ {0}
  BY ImageFacts, SizeAssumption
<1>2. /\ s \in 1 .. n + 1 /\ ~IsLive(page, s)
      /\ s = n + 1 => \A i \in 1 .. n : IsLive(page, i)
  BY SlotFacts
<1>3. Size[t] \in Nat \ {0} /\ b \in Nat
  BY SizeAssumption, CellsFacts
<1>4. /\ page.free >= Cost(page, t)
      /\ Cost(page, t) = Size[t] + IF s = n + 1 THEN SlotSize ELSE 0
  BY DEF Fits, Cost, NewSlot
<1>room. page.free + n * SlotSize + b = PageSpace
  BY DEF RoomOK
<1>5. ASSUME s = n + 1 PROVE n + 1 <= MaxSlots
  <2>1. n <= b
    BY <1>2, <1>5, FullPage
  <2>2. page.free >= Size[t] + SlotSize /\ page.free \in Nat
    BY <1>1, <1>3, <1>4, <1>5
  <2>3. n \in Nat /\ b \in Nat /\ Size[t] \in Nat /\ Size[t] >= 1 /\ b >= n
    BY <1>1, <1>3, <2>1
  <2> HIDE DEF n, b
  <2>4. QED
    BY ONLY <1>room, <2>2, <2>3, SlotBound, Zenon
<1>6. f \in -1 .. PageSpace /\ f \in Nat /\ m \in 0 .. MaxSlots /\ s \in 1 .. m
  <2>1. f \in -1 .. PageSpace /\ f \in Nat
    BY <1>1, <1>3, <1>4
  <2>2. m \in 0 .. MaxSlots /\ s \in 1 .. m
    BY <1>1, <1>2, <1>5
  <2>3. QED
    BY <2>1, <2>2
<1>7. slots \in [1 .. m -> Entries]
  <2>1. 1 .. n \cup {s} = 1 .. m
    BY <1>1, <1>2
  <2>2. QED
    BY <1>1, <2>1 DEF Entries
<1>8. new = Edit(page, f, slots)
  BY DEF Inserted, Edit
<1> HIDE DEF f, slots, m, new
<1>9. /\ new \in Images /\ new.id = page.id /\ new.prev = page.prev /\ new.next = page.next
      /\ new.free = f /\ new.slots = slots /\ Len(slots) = m
  BY <1>6, <1>7, <1>8, EditImage
<1>10. slots[s] = t /\ \A i \in 1 .. n : i # s => slots[i] = page.slots[i]
  BY <1>1 DEF slots
<1>11. IsLive(new, s) /\ new.slots[s] = t
  BY <1>6, <1>7, <1>9, <1>10, SizeAssumption DEF IsLive
<1>12. ASSUME NEW i, i # s
       PROVE  /\ IsLive(new, i) <=> IsLive(page, i)
              /\ IsLive(page, i) => new.slots[i] = page.slots[i]
  <2>1. i \in 1 .. m <=> i \in 1 .. n
    BY <1>1, <1>2, <1>12 DEF m
  <2>2. QED
    BY <1>1, <1>7, <1>9, <1>10, <1>12, <2>1 DEF IsLive
<1>13. Cardinality(Cells(new)) = b + Size[t]
  <2>1. LiveSlots(new) = LiveSlots(page) \cup {s} /\ s \notin LiveSlots(page)
        /\ \A i \in LiveSlots(page) : new.slots[i] = page.slots[i]
    BY <1>2, <1>9, <1>11, <1>12, LiveFacts
  <2>2. QED
    BY <1>9, <1>11, <2>1, AddCells
<1>14. f + m * SlotSize + (b + Size[t]) = PageSpace
  <2> DEFINE k == n * SlotSize
  <2>1. (n + 1) * SlotSize = k + SlotSize /\ k \in Nat
    BY <1>1
  <2>2. page.free + k + b = PageSpace
    BY <1>room
  <2> HIDE DEF k
  <2>3. m * SlotSize = IF s = n + 1 THEN k + SlotSize ELSE k
    BY <2>1 DEF m, k
  <2>4. QED
    BY <1>1, <1>3, <1>4, <2>1, <2>2, <2>3 DEF f
<1>15. RoomOK(new)
  BY <1>6, <1>9, <1>13, <1>14 DEF RoomOK
<1>16. s \in 1 .. MaxSlots
  BY <1>1, <1>6
<1>17. QED
  BY <1>2, <1>9, <1>11, <1>12, <1>15, <1>16 DEF new

\* A page in which slot i has another entry, and other room.
Edited(page, i, e, f) == Edit(page, f, [page.slots EXCEPT ![i] = e])

\* The result is a page.
LEMMA EditedFacts ==
  ASSUME NEW page \in Images, NEW i \in 1 .. Len(page.slots), NEW e \in Entries,
         NEW f \in -1 .. PageSpace
  PROVE  LET new == Edited(page, i, e, f)
         IN  /\ new \in Images /\ new.id = page.id /\ new.prev = page.prev
             /\ new.next = page.next /\ new.free = f /\ Len(new.slots) = Len(page.slots)
             /\ new.slots[i] = e /\ (IsLive(new, i) <=> e # NoTuple)
             /\ \A j : j # i => /\ IsLive(new, j) <=> IsLive(page, j)
                                /\ IsLive(page, j) => new.slots[j] = page.slots[j]
<1> DEFINE n == Len(page.slots)
           s == [page.slots EXCEPT ![i] = e]
           new == Edited(page, i, e, f)
<1>1. /\ n \in 0 .. MaxSlots /\ DOMAIN page.slots = 1 .. n /\ page.slots \in [1 .. n -> Entries]
  BY ImageFacts
<1>2. s \in [1 .. n -> Entries] /\ s[i] = e /\ \A j \in 1 .. n : j # i => s[j] = page.slots[j]
  BY <1>1
<1>3. new = Edit(page, f, s)
  BY DEF Edited
<1> HIDE DEF s, new, n
<1>4. /\ new \in Images /\ new.id = page.id /\ new.prev = page.prev /\ new.next = page.next
      /\ new.free = f /\ new.slots = s /\ Len(s) = n
  BY <1>1, <1>2, <1>3, EditImage
<1>5. DOMAIN new.slots = 1 .. n
  BY <1>2, <1>4
<1>6. i \in 1 .. n
  BY DEF n
<1>7. QED
  BY <1>1, <1>2, <1>4, <1>5, <1>6 DEF IsLive, new, n

\* The cells of an entry.
Weight(e) == IF e = NoTuple THEN 0 ELSE Size[e]

\* The cells of a page, with and without the tuple in slot i.
LEMMA EmptiedCells ==
  ASSUME NEW page \in Images, NEW i, IsLive(page, i), NEW e \in Entries,
         NEW f \in -1 .. PageSpace
  PROVE  \E b \in Nat :
           /\ Cardinality(Cells(page)) = b + Size[page.slots[i]]
           /\ Cardinality(Cells(Edited(page, i, e, f))) = b + Weight(e)
<1> DEFINE new == Edited(page, i, e, f)
           z == Edited(page, i, NoTuple, f)
<1>1. i \in 1 .. Len(page.slots) /\ page.slots[i] \in Tuples /\ NoTuple \in Entries
  BY LiveFacts DEF Entries
<1>2. /\ z \in Images /\ ~IsLive(z, i)
      /\ \A j : j # i => /\ IsLive(z, j) <=> IsLive(page, j)
                         /\ IsLive(page, j) => z.slots[j] = page.slots[j]
  BY <1>1, EditedFacts
<1>3. /\ new \in Images /\ new.slots[i] = e /\ (IsLive(new, i) <=> e # NoTuple)
      /\ \A j : j # i => /\ IsLive(new, j) <=> IsLive(page, j)
                         /\ IsLive(page, j) => new.slots[j] = page.slots[j]
  BY <1>1, EditedFacts
<1> HIDE DEF new, z
<1>4. Cardinality(Cells(z)) \in Nat
  BY <1>2, CellsFacts
<1>5. Cardinality(Cells(page)) = Cardinality(Cells(z)) + Size[page.slots[i]]
  <2>1. /\ i \notin LiveSlots(z) /\ LiveSlots(page) = LiveSlots(z) \cup {i}
        /\ \A j \in LiveSlots(z) : page.slots[j] = z.slots[j]
    BY <1>2, LiveFacts
  <2>2. QED
    BY <1>1, <1>2, <2>1, AddCells
<1>6. CASE e = NoTuple
  <2>1. new = z
    BY <1>6 DEF new, z
  <2>2. QED
    BY <1>4, <1>5, <1>6, <2>1 DEF new, Weight
<1>7. CASE e # NoTuple
  <2>1. e \in Tuples /\ Size[e] \in Nat
    BY <1>7, SizeAssumption DEF Entries
  <2>2. /\ i \notin LiveSlots(z) /\ LiveSlots(new) = LiveSlots(z) \cup {i}
        /\ \A j \in LiveSlots(z) : new.slots[j] = z.slots[j]
    BY <1>2, <1>3, <1>7, LiveFacts
  <2>3. Cardinality(Cells(new)) = Cardinality(Cells(z)) + Size[e]
    BY <1>2, <1>3, <2>1, <2>2, AddCells
  <2>4. QED
    BY <1>4, <1>5, <1>7, <2>3 DEF new, Weight
<1>8. QED
  BY <1>6, <1>7

\* The page after TablePage::DeleteTuple.
LEMMA DeletedFacts ==
  ASSUME NEW page \in Images, RoomOK(page), NEW i, IsLive(page, i)
  PROVE  LET new == Deleted(page, i)
         IN  /\ new \in Images /\ RoomOK(new) /\ new.id = page.id
             /\ new.prev = page.prev /\ new.next = page.next /\ ~IsLive(new, i)
             /\ \A j : j # i => /\ IsLive(new, j) <=> IsLive(page, j)
                                /\ IsLive(page, j) => new.slots[j] = page.slots[j]
<1> DEFINE f == page.free + Size[page.slots[i]]
           new == Deleted(page, i)
           k == Len(page.slots) * SlotSize
<1>1. /\ i \in 1 .. Len(page.slots) /\ Size[page.slots[i]] \in Nat \ {0} /\ NoTuple \in Entries
      /\ 0 \in -1 .. PageSpace /\ PageSpace \in Nat /\ k \in Nat
  <2>1. Len(page.slots) \in Nat /\ SlotSize \in Nat /\ PageSpace \in Nat
    BY ImageFacts, SizeAssumption
  <2>2. QED
    BY <2>1, LiveFacts DEF Entries
<1>2. PICK b \in Nat : /\ Cardinality(Cells(page)) = b + Size[page.slots[i]]
                       /\ Cardinality(Cells(Edited(page, i, NoTuple, 0))) = b + Weight(NoTuple)
  BY <1>1, EmptiedCells
<1>3. page.free \in Nat /\ page.free + k + Cardinality(Cells(page)) = PageSpace
  BY DEF RoomOK
<1> HIDE DEF k
<1>4. f \in -1 .. PageSpace /\ f \in Nat /\ f + k + b = PageSpace
  <2> DEFINE s == Size[page.slots[i]]
             a == page.free
  <2>1. a \in Nat /\ s \in Nat /\ k \in Nat /\ b \in Nat /\ a + k + (b + s) = PageSpace
    BY <1>1, <1>2, <1>3
  <2> HIDE DEF s, a
  <2>2. a + s \in -1 .. PageSpace /\ a + s \in Nat /\ a + s + k + b = PageSpace
    BY <1>1, <2>1
  <2>3. QED
    BY <2>2 DEF s, a
<1>5. new = Edited(page, i, NoTuple, f)
  BY DEF Deleted, Edited, Edit, Images
<1>6. PICK c \in Nat : /\ Cardinality(Cells(page)) = c + Size[page.slots[i]]
                       /\ Cardinality(Cells(Edited(page, i, NoTuple, f))) = c + Weight(NoTuple)
  <2> HIDE DEF f
  <2>1. QED
    BY <1>1, <1>4, EmptiedCells
<1>7. Cardinality(Cells(new)) = b
  BY <1>1, <1>2, <1>5, <1>6 DEF Weight
<1> HIDE DEF new, f
<1>8. /\ new \in Images /\ new.id = page.id /\ new.prev = page.prev
      /\ new.next = page.next /\ new.free = f /\ Len(new.slots) = Len(page.slots)
      /\ ~IsLive(new, i)
      /\ \A j : j # i => /\ IsLive(new, j) <=> IsLive(page, j)
                         /\ IsLive(page, j) => new.slots[j] = page.slots[j]
  BY <1>1, <1>4, <1>5, EditedFacts
<1>9. RoomOK(new)
  BY <1>4, <1>7, <1>8 DEF RoomOK, k
<1>10. QED
  BY <1>4, <1>8, <1>9 DEF new

\* The page after TablePage::UpdateTuple.
LEMMA UpdatedFacts ==
  ASSUME NEW page \in Images, RoomOK(page), NEW i, NEW t \in Tuples, CanUpdate(page, i, t)
  PROVE  LET new == Updated(page, i, t)
         IN  /\ new \in Images /\ RoomOK(new) /\ new.id = page.id
             /\ new.prev = page.prev /\ new.next = page.next
             /\ IsLive(new, i) /\ new.slots[i] = t
             /\ \A j : j # i => /\ IsLive(new, j) <=> IsLive(page, j)
                                /\ IsLive(page, j) => new.slots[j] = page.slots[j]
<1> DEFINE f == page.free + Size[page.slots[i]] - Size[t]
           new == Updated(page, i, t)
           k == Len(page.slots) * SlotSize
<1>0. IsLive(page, i) /\ page.free >= Size[t] - Size[page.slots[i]]
  BY DEF CanUpdate
<1>1. /\ i \in 1 .. Len(page.slots) /\ Size[page.slots[i]] \in Nat \ {0} /\ t \in Entries
      /\ Size[t] \in Nat \ {0} /\ t # NoTuple
      /\ 0 \in -1 .. PageSpace /\ PageSpace \in Nat /\ k \in Nat
  <2>1. Len(page.slots) \in Nat /\ SlotSize \in Nat /\ PageSpace \in Nat /\ Size[t] \in Nat \ {0}
        /\ t # NoTuple
    BY ImageFacts, SizeAssumption
  <2>2. QED
    BY <1>0, <2>1, LiveFacts DEF Entries
<1>2. PICK b \in Nat : /\ Cardinality(Cells(page)) = b + Size[page.slots[i]]
                       /\ Cardinality(Cells(Edited(page, i, t, 0))) = b + Weight(t)
  BY <1>0, <1>1, EmptiedCells
<1>3. page.free \in Nat /\ page.free + k + Cardinality(Cells(page)) = PageSpace
  BY DEF RoomOK
<1> HIDE DEF k
<1>4. f \in -1 .. PageSpace /\ f \in Nat /\ f + k + (b + Size[t]) = PageSpace
  <2> DEFINE s == Size[page.slots[i]]
             a == page.free
             u == Size[t]
  <2>1. a \in Nat /\ s \in Nat /\ u \in Nat /\ k \in Nat /\ b \in Nat
        /\ a + k + (b + s) = PageSpace /\ a >= u - s
    BY <1>0, <1>1, <1>2, <1>3
  <2> HIDE DEF s, a, u
  <2>0. PageSpace \in Nat
    BY <1>1
  <2>2. a + s - u \in -1 .. PageSpace /\ a + s - u \in Nat /\ a + s - u + k + (b + u) = PageSpace
    BY ONLY <2>0, <2>1
  <2>3. QED
    BY <2>2 DEF s, a, u
<1>5. new = Edited(page, i, t, f)
  BY DEF Updated, Edited, Edit, Images
<1>6. PICK c \in Nat : /\ Cardinality(Cells(page)) = c + Size[page.slots[i]]
                       /\ Cardinality(Cells(Edited(page, i, t, f))) = c + Weight(t)
  <2> HIDE DEF f
  <2>1. QED
    BY <1>0, <1>1, <1>4, EmptiedCells
<1>7. Cardinality(Cells(new)) = b + Size[t]
  BY <1>1, <1>2, <1>5, <1>6 DEF Weight
<1> HIDE DEF new, f
<1>8. /\ new \in Images /\ new.id = page.id /\ new.prev = page.prev
      /\ new.next = page.next /\ new.free = f /\ Len(new.slots) = Len(page.slots)
      /\ IsLive(new, i) /\ new.slots[i] = t
      /\ \A j : j # i => /\ IsLive(new, j) <=> IsLive(page, j)
                         /\ IsLive(page, j) => new.slots[j] = page.slots[j]
  BY <1>1, <1>4, <1>5, EditedFacts
<1>9. RoomOK(new)
  BY <1>4, <1>7, <1>8 DEF RoomOK, k
<1>10. QED
  BY <1>4, <1>8, <1>9 DEF new

\* The tuple after slot i of a page: TablePage::GetNextTupleRid.
LEMMA RidFacts ==
  ASSUME NEW page \in Images, NEW i \in Nat
  PROVE  LET r == RidAfter(page, i)
         IN  \/ r = EOF /\ \A j : IsLive(page, j) => j <= i
             \/ /\ r # EOF /\ r \in Rids /\ r[1] = page.id /\ i < r[2] /\ IsLive(page, r[2])
                /\ \A j : IsLive(page, j) /\ i < j => r[2] <= j
<1> DEFINE later == {j \in LiveSlots(page) : j > i}
           k == FirstOf(later)
<1>1. RidAfter(page, i) = IF later = {} THEN EOF ELSE <<page.id, k>>
  BY DEF RidAfter
<1>2. \A j : IsLive(page, j) => j \in LiveSlots(page) /\ j \in Nat
  BY LiveFacts
<1>3. CASE later = {}
  <2>1. \A j : IsLive(page, j) => j <= i
    BY <1>2, <1>3
  <2>2. QED
    BY <1>1, <1>3, <2>1
<1>4. CASE later # {}
  <2>1. later \in SUBSET Nat
    BY LiveFacts
  <2> HIDE DEF later
  <2>2. k \in later /\ \A y \in later : k <= y
    BY <1>4, <2>1, FirstFacts
  <2> HIDE DEF k
  <2>3. IsLive(page, k) /\ i < k /\ \A j : IsLive(page, j) /\ i < j => k <= j
    BY <1>2, <2>2, LiveFacts DEF later
  <2>4. k \in 1 .. MaxSlots /\ page.id \in PageIds
    BY <2>3, LiveFacts, ImageFacts
  <2>5. <<page.id, k>> \in Rids
    BY <2>4 DEF Rids
  <2>6. <<page.id, k>> # EOF
    <3>1. page.id # INVALID_PAGE_ID
      BY <2>4, MaxPagesAssumption DEF PageIds, INVALID_PAGE_ID
    <3>2. QED
      BY <3>1 DEF EOF
  <2>7. QED
    BY <1>1, <1>4, <2>3, <2>5, <2>6
<1>5. QED
  BY <1>3, <1>4

\* A page just formatted is empty.
LEMMA FormattedFacts ==
  ASSUME NEW p \in PageIds, NEW prev \in PageIds \cup {INVALID_PAGE_ID}
  PROVE  LET new == Formatted(p, prev)
         IN  /\ new \in Images /\ RoomOK(new) /\ new.id = p /\ new.prev = prev
             /\ new.next = INVALID_PAGE_ID /\ new.slots = <<>> /\ \A i : ~IsLive(new, i)
<1> DEFINE new == Formatted(p, prev)
<1>0. PageSpace \in Nat /\ MaxSlots \in Nat /\ SlotSize \in Nat
  BY SizeAssumption
<1>1. new \in Images
  <2>1. PageSpace \in -1 .. PageSpace /\ 0 \in 0 .. MaxSlots
        /\ INVALID_PAGE_ID \in PageIds \cup {INVALID_PAGE_ID}
    BY <1>0
  <2>2. <<>> \in [1 .. 0 -> Entries]
    OBVIOUS
  <2>3. QED
    BY <2>1, <2>2, MakeImage DEF Formatted
<1>2. /\ new.id = p /\ new.prev = prev /\ new.next = INVALID_PAGE_ID
      /\ new.slots = <<>> /\ new.free = PageSpace
  BY DEF Formatted
<1> HIDE DEF new
<1>3. \A i : ~IsLive(new, i)
  BY <1>2 DEF IsLive
<1>4. LiveSlots(new) = {} /\ Len(new.slots) = 0
  BY <1>2 DEF LiveSlots
<1>5. Cells(new) = {}
  BY <1>4 DEF Cells
<1>6. Cardinality(Cells(new)) = 0
  BY <1>5, FS_EmptySet
<1>7. RoomOK(new)
  BY <1>0, <1>2, <1>4, <1>6 DEF RoomOK
<1>8. QED
  BY <1>1, <1>2, <1>3, <1>7 DEF new

-----------------------------------------------------------------------------
(* The pool, as a table sees it.                                           *)

\* The content of a page is in the frame that holds it, or on disk.
ContentIs ==
  \A q \in PageIds : /\ Content(q) \in Images
                     /\ \A f \in Frames : page_id[f] = q => Content(q) = data[f]
                     /\ (\A f \in Frames : page_id[f] # q) => Content(q) = OnDisk(q)

\* The page table finds the frame.
LEMMA ContentFacts == PoolInv => ContentIs
<1> SUFFICES ASSUME PoolInv, NEW q \in PageIds
             PROVE  /\ Content(q) \in Images
                    /\ \A f \in Frames : page_id[f] = q => Content(q) = data[f]
                    /\ (\A f \in Frames : page_id[f] # q) => Content(q) = OnDisk(q)
  BY DEF ContentIs
<1>1. data \in [Frames -> Images] /\ db_file \in [PageIds -> Images \cup {Absent}]
      /\ Zero \in Images
  BY ImageAssumption, ContentsAssumption DEF PoolInv, TypeOK
<1>2. CASE InTable(q)
  <2>1. Lookup(q) \in Frames /\ \A g \in Frames : page_id[g] = q <=> g = Lookup(q)
    BY <1>2, LookupFrame
  <2>2. QED
    BY <1>1, <1>2, <2>1 DEF Content
<1>3. CASE ~InTable(q)
  <2>1. \A f \in Frames : page_id[f] # q
    BY <1>3 DEF InTable, PoolInv, TableMatchesFrames
  <2>2. OnDisk(q) \in Images
    BY <1>1 DEF OnDisk
  <2>3. QED
    BY <1>3, <2>1, <2>2 DEF Content
<1>4. QED
  BY <1>2, <1>3

\* Whoever does not hold a page points nowhere.
LEMMA HandleFacts ==
  ASSUME PoolOK, NEW c \in Clients
  PROVE  /\ IsHeld(c) => /\ handle[c].frame \in Frames /\ handle[c].page \in PageIds
                         /\ page_id[handle[c].frame] = handle[c].page
                         /\ Page(c) = Content(handle[c].page)
                         /\ Content(handle[c].page) \in Images
         /\ ~IsHeld(c) => handle[c].frame = 0
         /\ handle \in [Clients -> Handles \cup {NoHandle}]
<1>1. handle \in [Clients -> Handles \cup {NoHandle}] /\ PoolInv
  BY DEF PoolOK, PoolInv, TypeOK
<1>2. CASE IsHeld(c)
  <2>1. handle[c] \in Handles /\ page_id[handle[c].frame] = handle[c].page
    BY <1>2 DEF IsHeld, PoolOK, PointersOK
  <2>2. handle[c].frame \in Frames /\ handle[c].page \in PageIds
    BY <2>1 DEF Handles
  <2>3. QED
    BY <1>1, <1>2, <2>1, <2>2, ContentFacts DEF ContentIs, Page
<1>3. CASE ~IsHeld(c)
  BY <1>1, <1>3 DEF IsHeld, NoHandle
<1>4. QED
  BY <1>2, <1>3

\* A pointer is given a page, in a frame that held the page or was not in use.
LEMMA GivePointer ==
  ASSUME PoolOK, NEW c \in Clients, handle[c] = NoHandle, NEW f \in Frames, NEW p \in PageIds,
         pin_count' = [pin_count EXCEPT ![f] = @ + 1],
         handle' = [handle EXCEPT ![c] = [frame |-> f, page |-> p, wrote |-> FALSE]],
         page_id'[f] = p, \A g \in Frames : g # f => page_id'[g] = page_id[g],
         page_id[f] # p => pin_count[f] = 0
  PROVE  /\ PinsOK' /\ PointersOK' /\ handle'[c] # NoHandle /\ handle'[c].page = p
         /\ \A d \in Clients : d # c => handle'[d] = handle[d]
<1> DEFINE h == [frame |-> f, page |-> p, wrote |-> FALSE]
<1>1. /\ handle \in [Clients -> Handles \cup {NoHandle}] /\ pin_count \in [Frames -> Nat]
      /\ 0 \notin Frames
  BY PoolIsNotEmpty DEF PoolOK, PoolInv, TypeOK, Frames
<1>2. h \in Handles /\ h.frame = f /\ h.page = p /\ h # NoHandle /\ NoHandle.frame = 0
  BY <1>1 DEF Handles, NoHandle
<1>3. handle'[c] = h /\ \A d \in Clients : d # c => handle'[d] = handle[d]
  BY <1>1
<1> HIDE DEF h
<1>4. ASSUME NEW g \in Frames PROVE
        /\ Held(c, g) = 0 /\ Held(c, g)' = IF g = f THEN 1 ELSE 0
        /\ \A d \in Clients : d # c => Held(d, g)' = Held(d, g)
  BY <1>1, <1>2, <1>3 DEF Held
<1>5. ASSUME NEW g \in Frames
      PROVE  pin_count'[g] = Held("cur", g)' + Held("new", g)' + Held("header", g)'
  <2>1. pin_count[g] = Held("cur", g) + Held("new", g) + Held("header", g)
    BY DEF PoolOK, PinsOK
  <2>2. pin_count'[g] = IF g = f THEN pin_count[g] + 1 ELSE pin_count[g]
    BY <1>1
  <2>3. \A d : Held(d, g) \in Nat /\ Held(d, g)' \in Nat
    BY DEF Held
  <2>4. c \in {"cur", "new", "header"} /\ Clients = {"cur", "new", "header"}
    BY ClientAssumption
  <2>5. CASE c = "cur"
    <3>1. Held("new", g)' = Held("new", g) /\ Held("header", g)' = Held("header", g)
      BY <1>4, <2>4, <2>5
    <3>2. QED
      BY <1>4, <2>1, <2>2, <2>3, <2>5, <3>1
  <2>6. CASE c = "new"
    <3>1. Held("cur", g)' = Held("cur", g) /\ Held("header", g)' = Held("header", g)
      BY <1>4, <2>4, <2>6
    <3>2. QED
      BY <1>4, <2>1, <2>2, <2>3, <2>6, <3>1
  <2>7. CASE c = "header"
    <3>1. Held("cur", g)' = Held("cur", g) /\ Held("new", g)' = Held("new", g)
      BY <1>4, <2>4, <2>7
    <3>2. QED
      BY <1>4, <2>1, <2>2, <2>3, <2>7, <3>1
  <2>8. QED
    BY <2>4, <2>5, <2>6, <2>7
<1>6. ASSUME NEW d \in Clients, d # c, handle[d] # NoHandle
      PROVE  handle[d] \in Handles /\ page_id'[handle[d].frame] = handle[d].page
  <2>1. /\ handle[d] \in Handles /\ handle[d].frame \in Frames
        /\ page_id[handle[d].frame] = handle[d].page
    BY <1>6 DEF PoolOK, PointersOK, Handles
  <2>2. Held(d, handle[d].frame) = 1
    BY DEF Held
  <2>3. pin_count[handle[d].frame] # 0
    <3> DEFINE g == handle[d].frame
    <3>1. pin_count[g] = Held("cur", g) + Held("new", g) + Held("header", g)
      BY <2>1 DEF PoolOK, PinsOK
    <3>2. Held("cur", g) \in Nat /\ Held("new", g) \in Nat /\ Held("header", g) \in Nat
      BY DEF Held
    <3>3. d = "cur" \/ d = "new" \/ d = "header"
      BY ClientAssumption
    <3> HIDE DEF g
    <3>4. Held(d, g) = 1
      BY <2>2 DEF g
    <3>5. pin_count[g] # 0
      <4>1. CASE d = "cur"
        BY <3>1, <3>2, <3>4, <4>1
      <4>2. CASE d = "new"
        BY <3>1, <3>2, <3>4, <4>2
      <4>3. CASE d = "header"
        BY <3>1, <3>2, <3>4, <4>3
      <4>4. QED
        BY <3>3, <4>1, <4>2, <4>3
    <3>6. QED
      BY <3>5 DEF g
  <2>4. QED
    BY <2>1, <2>3
<1>7. PinsOK'
  BY <1>5 DEF PinsOK
<1>8. PointersOK'
  BY <1>2, <1>3, <1>6 DEF PointersOK
<1>9. QED
  BY <1>2, <1>3, <1>7, <1>8

SameContent == \A q \in PageIds : Content(q)' = Content(q)

\* A frame is given to a page that was in none, by a pool that keeps its contract.
LEMMA TakeOver ==
  ASSUME PoolOK, PoolInv', PoolKeepsContract, NEW f \in Frames, NEW p \in PageIds,
         page_id' = [page_id EXCEPT ![f] = p], \A g \in Frames : page_id[g] # p,
         \A g \in Frames : g # f => data'[g] = data[g],
         \A q \in PageIds : q # page_id[f] => OnDisk(q)' = OnDisk(q)
  PROVE  /\ \A q \in PageIds : q # p => Content(q)' = Content(q)
         /\ Content(p)' = data'[f] /\ data'[f] = OnDisk(p)' /\ Content(p) = OnDisk(p)
         /\ pin_count[f] = 0
<1>1. page_id \in [Frames -> PageIds \cup {INVALID_PAGE_ID}] /\ PoolInv
  BY DEF PoolOK, PoolInv, TypeOK
<1>2. ContentIs /\ ContentIs'
  BY <1>1, ContentFacts, PTL
<1>3. page_id'[f] = p /\ \A g \in Frames : g # f => page_id'[g] = page_id[g]
  BY <1>1
<1>4. /\ pin_count[f] = 0 /\ data'[f] = OnDisk(p)'
      /\ \A q \in PageIds : q = page_id[f] => OnDisk(q)' = data[f]
  BY <1>3 DEF PoolKeepsContract
<1>5. Content(p)' = data'[f] /\ Content(p) = OnDisk(p)
  BY <1>2, <1>3 DEF ContentIs
<1>6. ASSUME NEW q \in PageIds, q # p PROVE Content(q)' = Content(q)
  <2>1. CASE q = page_id[f]
    <3>1. \A g \in Frames : page_id[g] = q => g = f
      BY <1>1, <2>1 DEF PoolInv, TableMatchesFrames
    <3>2. \A g \in Frames : page_id'[g] # q
      BY <1>3, <1>6, <3>1
    <3>3. Content(q)' = OnDisk(q)' /\ Content(q) = data[f]
      BY <1>2, <2>1, <3>2 DEF ContentIs
    <3>4. QED
      BY <1>4, <2>1, <3>3
  <2>2. CASE q # page_id[f] /\ \E g \in Frames : page_id[g] = q
    <3>1. PICK g \in Frames : page_id[g] = q
      BY <2>2
    <3>2. g # f /\ page_id'[g] = q /\ data'[g] = data[g]
      BY <1>3, <2>2, <3>1
    <3>3. QED
      BY <1>2, <3>1, <3>2 DEF ContentIs
  <2>3. CASE q # page_id[f] /\ \A g \in Frames : page_id[g] # q
    <3>1. \A g \in Frames : page_id'[g] # q
      BY <1>3, <1>6, <2>3
    <3>2. QED
      BY <1>2, <2>3, <3>1 DEF ContentIs
  <2>4. QED
    BY <2>1, <2>2, <2>3
<1>7. QED
  BY <1>4, <1>5, <1>6

\* Writing a page leaves what the file holds for the others.
LEMMA WriteFacts ==
  ASSUME NEW file \in [PageIds -> Contents \cup {Absent}], NEW old, NEW d,
         db_file = file, db_file' = WritePage(file, old, d)
  PROVE  \A q \in PageIds : q # old => OnDisk(q)' = OnDisk(q)
  BY DEF WritePage, OnDisk

\* Pointer c has been given page p, and the other pointers have not moved.
Given(c, p) == /\ handle[c] = NoHandle /\ handle'[c] # NoHandle /\ handle'[c].page = p
               /\ \A d \in Clients : d # c => handle'[d] = handle[d]

\* FetchPage gives a pointer and leaves the content of every page alone.
LEMMA FetchFacts ==
  ASSUME PoolOK, NEW c \in Clients, NEW p \in PageIds, FetchPage(c, p), PoolKeepsContract
  PROVE  PoolOK' /\ SameContent /\ Given(c, p) /\ UNCHANGED <<live, next_page_id>>
<1>0. PoolInv
  BY DEF PoolOK
<1>t. /\ page_id \in [Frames -> PageIds \cup {INVALID_PAGE_ID}]
      /\ data \in [Frames -> Contents] /\ db_file \in [PageIds -> Contents \cup {Absent}]
      /\ pin_count \in [Frames -> Nat]
  BY <1>0 DEF PoolInv, TypeOK
<1>1. CASE FetchHit(c, p)
  <2>1. PoolInv'
    BY <1>0, <1>1, FetchHitPreserves
  <2>2. InTable(p) /\ handle[c] = NoHandle
        /\ UNCHANGED <<page_id, data, db_file, next_page_id, page_table, live>>
    BY <1>1 DEF FetchHit, diskVars
  <2>3. Lookup(p) \in Frames /\ page_id[Lookup(p)] = p
    BY <1>0, <2>2, LookupFrame
  <2>4. \A q : Content(q)' = Content(q)
    BY <2>2 DEF Content, InTable, Lookup, OnDisk
  <2>5. /\ pin_count' = [pin_count EXCEPT ![Lookup(p)] = @ + 1]
        /\ handle' = [handle EXCEPT ![c] = [frame |-> Lookup(p), page |-> p, wrote |-> FALSE]]
    BY <1>1 DEF FetchHit, Give
  <2>6. page_id'[Lookup(p)] = p /\ \A g \in Frames : page_id'[g] = page_id[g]
    BY <2>2, <2>3
  <2>0. PICK f \in Frames : f = Lookup(p)
    BY <2>3
  <2>7. /\ page_id'[f] = p /\ page_id[f] = p
        /\ pin_count' = [pin_count EXCEPT ![f] = @ + 1]
        /\ handle' = [handle EXCEPT ![c] = [frame |-> f, page |-> p, wrote |-> FALSE]]
    BY <2>0, <2>3, <2>5, <2>6
  <2>8. PinsOK' /\ PointersOK' /\ handle'[c] # NoHandle /\ handle'[c].page = p
        /\ \A d \in Clients : d # c => handle'[d] = handle[d]
    <3>1. /\ handle[c] = NoHandle /\ \A g \in Frames : g # f => page_id'[g] = page_id[g]
          /\ pin_count' = [pin_count EXCEPT ![f] = @ + 1] /\ page_id'[f] = p
          /\ page_id[f] # p => pin_count[f] = 0
      BY <2>2, <2>6, <2>7
    <3>2. handle' = [handle EXCEPT ![c] = [frame |-> f, page |-> p, wrote |-> FALSE]]
      BY <2>7
    <3>3. QED
      BY <3>1, <3>2, GivePointer
  <2>9. QED
    BY <2>1, <2>2, <2>4, <2>8 DEF PoolOK, SameContent, Given
<1>2. CASE FetchMiss(c, p)
  <2> DEFINE f == ChosenFrame
             file == IF is_dirty[f] THEN WritePage(db_file, page_id[f], data[f]) ELSE db_file
  <2>1. PoolInv'
    BY <1>0, <1>2, FetchMissPreserves
  <2>2. f \in Frames
    BY <1>0, <1>2, TakenFrame DEF FetchMiss
  <2>3. /\ ~InTable(p) /\ handle[c] = NoHandle /\ UNCHANGED <<live, next_page_id>>
        /\ db_file' = file /\ page_id' = [page_id EXCEPT ![f] = p]
        /\ pin_count' = [pin_count EXCEPT ![f] = @ + 1]
        /\ data' = [data EXCEPT ![f] = ReadPage(file, p, @)]
        /\ handle' = [handle EXCEPT ![c] = [frame |-> f, page |-> p, wrote |-> FALSE]]
    BY <1>2 DEF FetchMiss, Give
  <2>4. \A g \in Frames : page_id[g] # p
    BY <1>0, <2>3 DEF InTable, PoolInv, TableMatchesFrames
  <2>5. \A q \in PageIds : q # page_id[f] => OnDisk(q)' = OnDisk(q)
    <3>1. CASE is_dirty[f]
      <4>1. db_file' = WritePage(db_file, page_id[f], data[f])
        BY <2>3, <3>1
      <4> HIDE DEF f
      <4>2. QED
        BY <1>t, <4>1, WriteFacts
    <3>2. CASE ~is_dirty[f]
      BY <2>3, <3>2 DEF OnDisk
    <3>3. QED
      BY <3>1, <3>2
  <2>6. \A g \in Frames : g # f => data'[g] = data[g] /\ page_id'[g] = page_id[g]
    BY <1>t, <2>3
  <2>7. page_id'[f] = p
    BY <1>t, <2>2, <2>3
  <2> HIDE DEF f, file
  <2>8. /\ \A q \in PageIds : q # p => Content(q)' = Content(q)
        /\ Content(p)' = data'[f] /\ data'[f] = OnDisk(p)' /\ Content(p) = OnDisk(p)
        /\ pin_count[f] = 0
    BY <2>1, <2>2, <2>3, <2>4, <2>5, <2>6, TakeOver
  <2>9. SameContent
    BY <2>2, <2>4, <2>5, <2>8 DEF SameContent
  <2>10. PinsOK' /\ PointersOK' /\ handle'[c] # NoHandle /\ handle'[c].page = p
        /\ \A d \in Clients : d # c => handle'[d] = handle[d]
    BY <2>2, <2>3, <2>6, <2>7, <2>8, GivePointer
  <2>11. QED
    BY <2>1, <2>3, <2>9, <2>10 DEF PoolOK, Given
<1>3. QED
  BY <1>1, <1>2 DEF FetchPage

\* NewPage creates the next page, empty, and leaves the content of the others alone.
LEMMA NewFacts ==
  ASSUME PoolOK, NEW c \in Clients, NewPage(c), PoolKeepsContract
  PROVE  /\ PoolOK' /\ Given(c, next_page_id) /\ next_page_id \in PageIds
         /\ \A q \in PageIds : Content(q)' = IF q = next_page_id THEN ZeroImage ELSE Content(q)
         /\ next_page_id' = next_page_id + 1 /\ live' = live \cup {next_page_id}
<1> DEFINE f == ChosenFrame
           p == next_page_id
<1>0. PoolInv
  BY DEF PoolOK
<1>t. /\ page_id \in [Frames -> PageIds \cup {INVALID_PAGE_ID}]
      /\ data \in [Frames -> Contents] /\ db_file \in [PageIds -> Contents \cup {Absent}]
      /\ pin_count \in [Frames -> Nat] /\ next_page_id \in 0 .. MaxPages
      /\ \A g \in Frames : page_id[g] < p
  BY <1>0 DEF PoolInv, TypeOK
<1>1. PoolInv'
  BY <1>0, NewPagePreserves
<1>2. f \in Frames
  BY <1>0, TakenFrame DEF NewPage
<1>3. /\ handle[c] = NoHandle /\ live' = live \cup {p}
      /\ next_page_id < MaxPages /\ next_page_id' = next_page_id + 1
      /\ page_id' = [page_id EXCEPT ![f] = p]
      /\ pin_count' = [pin_count EXCEPT ![f] = @ + 1]
      /\ data' = [data EXCEPT ![f] = Zero]
      /\ handle' = [handle EXCEPT ![c] = [frame |-> f, page |-> p, wrote |-> FALSE]]
  BY DEF NewPage, Give, AllocatePage
<1>4. p \in PageIds
  BY <1>t, <1>3, MaxPagesAssumption DEF PageIds
<1>5. \A g \in Frames : page_id[g] # p
  <2>1. ASSUME NEW g \in Frames, page_id[g] = p PROVE FALSE
    BY <1>t, <2>1
  <2>2. QED
    BY <2>1
<1>6. \A q \in PageIds : q # page_id[f] => OnDisk(q)' = OnDisk(q)
  <2> DEFINE old == page_id[f]
  <2>1. CASE free_list = <<>> /\ InTable(old)
    <3>1. Lookup(old) \in Frames /\ page_id[Lookup(old)] = old
      BY <1>0, <2>1, LookupFrame
    <3>2. db_file' = WritePage(db_file, page_id[Lookup(old)], data[Lookup(old)])
      BY <2>1 DEF NewPage
    <3>3. db_file' = WritePage(db_file, old, data[Lookup(old)])
      BY <3>1, <3>2
    <3> HIDE DEF old
    <3>4. \A q \in PageIds : q # old => OnDisk(q)' = OnDisk(q)
      BY <1>t, <3>3, WriteFacts
    <3>5. QED
      BY <3>4 DEF old
  <2>2. CASE ~(free_list = <<>> /\ InTable(old))
    <3>1. db_file' = db_file
      BY <2>2 DEF NewPage
    <3>2. QED
      BY <3>1 DEF OnDisk
  <2>3. QED
    BY <2>1, <2>2
<1>7. \A g \in Frames : g # f => data'[g] = data[g] /\ page_id'[g] = page_id[g]
  BY <1>t, <1>3
<1>8. page_id'[f] = p /\ data'[f] = Zero
  BY <1>t, <1>2, <1>3
<1> HIDE DEF f
<1>9. PICK n \in PageIds : n = p
  BY <1>4
<1>10. /\ page_id' = [page_id EXCEPT ![f] = n] /\ page_id'[f] = n
       /\ \A g \in Frames : page_id[g] # n
       /\ handle' = [handle EXCEPT ![c] = [frame |-> f, page |-> n, wrote |-> FALSE]]
  BY <1>3, <1>5, <1>8, <1>9
<1> HIDE DEF p
<1>11. /\ \A q \in PageIds : q # n => Content(q)' = Content(q)
       /\ Content(n)' = data'[f] /\ pin_count[f] = 0
  BY <1>1, <1>2, <1>6, <1>7, <1>10, TakeOver
<1>12. PinsOK' /\ PointersOK' /\ handle'[c] # NoHandle /\ handle'[c].page = n
       /\ \A d \in Clients : d # c => handle'[d] = handle[d]
  <2>1. /\ handle[c] = NoHandle /\ \A g \in Frames : g # f => page_id'[g] = page_id[g]
        /\ pin_count' = [pin_count EXCEPT ![f] = @ + 1] /\ page_id'[f] = n
        /\ page_id[f] # n => pin_count[f] = 0
    BY <1>3, <1>7, <1>10, <1>11
  <2>2. handle' = [handle EXCEPT ![c] = [frame |-> f, page |-> n, wrote |-> FALSE]]
    BY <1>10
  <2>3. QED
    BY <1>2, <2>1, <2>2, GivePointer
<1>13. Content(n)' = ZeroImage
  BY <1>8, <1>11, ImageAssumption
<1>14. n = next_page_id
  BY <1>9 DEF p
<1>15. Given(c, next_page_id)
  BY <1>3, <1>12, <1>14 DEF Given
<1>16. QED
  BY <1>1, <1>3, <1>9, <1>11, <1>12, <1>13, <1>14, <1>15 DEF PoolOK, p

\* A pointer that holds a page has pinned the frame that the page table names.
LEMMA PinnedFacts ==
  ASSUME PoolOK, NEW c \in Clients, IsHeld(c)
  PROVE  CanUnpin(handle[c].page) /\ Lookup(handle[c].page) = handle[c].frame
<1>0. PoolInv /\ pin_count \in [Frames -> Nat]
  BY DEF PoolOK, PoolInv, TypeOK
<1>1. PICK f \in Frames, p \in PageIds : f = handle[c].frame /\ p = handle[c].page
  BY HandleFacts
<1>2. page_id[f] = p
  BY <1>1, HandleFacts
<1>3. InTable(p)
  BY <1>0, <1>2 DEF InTable, PoolInv, TableMatchesFrames
<1>4. Lookup(p) = f
  BY <1>0, <1>2, <1>3, LookupFrame
<1>5. pin_count[f] > 0
  <2>1. pin_count[f] = Held("cur", f) + Held("new", f) + Held("header", f)
    BY DEF PoolOK, PinsOK
  <2>2. Held("cur", f) \in Nat /\ Held("new", f) \in Nat /\ Held("header", f) \in Nat
    BY DEF Held
  <2>3. c = "cur" \/ c = "new" \/ c = "header"
    BY ClientAssumption
  <2>4. Held(c, f) = 1
    BY <1>1 DEF Held
  <2>5. CASE c = "cur"
    BY <2>1, <2>2, <2>4, <2>5
  <2>6. CASE c = "new"
    BY <2>1, <2>2, <2>4, <2>6
  <2>7. CASE c = "header"
    BY <2>1, <2>2, <2>4, <2>7
  <2>8. QED
    BY <2>3, <2>5, <2>6, <2>7
<1>6. QED
  BY <1>1, <1>3, <1>4, <1>5 DEF CanUnpin

\* While frames keep their pages, contents change where frames are written to.
LEMMA SameFrames ==
  ASSUME PoolInv, PoolInv', UNCHANGED <<page_id, db_file>>, NEW q \in PageIds
  PROVE  /\ (\A f \in Frames : page_id[f] = q => data'[f] = data[f]) => Content(q)' = Content(q)
         /\ \A f \in Frames : page_id[f] = q => Content(q)' = data'[f]
<1>1. ContentIs /\ ContentIs'
  BY ContentFacts, PTL
<1>2. OnDisk(q)' = OnDisk(q) /\ \A f : page_id'[f] = page_id[f]
  BY DEF OnDisk
<1>3. \A f \in Frames : page_id[f] = q => Content(q)' = data'[f] /\ Content(q) = data[f]
  BY <1>1, <1>2 DEF ContentIs
<1>4. (\A f \in Frames : page_id[f] # q) => Content(q)' = Content(q)
  BY <1>1, <1>2 DEF ContentIs
<1>5. QED
  BY <1>3, <1>4

\* UnpinPage by a pointer that holds the page takes one pin away.
LEMMA UnpinFacts ==
  ASSUME PoolOK, NEW c \in Clients, IsHeld(c), NEW dirty, Unpin(handle[c].page, dirty)
  PROVE  pin_count' = [pin_count EXCEPT ![handle[c].frame] = @ - 1]
  BY PinnedFacts DEF Unpin

Taken(c) == /\ handle'[c] = NoHandle
            /\ \A d \in Clients : d # c => handle'[d] = handle[d]

\* A pointer writes its page and gives the pin back.
LEMMA ReleaseFacts ==
  ASSUME PoolOK, NEW c \in Clients, IsHeld(c), NEW dirty \in BOOLEAN, NEW page \in Images,
         Release(c, HeldPage(c), dirty), SetPage(c, page)
  PROVE  /\ PoolOK' /\ Taken(c) /\ UNCHANGED <<live, next_page_id>>
         /\ \A q \in PageIds : Content(q)' = IF q = HeldPage(c) THEN page ELSE Content(q)
<1>1. PICK f \in Frames, p \in PageIds : /\ f = handle[c].frame /\ p = handle[c].page
                                         /\ p = HeldPage(c)
  BY HandleFacts DEF HeldPage
<1>2. page_id[f] = p
  BY <1>1, HandleFacts
<1>3. /\ PoolInv /\ handle \in [Clients -> Handles \cup {NoHandle}]
      /\ data \in [Frames -> Images] /\ pin_count \in [Frames -> Nat]
      /\ next_page_id \in Nat /\ \A d \in Clients : handle[d].page < next_page_id
  BY ImageAssumption DEF PoolOK, PoolInv, TypeOK
<1>4. /\ Unpin(p, dirty) /\ handle' = [handle EXCEPT ![c] = NoHandle]
      /\ UNCHANGED <<page_id, db_file, next_page_id, page_table, free_list, live>>
  BY <1>1 DEF Release, diskVars
<1>5. data' = [data EXCEPT ![f] = page]
  BY <1>1 DEF SetPage
<1>6. Taken(c) /\ handle' \in [Clients -> Handles \cup {NoHandle}]
  BY <1>3, <1>4 DEF Taken
<1>7. \A d \in Clients : handle'[d].page < next_page_id
  <2>1. NoHandle.page < next_page_id
    BY <1>3 DEF NoHandle, INVALID_PAGE_ID
  <2>2. QED
    BY <1>3, <1>6, <2>1 DEF Taken
<1>8. data' \in [Frames -> Contents] /\ data'[f] = page
      /\ \A g \in Frames : g # f => data'[g] = data[g]
  BY <1>3, <1>5, ImageAssumption
<1>9. PoolInv'
  BY <1>3, <1>4, <1>6, <1>7, <1>8, UnpinKeeps
<1>10. \A q \in PageIds : Content(q)' = IF q = p THEN page ELSE Content(q)
  <2>1. UNCHANGED <<page_id, db_file>>
    BY <1>4
  <2>2. \A q \in PageIds :
          /\ (\A g \in Frames : page_id[g] = q => data'[g] = data[g]) => Content(q)' = Content(q)
          /\ \A g \in Frames : page_id[g] = q => Content(q)' = data'[g]
    BY <1>3, <1>9, <2>1, SameFrames
  <2>3. QED
    BY <1>2, <1>8, <2>2
<1>11. pin_count' = [pin_count EXCEPT ![f] = @ - 1]
  <2>1. Unpin(handle[c].page, dirty)
    BY <1>1, <1>4
  <2>2. QED
    BY <1>1, <2>1, UnpinFacts
<1>12. PinsOK'
  <2>1. SUFFICES ASSUME NEW g \in Frames
        PROVE  pin_count'[g] = Held("cur", g)' + Held("new", g)' + Held("header", g)'
    BY DEF PinsOK
  <2>2. pin_count[g] = Held("cur", g) + Held("new", g) + Held("header", g)
    BY DEF PoolOK, PinsOK
  <2>3. pin_count'[g] = IF g = f THEN pin_count[g] - 1 ELSE pin_count[g]
    BY <1>3, <1>11
  <2>4. \A d : Held(d, g) \in Nat /\ Held(d, g)' \in Nat
    BY DEF Held
  <2>5. Held(c, g) = (IF g = f THEN 1 ELSE 0) /\ Held(c, g)' = 0
    BY <1>1, <1>6, PoolIsNotEmpty DEF Held, Taken, NoHandle, Frames
  <2>6. \A d \in Clients : d # c => Held(d, g)' = Held(d, g)
    BY <1>6 DEF Held, Taken
  <2>7. c \in {"cur", "new", "header"} /\ Clients = {"cur", "new", "header"}
    BY ClientAssumption
  <2>8. CASE c = "cur"
    <3>1. Held("new", g)' = Held("new", g) /\ Held("header", g)' = Held("header", g)
      BY <2>6, <2>7, <2>8
    <3>2. QED
      BY <2>2, <2>3, <2>4, <2>5, <2>8, <3>1
  <2>9. CASE c = "new"
    <3>1. Held("cur", g)' = Held("cur", g) /\ Held("header", g)' = Held("header", g)
      BY <2>6, <2>7, <2>9
    <3>2. QED
      BY <2>2, <2>3, <2>4, <2>5, <2>9, <3>1
  <2>10. CASE c = "header"
    <3>1. Held("cur", g)' = Held("cur", g) /\ Held("new", g)' = Held("new", g)
      BY <2>6, <2>7, <2>10
    <3>2. QED
      BY <2>2, <2>3, <2>4, <2>5, <2>10, <3>1
  <2>11. QED
    BY <2>7, <2>8, <2>9, <2>10
<1>13. PointersOK'
  <2>1. \A d \in Clients : \/ handle'[d] = NoHandle \/ handle'[d] = handle[d]
    BY <1>6 DEF Taken
  <2>2. QED
    BY <1>4, <2>1 DEF PoolOK, PointersOK
<1>14. QED
  BY <1>1, <1>4, <1>6, <1>9, <1>10, <1>12, <1>13 DEF PoolOK

\* A pointer gives the pin back without having written.
LEMMA ReleaseClean ==
  ASSUME PoolOK, NEW c \in Clients, IsHeld(c), NEW dirty \in BOOLEAN,
         Release(c, HeldPage(c), dirty), UNCHANGED data
  PROVE  PoolOK' /\ Taken(c) /\ UNCHANGED <<live, next_page_id>> /\ SameContent
<1>1. PICK page \in Images : page = Page(c) /\ page = Content(handle[c].page)
  BY HandleFacts
<1>2. data \in [Frames -> Contents] /\ handle[c].frame \in Frames
  BY HandleFacts DEF PoolOK, PoolInv, TypeOK
<1>3. SetPage(c, page)
  BY <1>1, <1>2 DEF SetPage, Page
<1>4. /\ PoolOK' /\ Taken(c) /\ UNCHANGED <<live, next_page_id>>
      /\ \A q \in PageIds : Content(q)' = IF q = HeldPage(c) THEN page ELSE Content(q)
  BY <1>3, ReleaseFacts
<1>5. SameContent
  BY <1>1, <1>4 DEF SameContent, HeldPage
<1>6. QED
  BY <1>4, <1>5

\* FlushAllPages writes what is in the pool, and no content changes.
LEMMA FlushFacts ==
  ASSUME PoolOK, FlushAllPages
  PROVE  PoolOK' /\ SameContent /\ UNCHANGED <<handle, live, next_page_id>>
<1>1. PoolInv /\ PoolInv'
  BY FlushAllPreserves DEF PoolOK
<1>2. db_file' = FlushedFile /\ UNCHANGED <<page_id, pin_count, data, handle, live, next_page_id>>
  BY DEF FlushAllPages, frameVars, clientVars
<1>3. ContentIs /\ ContentIs'
  BY <1>1, ContentFacts, PTL
<1>4. ASSUME NEW q \in PageIds PROVE Content(q)' = Content(q)
  <2>1. CASE \E f \in Frames : page_id[f] = q
    BY <1>2, <1>3, <2>1 DEF ContentIs
  <2>2. CASE \A f \in Frames : page_id[f] # q
    <3>1. DirtyFrames(q) = {}
      BY <2>2 DEF DirtyFrames
    <3>2. db_file'[q] = db_file[q] \/ (db_file[q] = Absent /\ db_file'[q] = Zero)
      BY <1>2, <3>1 DEF FlushedFile
    <3>3. OnDisk(q)' = OnDisk(q)
      BY <3>2 DEF OnDisk
    <3>4. QED
      BY <1>2, <1>3, <2>2, <3>3 DEF ContentIs
  <2>3. QED
    BY <2>1, <2>2
<1>5. PinsOK' /\ PointersOK'
  BY <1>2 DEF PoolOK, PinsOK, PointersOK, Held
<1>6. QED
  BY <1>1, <1>2, <1>4, <1>5 DEF PoolOK, SameContent

\* The pointer to the last page moves on to the page after it, and both are written.
LEMMA MoveOnFacts ==
  ASSUME PoolOK, IsHeld("cur"), IsHeld("new"), HeldPage("cur") # HeldPage("new"),
         NEW a \in Images, NEW b \in Images, NEW dirty \in BOOLEAN,
         data' \in [Frames -> Contents],
         data'[handle["cur"].frame] = a, data'[handle["new"].frame] = b,
         \A f \in Frames : f # handle["cur"].frame /\ f # handle["new"].frame
                             => data'[f] = data[f],
         Unpin(HeldPage("cur"), dirty),
         handle' = [handle EXCEPT !["cur"] = handle["new"], !["new"] = NoHandle],
         UNCHANGED <<page_id, db_file, next_page_id, page_table, free_list, live>>
  PROVE  /\ PoolOK' /\ handle'["cur"] = handle["new"] /\ handle'["new"] = NoHandle
         /\ handle'["header"] = handle["header"]
         /\ \A q \in PageIds : Content(q)' = IF q = HeldPage("cur") THEN a
                                             ELSE IF q = HeldPage("new") THEN b ELSE Content(q)
<1>0. "cur" \in Clients /\ "new" \in Clients /\ "header" \in Clients
  BY ClientAssumption
<1>1. PICK f \in Frames, p \in PageIds : /\ f = handle["cur"].frame /\ p = handle["cur"].page
                                         /\ p = HeldPage("cur")
  BY <1>0, HandleFacts DEF HeldPage
<1>2. PICK g \in Frames, n \in PageIds : /\ g = handle["new"].frame /\ n = handle["new"].page
                                         /\ n = HeldPage("new")
  BY <1>0, HandleFacts DEF HeldPage
<1>3. page_id[f] = p /\ page_id[g] = n /\ p # n
  BY <1>0, <1>1, <1>2, HandleFacts
<1>4. /\ PoolInv /\ handle \in [Clients -> Handles \cup {NoHandle}]
      /\ pin_count \in [Frames -> Nat] /\ TableMatchesFrames
      /\ next_page_id \in Nat /\ \A d \in Clients : handle[d].page < next_page_id
  BY DEF PoolOK, PoolInv, TypeOK
<1>5. handle'["cur"] = handle["new"] /\ handle'["new"] = NoHandle
      /\ handle'["header"] = handle["header"]
      /\ handle' \in [Clients -> Handles \cup {NoHandle}]
  BY <1>0, <1>4
<1>6. \A d \in Clients : handle'[d].page < next_page_id
  <2>1. NoHandle.page < next_page_id
    BY <1>4 DEF NoHandle, INVALID_PAGE_ID
  <2>2. QED
    BY <1>0, <1>4, <1>5, <2>1, ClientAssumption
<1>7. PoolInv'
  BY <1>4, <1>5, <1>6, UnpinKeeps
<1>8. \A q \in PageIds :
        /\ (\A h \in Frames : page_id[h] = q => data'[h] = data[h]) => Content(q)' = Content(q)
        /\ \A h \in Frames : page_id[h] = q => Content(q)' = data'[h]
  BY <1>4, <1>7, SameFrames
<1>9. ASSUME NEW q \in PageIds
      PROVE  Content(q)' = IF q = p THEN a ELSE IF q = n THEN b ELSE Content(q)
  <2>1. CASE q = p
    BY <1>1, <1>3, <1>8, <2>1
  <2>2. CASE q = n
    BY <1>2, <1>3, <1>8, <2>2
  <2>3. CASE q # p /\ q # n
    <3>1. \A h \in Frames : page_id[h] = q => data'[h] = data[h]
      BY <1>1, <1>2, <1>3, <2>3
    <3>2. QED
      BY <1>8, <2>3, <3>1
  <2>4. QED
    BY <1>3, <2>1, <2>2, <2>3
<1>10. pin_count' = [pin_count EXCEPT ![f] = @ - 1]
  <2>1. Unpin(handle["cur"].page, dirty)
    BY <1>1
  <2>2. QED
    BY <1>0, <1>1, <2>1, UnpinFacts
<1>11. PinsOK'
  <2>1. SUFFICES ASSUME NEW h \in Frames
        PROVE  pin_count'[h] = Held("cur", h)' + Held("new", h)' + Held("header", h)'
    BY DEF PinsOK
  <2>2. pin_count[h] = Held("cur", h) + Held("new", h) + Held("header", h)
    BY DEF PoolOK, PinsOK
  <2>3. pin_count'[h] = IF h = f THEN pin_count[h] - 1 ELSE pin_count[h]
    BY <1>4, <1>10
  <2>4. \A d : Held(d, h) \in Nat /\ Held(d, h)' \in Nat
    BY DEF Held
  <2>5. Held("cur", h) = IF h = f THEN 1 ELSE 0
    BY <1>1 DEF Held
  <2>6. Held("cur", h)' = Held("new", h) /\ Held("header", h)' = Held("header", h)
        /\ Held("new", h)' = 0
    BY <1>5, PoolIsNotEmpty DEF Held, NoHandle, Frames
  <2>7. QED
    BY <2>2, <2>3, <2>4, <2>5, <2>6
<1>12. PointersOK'
  <2>1. \A d \in Clients : handle'[d] \in {NoHandle, handle["new"], handle["header"]}
    BY <1>0, <1>5, ClientAssumption
  <2>2. QED
    BY <1>0, <2>1 DEF PoolOK, PointersOK
<1>13. QED
  BY <1>1, <1>2, <1>5, <1>7, <1>9, <1>11, <1>12 DEF PoolOK

\* SetNextPageId, and a new count of records in the header.
LEMMA FieldFacts ==
  ASSUME NEW page \in Images, NEW n \in PageIds
  PROVE  /\ [page EXCEPT !.id = n] \in Images
         /\ LET new == [page EXCEPT !.next = n]
            IN  /\ new \in Images /\ new.id = page.id /\ new.prev = page.prev /\ new.next = n
                /\ new.slots = page.slots /\ (RoomOK(page) => RoomOK(new))
                /\ \A i : IsLive(new, i) <=> IsLive(page, i)
<1>1. [page EXCEPT !.id = n] \in Images
  BY DEF Images
<1> DEFINE new == [page EXCEPT !.next = n]
<1>2. /\ new \in Images /\ new.id = page.id /\ new.prev = page.prev /\ new.next = n
      /\ new.slots = page.slots /\ new.free = page.free
  BY DEF Images
<1> HIDE DEF new
<1>3. (RoomOK(page) => RoomOK(new)) /\ \A i : IsLive(new, i) <=> IsLive(page, i)
  BY <1>2 DEF RoomOK, Cells, LiveSlots, IsLive
<1>4. QED
  BY <1>1, <1>2, <1>3 DEF new

-----------------------------------------------------------------------------
(* The table.                                                              *)

\* The pages of the table are those after the header, and the list is among them.
LEMMA NumberFacts ==
  ASSUME HeapInv
  PROVE  /\ next_page_id \in Nat /\ next_page_id <= MaxPages /\ MaxPages \in Nat
         /\ HeapPages = 1 .. next_page_id - 1 /\ Linked \in Nat
         /\ \A p \in HeapPages : p \in PageIds
         /\ \A p \in 1 .. Linked : p \in HeapPages /\ p \in PageIds
         /\ pc \notin {"start", "init", "create", "first", "format", "link"} =>
              Linked = next_page_id - 1 /\ Linked >= 1
         /\ pc = "link" => Linked = next_page_id - 2 /\ Linked >= 1
<1>1. next_page_id \in Nat /\ next_page_id <= MaxPages /\ MaxPages \in Nat
  BY MaxPagesAssumption DEF HeapInv, PoolOK, PoolInv, TypeOK
<1>2. HeapPages = 1 .. next_page_id - 1
  BY <1>1 DEF HeapInv, PagesOK, HeapPages, HEADER_PAGE_ID
<1>3. pc \notin {"start", "init", "create", "first", "format", "link"} =>
        Linked = next_page_id - 1 /\ Linked >= 1
  <2>1. pc \notin {"start", "init", "create", "first"} => next_page_id # 0 /\ next_page_id # 1
    BY DEF HeapInv, ControlOK
  <2>2. QED
    BY <1>1, <2>1 DEF Linked
<1>4. pc = "link" => Linked = next_page_id - 2 /\ Linked >= 1
  BY <1>1 DEF Linked, HeapInv, ControlOK
<1>5. pc \in {"start", "init", "create", "first", "format"} => Linked = 0
  BY DEF Linked
<1>6. Linked \in Nat /\ (Linked = 0 \/ Linked <= next_page_id - 1)
  BY <1>1, <1>3, <1>4, <1>5
<1>7. \A p \in HeapPages : p \in PageIds
  BY <1>1, <1>2 DEF PageIds
<1>8. \A p \in 1 .. Linked : p \in HeapPages
  BY <1>1, <1>2, <1>6
<1>9. QED
  BY <1>1, <1>2, <1>3, <1>4, <1>6, <1>7, <1>8

\* The content of a page in the list.
LEMMA PageFacts ==
  ASSUME HeapInv, NEW p \in 1 .. Linked
  PROVE  /\ Content(p) \in Images /\ RoomOK(Content(p)) /\ Content(p).id = p
         /\ Content(p).prev = IF p = first_page_id THEN INVALID_PAGE_ID ELSE p - 1
         /\ Content(p).next = IF p = Linked THEN INVALID_PAGE_ID ELSE p + 1
         /\ (Content(p).next = INVALID_PAGE_ID <=> p = Linked)
<1>1. p \in PageIds /\ Linked \in Nat /\ p \in Nat
  BY NumberFacts
<1>2. Content(p) \in Images
  BY <1>1, ContentFacts DEF HeapInv, PoolOK, ContentIs
<1>3. PageOK(p, Content(p))
  BY DEF HeapInv, PagesOK
<1>4. QED
  BY <1>1, <1>2, <1>3 DEF PageOK, INVALID_PAGE_ID

\* A tuple is in the table when it is in its page.
LEMMA StoredFacts ==
  ASSUME HeapInv, NEW r \in Rids, table[r] # NoTuple
  PROVE  r[1] \in HeapPages /\ r[1] \in Nat /\ r[2] \in Nat /\ IsLive(Content(r[1]), r[2])
         /\ r = <<r[1], r[2]>> /\ r[1] \in 1 .. next_page_id - 1
<1>1. table[r] = Stored(r)
  BY DEF HeapInv, TableOK
<1>2. r[1] \in HeapPages /\ IsLive(Content(r[1]), r[2])
  BY <1>1 DEF Stored
<1>3. r[1] \in PageIds /\ r[2] \in 1 .. MaxSlots /\ r = <<r[1], r[2]>>
  BY DEF Rids
<1>4. r[1] \in Nat /\ r[2] \in Nat
  BY <1>3, MaxPagesAssumption DEF PageIds
<1>5. QED
  BY <1>2, <1>3, <1>4, NumberFacts

\* A step after which every page of the table holds the tuples it held.
LEMMA TuplesStay ==
  ASSUME HeapInv, UNCHANGED table, live \subseteq live',
         \A p \in HeapPages : \A i :
           /\ IsLive(Content(p), i)' <=> IsLive(Content(p), i)
           /\ IsLive(Content(p), i) => Content(p)'.slots[i] = Content(p).slots[i],
         \A p \in HeapPages' : p \notin HeapPages => \A i : ~IsLive(Content(p), i)'
  PROVE  TableOK'
<1>1. \A p \in HeapPages : p \in HeapPages'
  BY DEF HeapPages
<1>2. ASSUME NEW r \in Rids PROVE Stored(r)' = Stored(r)
  <2>1. CASE r[1] \in HeapPages
    BY <1>1, <2>1 DEF Stored
  <2>2. CASE r[1] \notin HeapPages
    BY <2>2 DEF Stored
  <2>3. QED
    BY <2>1, <2>2
<1>3. table = [r \in Rids |-> Stored(r)]
  BY DEF HeapInv, TableOK
<1>4. QED
  BY <1>2, <1>3 DEF TableOK

\* A step that changes no page of the table.
LEMMA QuietStep ==
  ASSUME HeapInv, UNCHANGED <<live, next_page_id, table>>, Linked' = Linked,
         \A q \in PageIds : q # HEADER_PAGE_ID => Content(q)' = Content(q)
  PROVE  PagesOK' /\ TableOK'
<1>1. \A p \in HeapPages : p \in PageIds /\ p # HEADER_PAGE_ID
  BY NumberFacts DEF HeapPages
<1>2. HeapPages' = HeapPages /\ HeapPages = 1 .. next_page_id - 1
  BY NumberFacts DEF HeapPages
<1>3. \A p \in HeapPages : Content(p)' = Content(p)
  BY <1>1
<1>4. TableOK'
  <2>1. \A p \in HeapPages : \A i :
          /\ IsLive(Content(p), i)' <=> IsLive(Content(p), i)
          /\ IsLive(Content(p), i) => Content(p)'.slots[i] = Content(p).slots[i]
    BY <1>3 DEF IsLive
  <2>2. QED
    BY <1>2, <2>1, TuplesStay
<1>5. ASSUME NEW p \in 1 .. Linked PROVE PageOK(p, Content(p))'
  <2>1. Content(p)' = Content(p) /\ PageOK(p, Content(p))
    BY <1>3, NumberFacts DEF HeapInv, PagesOK
  <2>2. QED
    BY <2>1 DEF PageOK, RoomOK, Cells, LiveSlots
<1>6. ASSUME NEW p \in 1 .. next_page_id - 1, p > Linked PROVE Content(p)'.slots = <<>>
  <2>1. Content(p)' = Content(p) /\ Content(p).slots = <<>>
    BY <1>2, <1>3, <1>6 DEF HeapInv, PagesOK
  <2>2. QED
    BY <2>1
<1>7. live' = 0 .. next_page_id' - 1
  BY DEF HeapInv, PagesOK
<1>8. QED
  BY <1>4, <1>5, <1>6, <1>7 DEF PagesOK

\* A step that changes one tuple of the table, in its page and in the history.
LEMMA WriteStep ==
  ASSUME HeapInv, NEW p \in 1 .. Linked, NEW s \in 1 .. MaxSlots, NEW e \in Entries,
         NEW new \in Images, UNCHANGED <<live, next_page_id>>, Linked' = Linked,
         \A q \in PageIds : Content(q)' = IF q = p THEN new ELSE Content(q),
         RoomOK(new), new.id = Content(p).id, new.prev = Content(p).prev,
         new.next = Content(p).next, IsLive(new, s) <=> e # NoTuple,
         IsLive(new, s) => new.slots[s] = e,
         \A i : i # s => /\ IsLive(new, i) <=> IsLive(Content(p), i)
                         /\ IsLive(Content(p), i) => new.slots[i] = Content(p).slots[i],
         table' = [table EXCEPT ![<<p, s>>] = e]
  PROVE  /\ PagesOK' /\ TableOK'
         /\ \A r \in Rids : table'[r] = IF r = <<p, s>> THEN e ELSE table[r]
<1>1. /\ \A q \in HeapPages : q \in PageIds
      /\ p \in HeapPages /\ p \in PageIds /\ <<p, s>> \in Rids
      /\ \A q \in 1 .. Linked : q \in PageIds
  BY NumberFacts DEF Rids
<1>2. HeapPages' = HeapPages /\ HeapPages = 1 .. next_page_id - 1
  BY NumberFacts DEF HeapPages
<1>3. Content(p)' = new /\ \A q \in HeapPages : q # p => Content(q)' = Content(q)
  BY <1>1
<1>4. table = [r \in Rids |-> Stored(r)]
  BY DEF HeapInv, TableOK
<1>5. \A r \in Rids : table'[r] = IF r = <<p, s>> THEN e ELSE table[r]
  BY <1>1, <1>4
<1>6. DOMAIN table' = Rids /\ table' = [r \in Rids |-> table'[r]]
  BY <1>1, <1>4
<1>7. ASSUME NEW r \in Rids PROVE table'[r] = Stored(r)'
  <2>0. r = <<r[1], r[2]>> /\ table[r] = Stored(r)
    BY <1>4 DEF Rids
  <2>1. CASE r[1] = p /\ r[2] = s
    <3>1. r = <<p, s>> /\ r[1] \in HeapPages'
      BY <1>1, <1>2, <2>0, <2>1
    <3>2. Stored(r)' = IF IsLive(new, s) THEN new.slots[s] ELSE NoTuple
      BY <1>3, <2>1, <3>1 DEF Stored, IsLive
    <3>3. QED
      BY <1>5, <3>1, <3>2
  <2>2. CASE r[1] = p /\ r[2] # s
    <3>1. r # <<p, s>> /\ r[1] \in HeapPages' /\ r[1] \in HeapPages
      BY <1>1, <1>2, <2>0, <2>2
    <3>2. Stored(r)' = IF IsLive(new, r[2]) THEN new.slots[r[2]] ELSE NoTuple
      BY <1>3, <2>2, <3>1 DEF Stored, IsLive
    <3>3. Stored(r) = IF IsLive(Content(p), r[2]) THEN Content(p).slots[r[2]] ELSE NoTuple
      BY <2>2, <3>1 DEF Stored
    <3>4. QED
      BY <1>5, <2>0, <2>2, <3>1, <3>2, <3>3
  <2>3. CASE r[1] # p
    <3>1. r # <<p, s>>
      BY <2>0, <2>3
    <3>2. Stored(r)' = Stored(r)
      BY <1>2, <1>3, <2>3 DEF Stored, IsLive
    <3>3. QED
      BY <1>5, <2>0, <3>1, <3>2
  <2>4. QED
    BY <2>1, <2>2, <2>3
<1>8. TableOK'
  BY <1>6, <1>7 DEF TableOK
<1>9. ASSUME NEW q \in 1 .. Linked PROVE PageOK(q, Content(q))'
  <2>1. PageOK(q, Content(q))
    BY DEF HeapInv, PagesOK
  <2>2. CASE q = p
    BY <1>3, <2>1, <2>2 DEF PageOK, RoomOK, Cells, LiveSlots
  <2>3. CASE q # p
    <3>1. Content(q)' = Content(q)
      BY <1>3, <2>3, NumberFacts
    <3>2. QED
      BY <2>1, <3>1 DEF PageOK, RoomOK, Cells, LiveSlots
  <2>4. QED
    BY <2>2, <2>3
<1>10. ASSUME NEW q \in 1 .. next_page_id - 1, q > Linked PROVE Content(q)'.slots = <<>>
  <2>1. Content(q).slots = <<>>
    BY <1>10 DEF HeapInv, PagesOK
  <2>2. q # p
    BY <1>10, NumberFacts
  <2>3. QED
    BY <1>2, <1>3, <2>1, <2>2
<1>11. live' = 0 .. next_page_id' - 1
  BY DEF HeapInv, PagesOK
<1>12. PagesOK'
  BY <1>9, <1>10, <1>11 DEF PagesOK
<1>13. QED
  BY <1>5, <1>8, <1>12

\* The pointers after pointer c has been given a page, ...
LEMMA GivenFacts ==
  ASSUME NEW c \in Clients, NEW p, Given(c, p)
  PROVE  /\ ~IsHeld(c) /\ IsHeld(c)' /\ HeldPage(c)' = p
         /\ \A d \in Clients : d # c => /\ IsHeld(d)' <=> IsHeld(d)
                                        /\ HeldPage(d)' = HeldPage(d)
  BY DEF Given, IsHeld, HeldPage

\* ... and after it has given its page back.
LEMMA TakenFacts ==
  ASSUME NEW c \in Clients, Taken(c)
  PROVE  /\ ~IsHeld(c)'
         /\ \A d \in Clients : d # c => /\ IsHeld(d)' <=> IsHeld(d)
                                        /\ HeldPage(d)' = HeldPage(d)
  BY DEF Taken, IsHeld, HeldPage

\* The list is not being created or made longer.
SamePhase == /\ pc' \in {"start", "init", "create", "first", "format"}
                  <=> pc \in {"start", "init", "create", "first", "format"}
             /\ pc' = "link" <=> pc = "link"

\* A step that fetches a page.
LEMMA FetchStep ==
  ASSUME HeapInv, PoolKeepsContract, NEW c \in Clients, NEW p \in PageIds, FetchPage(c, p),
         UNCHANGED table, SamePhase
  PROVE  /\ Linked' = Linked
         /\ PoolOK' /\ PagesOK' /\ TableOK' /\ SameContent /\ UNCHANGED <<live, next_page_id>>
         /\ IsHeld(c)' /\ HeldPage(c)' = p
         /\ \A d \in Clients : d # c => /\ IsHeld(d)' <=> IsHeld(d)
                                        /\ HeldPage(d)' = HeldPage(d)
<1>1. PoolOK
  BY DEF HeapInv
<1>2. PoolOK' /\ SameContent /\ Given(c, p) /\ UNCHANGED <<live, next_page_id>>
  BY <1>1, FetchFacts
<1>l. Linked' = Linked
  BY <1>2 DEF Linked, SamePhase
<1>3. PagesOK' /\ TableOK'
  BY <1>2, <1>l, QuietStep DEF SameContent
<1>4. QED
  BY <1>2, <1>3, <1>l, GivenFacts

\* A step that gives a page back as it was.
LEMMA ReleaseStep ==
  ASSUME HeapInv, NEW c \in Clients, IsHeld(c), NEW dirty \in BOOLEAN,
         Release(c, HeldPage(c), dirty), UNCHANGED <<data, table>>, SamePhase
  PROVE  /\ Linked' = Linked
         /\ PoolOK' /\ PagesOK' /\ TableOK' /\ SameContent /\ UNCHANGED <<live, next_page_id>>
         /\ ~IsHeld(c)'
         /\ \A d \in Clients : d # c => /\ IsHeld(d)' <=> IsHeld(d)
                                        /\ HeldPage(d)' = HeldPage(d)
<1>1. PoolOK
  BY DEF HeapInv
<1>2. PoolOK' /\ SameContent /\ Taken(c) /\ UNCHANGED <<live, next_page_id>>
  BY <1>1, ReleaseClean
<1>l. Linked' = Linked
  BY <1>2 DEF Linked, SamePhase
<1>3. PagesOK' /\ TableOK'
  BY <1>2, <1>l, QuietStep DEF SameContent
<1>4. QED
  BY <1>2, <1>3, <1>l, TakenFacts

\* What a scan owes does not change while no scan takes a step.
LEMMA ScanStays ==
  ASSUME HeapInv, UNCHANGED <<table, cursor, owed>>,
         pc \notin {"begin", "load", "loaded", "cross", "crossed"},
         pc' \notin {"load", "loaded", "cross", "crossed"}
  PROVE  ScanOK'
<1>1. \A r \in owed' : r \in Rids /\ table'[r] # NoTuple
  BY DEF HeapInv, ScanOK
<1>2. cursor' = EOF => owed' = {}
  BY DEF HeapInv, ScanOK
<1>3. cursor' # EOF => \A r \in owed' : Before(cursor, r)' 
  BY DEF HeapInv, ScanOK, Before
<1>4. QED
  BY <1>1, <1>2, <1>3 DEF ScanOK

-----------------------------------------------------------------------------
(* One lemma per action: it preserves HeapInv as long as the pool keeps its *)
(* contract.                                                               *)

\* VtabConnect.
LEMMA ConnectPreserves ==
  ASSUME HeapInv, Connect, PoolKeepsContract
  PROVE  HeapInv'
<1>0. Clients = {"cur", "new", "header"} /\ "header" \in Clients /\ PointerOK /\ ControlOK
  BY ClientAssumption DEF HeapInv
<1>1. UNCHANGED <<arg, rid, nxt, cursor, owed, table>>
  BY DEF Connect, scanVars
<1>2. CASE Step("idle", "connect") /\ FetchPage("header", HEADER_PAGE_ID)
  <2>1. pc = "idle" /\ pc' = "connect"
    BY <1>2 DEF Step
  <2>2. HEADER_PAGE_ID \in PageIds
    BY <2>1, NumberFacts DEF PageIds, HEADER_PAGE_ID
  <2>3. SamePhase
    BY <2>1 DEF SamePhase
  <2>4. /\ Linked' = Linked /\ UNCHANGED next_page_id
        /\ PoolOK' /\ PagesOK' /\ TableOK'
        /\ IsHeld("header")' /\ HeldPage("header")' = HEADER_PAGE_ID
        /\ \A d \in Clients : d # "header" => /\ IsHeld(d)' <=> IsHeld(d)
                                              /\ HeldPage(d)' = HeldPage(d)
    BY <1>0, <1>1, <1>2, <2>2, <2>3, FetchStep
  <2>5. PointerOK'
    BY <1>0, <2>1, <2>4 DEF PointerOK
  <2>6. ControlOK'
    BY <1>0, <1>1, <2>1, <2>4 DEF ControlOK, PCs
  <2>7. ScanOK'
    BY <1>1, <2>1, ScanStays
  <2>8. QED
    BY <2>4, <2>5, <2>6, <2>7 DEF HeapInv
<1>3. CASE Step("connect", "idle") /\ Release("header", HEADER_PAGE_ID, FALSE) /\ UNCHANGED data
  <2>1. pc = "connect" /\ pc' = "idle"
    BY <1>3 DEF Step
  <2>2. IsHeld("header") /\ HeldPage("header") = HEADER_PAGE_ID
    BY <1>0, <2>1 DEF PointerOK
  <2>3. SamePhase /\ Release("header", HeldPage("header"), FALSE) /\ UNCHANGED <<data, table>>
    BY <1>1, <1>3, <2>1, <2>2 DEF SamePhase
  <2>4. /\ Linked' = Linked /\ UNCHANGED next_page_id
        /\ PoolOK' /\ PagesOK' /\ TableOK' /\ ~IsHeld("header")'
        /\ \A d \in Clients : d # "header" => /\ IsHeld(d)' <=> IsHeld(d)
                                              /\ HeldPage(d)' = HeldPage(d)
    BY <1>0, <2>2, <2>3, ReleaseStep
  <2>5. PointerOK'
    BY <1>0, <2>1, <2>4 DEF PointerOK
  <2>6. ControlOK'
    BY <1>0, <1>1, <2>1, <2>4 DEF ControlOK, PCs
  <2>7. ScanOK'
    BY <1>1, <2>1, ScanStays
  <2>8. QED
    BY <2>4, <2>5, <2>6, <2>7 DEF HeapInv
<1>4. QED
  BY <1>2, <1>3 DEF Connect

\* VtabDisconnect.
LEMMA DisconnectPreserves ==
  ASSUME HeapInv, Disconnect
  PROVE  HeapInv'
<1>0. PoolOK /\ PointerOK /\ ControlOK
  BY DEF HeapInv
<1>1. UNCHANGED <<pc, arg, rid, nxt, cursor, owed, table>> /\ pc = "idle"
  BY DEF Disconnect, opVars, scanVars
<1>2. PoolOK' /\ SameContent /\ UNCHANGED <<handle, live, next_page_id>>
  BY <1>0, FlushFacts DEF Disconnect
<1>3. Linked' = Linked
  BY <1>1, <1>2 DEF Linked
<1>4. PagesOK' /\ TableOK'
  BY <1>1, <1>2, <1>3, QuietStep DEF SameContent
<1>5. PointerOK'
  BY <1>0, <1>1, <1>2, <1>3 DEF PointerOK, IsHeld, HeldPage
<1>6. ControlOK'
  BY <1>0, <1>1, <1>2, <1>3 DEF ControlOK
<1>7. ScanOK'
  BY <1>1, ScanStays
<1>8. QED
  BY <1>2, <1>4, <1>5, <1>6, <1>7 DEF HeapInv

\* InsertTuple fetches the first page.
LEMMA InsertTuplePreserves ==
  ASSUME HeapInv, NEW t \in Tuples, InsertTuple(t), PoolKeepsContract
  PROVE  HeapInv'
<1>0. Clients = {"cur", "new", "header"} /\ "cur" \in Clients /\ PointerOK /\ ControlOK
  BY ClientAssumption DEF HeapInv
<1>1. /\ UNCHANGED <<rid, nxt, cursor, owed, table>> /\ arg' = t
      /\ pc = "idle" /\ pc' = "insert" /\ FetchPage("cur", first_page_id)
  BY DEF InsertTuple, scanVars, Step
<1>2. first_page_id \in PageIds /\ first_page_id \in 1 .. Linked
  BY <1>1, NumberFacts DEF PageIds, first_page_id
<1>3. SamePhase
  BY <1>1 DEF SamePhase
<1>4. /\ Linked' = Linked /\ UNCHANGED next_page_id
      /\ PoolOK' /\ PagesOK' /\ TableOK'
      /\ IsHeld("cur")' /\ HeldPage("cur")' = first_page_id
      /\ \A d \in Clients : d # "cur" => /\ IsHeld(d)' <=> IsHeld(d)
                                         /\ HeldPage(d)' = HeldPage(d)
  BY <1>0, <1>1, <1>2, <1>3, FetchStep
<1>5. PointerOK'
  BY <1>0, <1>1, <1>2, <1>4 DEF PointerOK
<1>6. ControlOK'
  BY <1>0, <1>1, <1>4 DEF ControlOK, PCs
<1>7. ScanOK'
  BY <1>1, ScanStays
<1>8. QED
  BY <1>4, <1>5, <1>6, <1>7 DEF HeapInv

\* The page under an operation's pointer is a page of the list.
LEMMA CurrentPage ==
  ASSUME HeapInv, IsHeld("cur"), HeldPage("cur") \in 1 .. Linked
  PROVE  /\ Page("cur") = Content(HeldPage("cur")) /\ Page("cur") \in Images
         /\ RoomOK(Page("cur")) /\ Page("cur").id = HeldPage("cur")
         /\ Page("cur").next = IF HeldPage("cur") = Linked THEN INVALID_PAGE_ID
                               ELSE HeldPage("cur") + 1
         /\ (Page("cur").next = INVALID_PAGE_ID <=> HeldPage("cur") = Linked)
         /\ HeldPage("cur") \in HeapPages /\ HeldPage("cur") \in PageIds
<1>1. "cur" \in Clients /\ PoolOK
  BY ClientAssumption DEF HeapInv
<1>2. PICK p \in 1 .. Linked : p = HeldPage("cur")
  OBVIOUS
<1>3. Page("cur") = Content(p)
  BY <1>1, <1>2, HandleFacts DEF HeldPage
<1>4. QED
  BY <1>2, <1>3, PageFacts, NumberFacts

\* InsertTuple goes on to the next page.
LEMMA InsertGoesOnPreserves ==
  ASSUME HeapInv, InsertGoesOn, PoolKeepsContract
  PROVE  HeapInv'
<1>0. Clients = {"cur", "new", "header"} /\ "cur" \in Clients /\ PointerOK /\ ControlOK
  BY ClientAssumption DEF HeapInv
<1>1. UNCHANGED <<arg, rid, cursor, owed, table>>
  BY DEF InsertGoesOn, scanVars
<1>2. CASE /\ Step("insert", "next page") /\ Page("cur").next # INVALID_PAGE_ID
           /\ nxt' = Page("cur").next /\ Release("cur", Page("cur").id, FALSE)
           /\ UNCHANGED data
  <2>1. pc = "insert" /\ pc' = "next page"
    BY <1>2 DEF Step
  <2>2. IsHeld("cur") /\ HeldPage("cur") \in 1 .. Linked
    BY <1>0, <2>1 DEF PointerOK
  <2>3. Page("cur").id = HeldPage("cur") /\ nxt' = HeldPage("cur") + 1
        /\ HeldPage("cur") # Linked
    BY <1>2, <2>2, CurrentPage
  <2>4. SamePhase /\ Release("cur", HeldPage("cur"), FALSE) /\ UNCHANGED <<data, table>>
    BY <1>1, <1>2, <2>1, <2>3 DEF SamePhase
  <2>5. /\ Linked' = Linked /\ UNCHANGED next_page_id
        /\ PoolOK' /\ PagesOK' /\ TableOK' /\ ~IsHeld("cur")'
        /\ \A d \in Clients : d # "cur" => /\ IsHeld(d)' <=> IsHeld(d)
                                           /\ HeldPage(d)' = HeldPage(d)
    BY <1>0, <2>2, <2>4, ReleaseStep
  <2>6. PointerOK'
    BY <1>0, <2>1, <2>5 DEF PointerOK
  <2>7. nxt' \in 1 .. Linked
    BY <2>2, <2>3, NumberFacts
  <2>8. ControlOK'
    BY <1>0, <1>1, <2>1, <2>5, <2>7 DEF ControlOK, PCs
  <2>9. ScanOK'
    BY <1>1, <2>1, ScanStays
  <2>10. QED
    BY <2>5, <2>6, <2>8, <2>9 DEF HeapInv
<1>3. CASE Step("next page", "insert") /\ FetchPage("cur", nxt) /\ UNCHANGED nxt
  <2>1. pc = "next page" /\ pc' = "insert"
    BY <1>3 DEF Step
  <2>2. PICK p \in 1 .. Linked : p = nxt
    BY <1>0, <2>1 DEF ControlOK
  <2>3. SamePhase /\ FetchPage("cur", p) /\ p \in PageIds
    BY <1>3, <2>1, <2>2, NumberFacts DEF SamePhase
  <2>4. /\ Linked' = Linked /\ UNCHANGED next_page_id
        /\ PoolOK' /\ PagesOK' /\ TableOK'
        /\ IsHeld("cur")' /\ HeldPage("cur")' = p
        /\ \A d \in Clients : d # "cur" => /\ IsHeld(d)' <=> IsHeld(d)
                                           /\ HeldPage(d)' = HeldPage(d)
    BY <1>0, <1>1, <2>3, FetchStep
  <2>5. PointerOK'
    BY <1>0, <2>1, <2>2, <2>4 DEF PointerOK
  <2>6. ControlOK'
    BY <1>0, <1>1, <1>3, <2>1, <2>4 DEF ControlOK, PCs
  <2>7. ScanOK'
    BY <1>1, <2>1, ScanStays
  <2>8. QED
    BY <2>4, <2>5, <2>6, <2>7 DEF HeapInv
<1>4. QED
  BY <1>2, <1>3 DEF InsertGoesOn

\* DeleteTuple, UpdateTuple and GetTuple fetch the page of the tuple.
LEMMA CallPreserves ==
  ASSUME HeapInv, NEW op \in {"delete", "update", "get"}, NEW r \in Rids, Call(op, r),
         op = "update" => arg' \in Tuples, PoolKeepsContract
  PROVE  HeapInv'
<1>0. Clients = {"cur", "new", "header"} /\ "cur" \in Clients /\ PointerOK /\ ControlOK
  BY ClientAssumption DEF HeapInv
<1>1. /\ UNCHANGED <<nxt, cursor, owed, table>> /\ rid' = r /\ r[1] \in HeapPages
      /\ pc = "idle" /\ pc' = op /\ FetchPage("cur", r[1])
  BY DEF Call, scanVars, Step
<1>2. r[1] \in PageIds /\ r[1] \in 1 .. Linked
  BY <1>1, NumberFacts
<1>3. SamePhase
  BY <1>1 DEF SamePhase
<1>4. /\ Linked' = Linked /\ UNCHANGED next_page_id
      /\ PoolOK' /\ PagesOK' /\ TableOK'
      /\ IsHeld("cur")' /\ HeldPage("cur")' = r[1]
      /\ \A d \in Clients : d # "cur" => /\ IsHeld(d)' <=> IsHeld(d)
                                         /\ HeldPage(d)' = HeldPage(d)
  BY <1>0, <1>1, <1>2, <1>3, FetchStep
<1>5. PointerOK'
  BY <1>0, <1>1, <1>2, <1>4 DEF PointerOK
<1>6. ControlOK'
  BY <1>0, <1>1, <1>2, <1>4 DEF ControlOK, PCs
<1>7. ScanOK'
  BY <1>1, ScanStays
<1>8. QED
  BY <1>4, <1>5, <1>6, <1>7 DEF HeapInv

\* GetTuple reads the tuple and gives the page back.
LEMMA GetInPagePreserves ==
  ASSUME HeapInv, GetInPage
  PROVE  HeapInv'
<1>0. Clients = {"cur", "new", "header"} /\ "cur" \in Clients /\ PointerOK /\ ControlOK
  BY ClientAssumption DEF HeapInv
<1>1. /\ UNCHANGED <<data, cursor, owed, table>> /\ pc = "get" /\ pc' = "idle"
      /\ Release("cur", rid[1], FALSE)
  BY DEF GetInPage, Return, scanVars
<1>2. IsHeld("cur") /\ HeldPage("cur") = rid[1]
  BY <1>0, <1>1 DEF PointerOK
<1>3. SamePhase /\ Release("cur", HeldPage("cur"), FALSE)
  BY <1>1, <1>2 DEF SamePhase
<1>4. /\ Linked' = Linked /\ UNCHANGED next_page_id
      /\ PoolOK' /\ PagesOK' /\ TableOK' /\ ~IsHeld("cur")'
      /\ \A d \in Clients : d # "cur" => /\ IsHeld(d)' <=> IsHeld(d)
                                         /\ HeldPage(d)' = HeldPage(d)
  BY <1>0, <1>1, <1>2, <1>3, ReleaseStep
<1>5. PointerOK'
  BY <1>0, <1>1, <1>4 DEF PointerOK
<1>6. ControlOK'
  BY <1>0, <1>1, <1>4 DEF ControlOK, PCs
<1>7. ScanOK'
  BY <1>1, ScanStays
<1>8. QED
  BY <1>4, <1>5, <1>6, <1>7 DEF HeapInv

\* A step that writes one tuple through the pointer and gives the page back.
LEMMA WriteHere ==
  ASSUME HeapInv, IsHeld("cur"), NEW p \in 1 .. Linked, p = HeldPage("cur"),
         NEW s \in 1 .. MaxSlots, NEW e \in Entries, NEW new \in Images,
         NEW dirty \in BOOLEAN, SetPage("cur", new), Release("cur", p, dirty), SamePhase,
         RoomOK(new), new.id = Content(p).id, new.prev = Content(p).prev,
         new.next = Content(p).next, IsLive(new, s) <=> e # NoTuple,
         IsLive(new, s) => new.slots[s] = e,
         \A i : i # s => /\ IsLive(new, i) <=> IsLive(Content(p), i)
                         /\ IsLive(Content(p), i) => new.slots[i] = Content(p).slots[i],
         table' = [table EXCEPT ![<<p, s>>] = e]
  PROVE  /\ Linked' = Linked /\ UNCHANGED next_page_id
         /\ PoolOK' /\ PagesOK' /\ TableOK' /\ ~IsHeld("cur")'
         /\ \A d \in Clients : d # "cur" => /\ IsHeld(d)' <=> IsHeld(d)
                                            /\ HeldPage(d)' = HeldPage(d)
         /\ \A r \in Rids : table'[r] = IF r = <<p, s>> THEN e ELSE table[r]
<1>1. "cur" \in Clients /\ PoolOK /\ Release("cur", HeldPage("cur"), dirty)
  BY ClientAssumption DEF HeapInv
<1>2. /\ PoolOK' /\ Taken("cur") /\ UNCHANGED <<live, next_page_id>>
      /\ \A q \in PageIds : Content(q)' = IF q = HeldPage("cur") THEN new ELSE Content(q)
  BY <1>1, ReleaseFacts
<1>3. \A q \in PageIds : Content(q)' = IF q = p THEN new ELSE Content(q)
  BY <1>2
<1>4. Linked' = Linked
  BY <1>2 DEF Linked, SamePhase
<1>5. /\ PagesOK' /\ TableOK'
      /\ \A r \in Rids : table'[r] = IF r = <<p, s>> THEN e ELSE table[r]
  BY <1>2, <1>3, <1>4, WriteStep
<1>6. QED
  BY <1>1, <1>2, <1>4, <1>5, TakenFacts

\* The page is given back as it was.
LEMMA RefusedHere ==
  ASSUME HeapInv, IsHeld("cur"), HeldPage("cur") \in 1 .. Linked, SetPage("cur", Page("cur"))
  PROVE  UNCHANGED data
<1>1. "cur" \in Clients /\ PoolOK
  BY ClientAssumption DEF HeapInv
<1>2. data \in [Frames -> Contents] /\ handle["cur"].frame \in Frames
  BY <1>1, HandleFacts DEF PoolOK, PoolInv, TypeOK
<1>3. QED
  BY <1>2 DEF SetPage, Page

\* An open scan when a tuple has been written.
LEMMA ScanAfterWrite ==
  ASSUME HeapInv, pc \in {"insert", "delete", "update"}, pc' = "idle", UNCHANGED cursor,
         owed' \subseteq owed, \A r \in owed' : table'[r] # NoTuple
  PROVE  ScanOK'
<1>1. \A r \in owed' : r \in Rids /\ table'[r] # NoTuple
  BY DEF HeapInv, ScanOK
<1>2. cursor' = EOF => owed' = {}
  BY DEF HeapInv, ScanOK
<1>3. cursor' # EOF => \A r \in owed' : Before(cursor, r)'
  BY DEF HeapInv, ScanOK, Before
<1>4. QED
  BY <1>1, <1>2, <1>3 DEF ScanOK

\* The slot that InsertTuple takes is one that no tuple has.
LEMMA SlotIsFree ==
  ASSUME HeapInv, pc = "insert", Fits(Page("cur"), arg)
  PROVE  /\ NewRid \in Rids /\ table[NewRid] = NoTuple
         /\ NewRid = <<HeldPage("cur"), SlotFor(Page("cur"))>>
<1>1. arg \in Tuples /\ IsHeld("cur") /\ HeldPage("cur") \in 1 .. Linked
  BY DEF HeapInv, PointerOK, ControlOK
<1>2. /\ Page("cur") = Content(HeldPage("cur")) /\ Page("cur") \in Images
      /\ RoomOK(Page("cur")) /\ Page("cur").id = HeldPage("cur")
      /\ HeldPage("cur") \in HeapPages /\ HeldPage("cur") \in PageIds
  BY <1>1, CurrentPage
<1>3. SlotFor(Page("cur")) \in 1 .. MaxSlots /\ ~IsLive(Page("cur"), SlotFor(Page("cur")))
  BY <1>1, <1>2, InsertedFacts
<1>4. PICK p, s : p = HeldPage("cur") /\ s = SlotFor(Page("cur"))
  OBVIOUS
<1>5. NewRid = <<p, s>> /\ <<p, s>> \in Rids
  BY <1>2, <1>3, <1>4 DEF NewRid, Rids
<1>6. table[<<p, s>>] = Stored(<<p, s>>)
  BY <1>5 DEF HeapInv, TableOK
<1>7. Stored(<<p, s>>) = NoTuple
  BY <1>2, <1>3, <1>4 DEF Stored
<1>8. QED
  BY <1>4, <1>5, <1>6, <1>7

\* InsertTuple puts the tuple into a page.
LEMMA InsertHerePreserves ==
  ASSUME HeapInv, InsertHere
  PROVE  HeapInv'
<1>0. /\ Clients = {"cur", "new", "header"} /\ "cur" \in Clients /\ PointerOK /\ ControlOK
      /\ ScanOK
  BY ClientAssumption DEF HeapInv
<1>1. /\ pc = "insert" /\ pc' = "idle" /\ Fits(Page("cur"), arg) /\ UNCHANGED <<cursor, owed>>
      /\ SetPage("cur", Inserted(Page("cur"), arg)) /\ Release("cur", Page("cur").id, TRUE)
      /\ table' = [table EXCEPT ![NewRid] = arg]
  BY DEF InsertHere, Return, scanVars
<1>2. arg \in Tuples /\ IsHeld("cur") /\ HeldPage("cur") \in 1 .. Linked
  BY <1>0, <1>1 DEF PointerOK, ControlOK
<1>3. PICK p \in 1 .. Linked : p = HeldPage("cur")
  BY <1>2
<1>4. Page("cur") = Content(p) /\ Page("cur") \in Images /\ RoomOK(Page("cur"))
      /\ Page("cur").id = p
  BY <1>2, <1>3, CurrentPage
<1>5. PICK page \in Images, t \in Tuples : page = Page("cur") /\ t = arg
  BY <1>2, <1>4
<1>6. RoomOK(page) /\ Fits(page, t) /\ page = Content(p)
  BY <1>1, <1>4, <1>5
<1> DEFINE new == Inserted(page, t)
           s   == SlotFor(page)
<1>7. /\ new \in Images /\ RoomOK(new) /\ new.id = page.id
      /\ new.prev = page.prev /\ new.next = page.next
      /\ s \in 1 .. MaxSlots /\ ~IsLive(page, s)
      /\ IsLive(new, s) /\ new.slots[s] = t
      /\ \A i : i # s => /\ IsLive(new, i) <=> IsLive(page, i)
                         /\ IsLive(page, i) => new.slots[i] = page.slots[i]
  BY <1>6, InsertedFacts
<1>8. SetPage("cur", new) /\ Release("cur", p, TRUE)
  BY <1>1, <1>4, <1>5
<1>9. NewRid = <<p, s>> /\ table[NewRid] = NoTuple
  BY <1>1, <1>3, <1>5, SlotIsFree
<1>10. table' = [table EXCEPT ![<<p, s>>] = t]
  BY <1>1, <1>5, <1>9
<1>11. t \in Entries /\ t # NoTuple
  BY SizeAssumption DEF Entries
<1>12. SamePhase
  BY <1>1 DEF SamePhase
<1> HIDE DEF new, s
<1>13. /\ Linked' = Linked /\ UNCHANGED next_page_id
       /\ PoolOK' /\ PagesOK' /\ TableOK' /\ ~IsHeld("cur")'
       /\ \A d \in Clients : d # "cur" => /\ IsHeld(d)' <=> IsHeld(d)
                                          /\ HeldPage(d)' = HeldPage(d)
       /\ \A r \in Rids : table'[r] = IF r = <<p, s>> THEN t ELSE table[r]
  BY <1>2, <1>3, <1>6, <1>7, <1>8, <1>10, <1>11, <1>12, WriteHere
<1>14. PointerOK'
  BY <1>0, <1>1, <1>13 DEF PointerOK
<1>15. ControlOK'
  BY <1>0, <1>1, <1>13 DEF ControlOK, PCs
<1>16. ScanOK'
  <2>1. \A r \in owed' : table'[r] # NoTuple
    BY <1>0, <1>1, <1>11, <1>13 DEF ScanOK
  <2>2. QED
    BY <1>1, <2>1, ScanAfterWrite
<1>17. QED
  BY <1>13, <1>14, <1>15, <1>16 DEF HeapInv

\* DeleteTuple takes the tuple out of its page, or finds none.
LEMMA DeleteInPagePreserves ==
  ASSUME HeapInv, DeleteInPage
  PROVE  HeapInv'
<1>0. /\ Clients = {"cur", "new", "header"} /\ "cur" \in Clients /\ PointerOK /\ ControlOK
      /\ ScanOK
  BY ClientAssumption DEF HeapInv
<1>1. pc = "delete" /\ pc' = "idle" /\ UNCHANGED cursor
  BY DEF DeleteInPage, Return
<1>2. rid \in Rids /\ rid[1] \in 1 .. Linked /\ IsHeld("cur") /\ HeldPage("cur") = rid[1]
  BY <1>0, <1>1 DEF PointerOK, ControlOK
<1>3. PICK p \in 1 .. Linked, s \in 1 .. MaxSlots :
        p = HeldPage("cur") /\ rid = <<p, s>> /\ rid[2] = s
  BY <1>2 DEF Rids
<1>4. Page("cur") = Content(p) /\ Page("cur") \in Images /\ RoomOK(Page("cur"))
      /\ Page("cur").id = p
  BY <1>2, <1>3, CurrentPage
<1>5. PICK page \in Images : page = Page("cur")
  BY <1>4
<1>6. RoomOK(page) /\ page = Content(p)
  BY <1>4, <1>5
<1>7. SamePhase
  BY <1>1 DEF SamePhase
<1>8. CASE IsLive(Page("cur"), rid[2])
  <2>1. /\ SetPage("cur", Deleted(Page("cur"), rid[2])) /\ Release("cur", Page("cur").id, TRUE)
        /\ table' = [table EXCEPT ![rid] = NoTuple] /\ owed' = owed \ {rid}
    BY <1>8 DEF DeleteInPage
  <2> DEFINE new == Deleted(page, s)
  <2>2. IsLive(page, s)
    BY <1>3, <1>5, <1>8
  <2>3. /\ new \in Images /\ RoomOK(new) /\ new.id = page.id
        /\ new.prev = page.prev /\ new.next = page.next /\ ~IsLive(new, s)
        /\ \A j : j # s => /\ IsLive(new, j) <=> IsLive(page, j)
                           /\ IsLive(page, j) => new.slots[j] = page.slots[j]
    BY <1>6, <2>2, DeletedFacts
  <2>4. /\ SetPage("cur", new) /\ Release("cur", p, TRUE)
        /\ table' = [table EXCEPT ![<<p, s>>] = NoTuple] /\ NoTuple \in Entries
    BY <1>3, <1>4, <1>5, <2>1 DEF Entries
  <2> HIDE DEF new
  <2>5. /\ Linked' = Linked /\ UNCHANGED next_page_id
        /\ PoolOK' /\ PagesOK' /\ TableOK' /\ ~IsHeld("cur")'
        /\ \A d \in Clients : d # "cur" => /\ IsHeld(d)' <=> IsHeld(d)
                                           /\ HeldPage(d)' = HeldPage(d)
        /\ \A r \in Rids : table'[r] = IF r = <<p, s>> THEN NoTuple ELSE table[r]
    BY <1>2, <1>3, <1>6, <1>7, <2>3, <2>4, WriteHere
  <2>6. PointerOK'
    BY <1>0, <1>1, <2>5 DEF PointerOK
  <2>7. ControlOK'
    BY <1>0, <1>1, <2>5 DEF ControlOK, PCs
  <2>8. ScanOK'
    <3>1. \A r \in owed' : table'[r] # NoTuple
      BY <1>0, <1>3, <2>1, <2>5 DEF ScanOK
    <3>2. QED
      BY <1>1, <2>1, <3>1, ScanAfterWrite
  <2>9. QED
    BY <2>5, <2>6, <2>7, <2>8 DEF HeapInv
<1>9. CASE ~IsLive(Page("cur"), rid[2])
  <2>1. /\ SetPage("cur", Page("cur")) /\ Release("cur", Page("cur").id, FALSE)
        /\ UNCHANGED <<table, owed>>
    <3>1. IsLive(Page("cur"), rid[2]) = FALSE
      BY <1>9 DEF IsLive
    <3>2. QED
      BY <3>1 DEF DeleteInPage
  <2>2. UNCHANGED <<data, table>> /\ Release("cur", HeldPage("cur"), FALSE)
    BY <1>2, <1>3, <1>4, <2>1, RefusedHere
  <2>3. /\ Linked' = Linked /\ UNCHANGED next_page_id
        /\ PoolOK' /\ PagesOK' /\ TableOK' /\ ~IsHeld("cur")'
        /\ \A d \in Clients : d # "cur" => /\ IsHeld(d)' <=> IsHeld(d)
                                           /\ HeldPage(d)' = HeldPage(d)
    BY <1>0, <1>2, <1>7, <2>2, ReleaseStep
  <2>4. PointerOK'
    BY <1>0, <1>1, <2>3 DEF PointerOK
  <2>5. ControlOK'
    BY <1>0, <1>1, <2>3 DEF ControlOK, PCs
  <2>6. ScanOK'
    BY <1>1, <2>1, ScanStays
  <2>7. QED
    BY <2>3, <2>4, <2>5, <2>6 DEF HeapInv
<1>10. QED
  BY <1>8, <1>9

\* UpdateTuple changes the tuple in its page, or finds no room for it.
LEMMA UpdateInPagePreserves ==
  ASSUME HeapInv, UpdateInPage
  PROVE  HeapInv'
<1>0. /\ Clients = {"cur", "new", "header"} /\ "cur" \in Clients /\ PointerOK /\ ControlOK
      /\ ScanOK
  BY ClientAssumption DEF HeapInv
<1>1. pc = "update" /\ pc' = "idle" /\ UNCHANGED <<cursor, owed>>
  BY DEF UpdateInPage, Return, scanVars
<1>2. /\ rid \in Rids /\ rid[1] \in 1 .. Linked /\ IsHeld("cur") /\ HeldPage("cur") = rid[1]
      /\ arg \in Tuples
  BY <1>0, <1>1 DEF PointerOK, ControlOK
<1>3. PICK p \in 1 .. Linked, s \in 1 .. MaxSlots :
        p = HeldPage("cur") /\ rid = <<p, s>> /\ rid[2] = s
  BY <1>2 DEF Rids
<1>4. Page("cur") = Content(p) /\ Page("cur") \in Images /\ RoomOK(Page("cur"))
      /\ Page("cur").id = p
  BY <1>2, <1>3, CurrentPage
<1>5. PICK page \in Images, t \in Tuples : page = Page("cur") /\ t = arg
  BY <1>2, <1>4
<1>6. RoomOK(page) /\ page = Content(p)
  BY <1>4, <1>5
<1>7. SamePhase
  BY <1>1 DEF SamePhase
<1>8. CASE CanUpdate(Page("cur"), rid[2], arg)
  <2>1. /\ SetPage("cur", Updated(Page("cur"), rid[2], arg))
        /\ Release("cur", Page("cur").id, TRUE) /\ table' = [table EXCEPT ![rid] = arg]
    BY <1>8 DEF UpdateInPage
  <2> DEFINE new == Updated(page, s, t)
  <2>2. CanUpdate(page, s, t)
    BY <1>3, <1>5, <1>8
  <2>3. /\ new \in Images /\ RoomOK(new) /\ new.id = page.id
        /\ new.prev = page.prev /\ new.next = page.next
        /\ IsLive(new, s) /\ new.slots[s] = t
        /\ \A j : j # s => /\ IsLive(new, j) <=> IsLive(page, j)
                           /\ IsLive(page, j) => new.slots[j] = page.slots[j]
    BY <1>6, <2>2, UpdatedFacts
  <2>4. /\ SetPage("cur", new) /\ Release("cur", p, TRUE)
        /\ table' = [table EXCEPT ![<<p, s>>] = t] /\ t \in Entries /\ t # NoTuple
    BY <1>3, <1>4, <1>5, <2>1, SizeAssumption DEF Entries
  <2> HIDE DEF new
  <2>5. /\ Linked' = Linked /\ UNCHANGED next_page_id
        /\ PoolOK' /\ PagesOK' /\ TableOK' /\ ~IsHeld("cur")'
        /\ \A d \in Clients : d # "cur" => /\ IsHeld(d)' <=> IsHeld(d)
                                           /\ HeldPage(d)' = HeldPage(d)
        /\ \A r \in Rids : table'[r] = IF r = <<p, s>> THEN t ELSE table[r]
    BY <1>2, <1>3, <1>6, <1>7, <2>3, <2>4, WriteHere
  <2>6. PointerOK'
    BY <1>0, <1>1, <2>5 DEF PointerOK
  <2>7. ControlOK'
    BY <1>0, <1>1, <2>5 DEF ControlOK, PCs
  <2>8. ScanOK'
    <3>1. \A r \in owed' : table'[r] # NoTuple
      BY <1>0, <1>1, <2>4, <2>5 DEF ScanOK
    <3>2. QED
      BY <1>1, <3>1, ScanAfterWrite
  <2>9. QED
    BY <2>5, <2>6, <2>7, <2>8 DEF HeapInv
<1>9. CASE ~CanUpdate(Page("cur"), rid[2], arg)
  <2>1. /\ SetPage("cur", Page("cur")) /\ Release("cur", Page("cur").id, FALSE)
        /\ UNCHANGED table
    <3>1. CanUpdate(Page("cur"), rid[2], arg) = FALSE
      BY <1>9 DEF CanUpdate, IsLive
    <3>2. QED
      BY <3>1 DEF UpdateInPage
  <2>2. UNCHANGED <<data, table>> /\ Release("cur", HeldPage("cur"), FALSE)
    BY <1>2, <1>3, <1>4, <2>1, RefusedHere
  <2>3. /\ Linked' = Linked /\ UNCHANGED next_page_id
        /\ PoolOK' /\ PagesOK' /\ TableOK' /\ ~IsHeld("cur")'
        /\ \A d \in Clients : d # "cur" => /\ IsHeld(d)' <=> IsHeld(d)
                                           /\ HeldPage(d)' = HeldPage(d)
    BY <1>0, <1>2, <1>7, <2>2, ReleaseStep
  <2>4. PointerOK'
    BY <1>0, <1>1, <2>3 DEF PointerOK
  <2>5. ControlOK'
    BY <1>0, <1>1, <2>3 DEF ControlOK, PCs
  <2>6. ScanOK'
    BY <1>1, <2>1, ScanStays
  <2>7. QED
    BY <2>3, <2>4, <2>5, <2>6 DEF HeapInv
<1>10. QED
  BY <1>8, <1>9

\* A step that creates a page, which is not in the list yet.
LEMMA NewStep ==
  ASSUME HeapInv, PoolKeepsContract, NEW c \in Clients, NewPage(c), UNCHANGED table,
         \/ pc \in {"start", "first"} /\ pc' \in {"init", "format"}
         \/ pc = "insert" /\ pc' = "link"
  PROVE  /\ Linked' = Linked /\ next_page_id' = next_page_id + 1
         /\ PoolOK' /\ PagesOK' /\ TableOK'
         /\ IsHeld(c)' /\ HeldPage(c)' = next_page_id
         /\ \A d \in Clients : d # c => /\ IsHeld(d)' <=> IsHeld(d)
                                        /\ HeldPage(d)' = HeldPage(d)
<1>0. /\ next_page_id \in Nat /\ HeapPages = 1 .. next_page_id - 1 /\ Linked \in Nat
      /\ \A p \in HeapPages : p \in PageIds
      /\ \A p \in 1 .. Linked : p \in HeapPages
      /\ pc = "insert" => Linked = next_page_id - 1
  BY NumberFacts
<1>1. PoolOK
  BY DEF HeapInv
<1>2. /\ PoolOK' /\ Given(c, next_page_id) /\ next_page_id \in PageIds
      /\ \A q \in PageIds : Content(q)' = IF q = next_page_id THEN ZeroImage ELSE Content(q)
      /\ next_page_id' = next_page_id + 1 /\ live' = live \cup {next_page_id}
  BY <1>1, NewFacts
<1>3. Linked' = Linked
  BY <1>0, <1>2 DEF Linked
<1>4. \A p \in HeapPages : Content(p)' = Content(p)
  BY <1>0, <1>2
<1>5. live' = 0 .. next_page_id' - 1 /\ HeapPages' = HeapPages \cup ({next_page_id} \ {0})
  <2>1. live = 0 .. next_page_id - 1
    BY DEF HeapInv, PagesOK
  <2>2. live' = 0 .. next_page_id' - 1
    BY <1>0, <1>2, <2>1
  <2>3. QED
    BY <1>2, <2>2 DEF HeapPages, HEADER_PAGE_ID
<1>6. PICK n \in PageIds : n = next_page_id
  BY <1>2
<1>7. Content(n)'.slots = <<>> /\ \A i : ~IsLive(Content(n), i)'
  <2>1. Content(n)' = ZeroImage
    BY <1>2, <1>6
  <2>2. ZeroImage.slots = <<>>
    BY DEF ZeroImage
  <2>3. QED
    BY <2>1, <2>2 DEF IsLive
<1>8. TableOK'
  <2>1. \A p \in HeapPages : \A i :
          /\ IsLive(Content(p), i)' <=> IsLive(Content(p), i)
          /\ IsLive(Content(p), i) => Content(p)'.slots[i] = Content(p).slots[i]
    BY <1>4 DEF IsLive
  <2>2. \A p \in HeapPages' : p \notin HeapPages => p = n
    BY <1>5, <1>6
  <2>3. live \subseteq live'
    BY <1>2
  <2>4. QED
    BY <1>7, <2>1, <2>2, <2>3, TuplesStay
<1>9. ASSUME NEW p \in 1 .. Linked PROVE PageOK(p, Content(p))'
  <2>1. Content(p)' = Content(p) /\ PageOK(p, Content(p))
    BY <1>0, <1>4 DEF HeapInv, PagesOK
  <2>2. QED
    BY <1>3, <2>1 DEF PageOK, RoomOK, Cells, LiveSlots
<1>10. ASSUME NEW p \in 1 .. next_page_id' - 1, p > Linked PROVE Content(p)'.slots = <<>>
  <2>1. CASE p = n
    BY <1>7, <2>1
  <2>2. CASE p # n
    <3>1. p \in HeapPages
      BY <1>0, <1>2, <1>6, <2>2
    <3>2. Content(p).slots = <<>>
      BY <1>0, <1>10, <3>1 DEF HeapInv, PagesOK
    <3>3. QED
      BY <1>4, <3>1, <3>2
  <2>3. QED
    BY <2>1, <2>2
<1>11. PagesOK'
  BY <1>3, <1>5, <1>9, <1>10 DEF PagesOK
<1>12. QED
  BY <1>2, <1>3, <1>8, <1>11, GivenFacts

\* InsertTuple creates a page after the last one.
LEMMA InsertNewPagePreserves ==
  ASSUME HeapInv, InsertNewPage, PoolKeepsContract
  PROVE  HeapInv'
<1>0. Clients = {"cur", "new", "header"} /\ "new" \in Clients /\ PointerOK /\ ControlOK
  BY ClientAssumption DEF HeapInv
<1>1. /\ UNCHANGED <<arg, rid, nxt, cursor, owed, table>> /\ pc = "insert" /\ pc' = "link"
      /\ Page("cur").next = INVALID_PAGE_ID /\ NewPage("new")
  BY DEF InsertNewPage, scanVars, Step
<1>2. IsHeld("cur") /\ HeldPage("cur") \in 1 .. Linked
  BY <1>0, <1>1 DEF PointerOK
<1>3. HeldPage("cur") = Linked
  BY <1>1, <1>2, CurrentPage
<1>4. /\ Linked' = Linked /\ next_page_id' = next_page_id + 1
      /\ PoolOK' /\ PagesOK' /\ TableOK'
      /\ IsHeld("new")' /\ HeldPage("new")' = next_page_id
      /\ \A d \in Clients : d # "new" => /\ IsHeld(d)' <=> IsHeld(d)
                                         /\ HeldPage(d)' = HeldPage(d)
  BY <1>0, <1>1, NewStep
<1>5. Linked = next_page_id - 1 /\ next_page_id \in Nat /\ Linked >= 1
  BY <1>1, NumberFacts
<1>6. PointerOK'
  BY <1>0, <1>1, <1>2, <1>3, <1>4, <1>5 DEF PointerOK
<1>7. ControlOK'
  BY <1>0, <1>1, <1>4, <1>5 DEF ControlOK, PCs
<1>8. ScanOK'
  BY <1>1, ScanStays
<1>9. QED
  BY <1>4, <1>6, <1>7, <1>8 DEF HeapInv

\* The new page becomes the last one of the list.
LEMMA InsertLinkPreserves ==
  ASSUME HeapInv, InsertLink
  PROVE  HeapInv'
<1>0. /\ Clients = {"cur", "new", "header"} /\ PointerOK /\ ControlOK /\ PoolOK
      /\ "cur" \in Clients /\ "new" \in Clients
  BY ClientAssumption DEF HeapInv
<1>1. /\ UNCHANGED <<arg, rid, nxt, cursor, owed, table>> /\ pc = "link" /\ pc' = "insert"
      /\ UNCHANGED <<page_id, db_file, next_page_id, page_table, free_list, live>>
  BY DEF InsertLink, scanVars, Step, diskVars
<1>2. /\ IsHeld("cur") /\ IsHeld("new") /\ HeldPage("cur") = Linked
      /\ HeldPage("new") = Linked + 1
  BY <1>0, <1>1 DEF PointerOK
<1>3. /\ Linked = next_page_id - 2 /\ Linked \in Nat /\ Linked >= 1 /\ next_page_id \in Nat
      /\ HeapPages = 1 .. next_page_id - 1 /\ \A q \in HeapPages : q \in PageIds
  BY <1>1, NumberFacts
<1>4. PICK p \in 1 .. Linked, n \in PageIds : p = Linked /\ n = p + 1
  BY <1>3
<1>5. PICK f \in Frames, g \in Frames : f = handle["cur"].frame /\ g = handle["new"].frame
  BY <1>0, <1>2, HandleFacts
<1>6. f # g
  BY <1>0, <1>2, <1>3, <1>5, HandleFacts DEF HeldPage
<1>7. HeldPage("cur") \in 1 .. Linked
  BY <1>2, <1>3
<1>8. /\ data[f] = Content(p) /\ data[f] \in Images /\ data[f].id = p
  BY <1>2, <1>4, <1>5, <1>7, CurrentPage DEF Page
<1>9. data \in [Frames -> Images]
  BY <1>0, ImageAssumption DEF PoolOK, PoolInv, TypeOK
<1>10. n = handle["new"].page /\ p \in PageIds
  BY <1>2, <1>3, <1>4 DEF HeldPage
<1> DEFINE a == [Content(p) EXCEPT !.next = n]
           b == Formatted(n, p)
<1>11. /\ a \in Images /\ a.id = Content(p).id /\ a.prev = Content(p).prev /\ a.next = n
       /\ a.slots = Content(p).slots /\ RoomOK(a)
       /\ \A i : IsLive(a, i) <=> IsLive(Content(p), i)
  <2>1. Content(p) \in Images /\ RoomOK(Content(p))
    BY PageFacts
  <2>2. QED
    BY <2>1, FieldFacts
<1>12. /\ b \in Images /\ RoomOK(b) /\ b.id = n /\ b.prev = p
       /\ b.next = INVALID_PAGE_ID /\ b.slots = <<>> /\ \A i : ~IsLive(b, i)
  BY <1>10, FormattedFacts
<1>13. /\ data' \in [Frames -> Contents] /\ data'[f] = a /\ data'[g] = b
       /\ \A h \in Frames : h # f /\ h # g => data'[h] = data[h]
  <2> DEFINE linked == LinkedTo(f, n)
  <2>1. linked = [data EXCEPT ![f] = a]
    BY <1>8, <1>9 DEF LinkedTo
  <2>2. data' = [linked EXCEPT ![g] = Formatted(n, linked[f].id)]
    BY <1>5, <1>10 DEF InsertLink
  <2> HIDE DEF a, b, linked
  <2>3. linked \in [Frames -> Images] /\ linked[f] = a
        /\ \A h \in Frames : h # f => linked[h] = data[h]
    BY <1>9, <1>11, <2>1
  <2>4. linked[f].id = p
    BY <1>8, <1>11, <2>3
  <2>5. data' = [linked EXCEPT ![g] = b]
    BY <2>2, <2>4 DEF b
  <2>6. QED
    BY <1>6, <1>12, <2>3, <2>5, ImageAssumption
<1>14. Unpin(HeldPage("cur"), TRUE)
  <2>1. Unpin(data'[f].id, TRUE)
    BY <1>5 DEF InsertLink
  <2>2. data'[f].id = HeldPage("cur")
    BY <1>2, <1>4, <1>8, <1>11, <1>13
  <2>3. QED
    BY <2>1, <2>2
<1>15. handle' = [handle EXCEPT !["cur"] = handle["new"], !["new"] = NoHandle]
  BY DEF InsertLink
<1> HIDE DEF a, b
<1>16. /\ PoolOK' /\ handle'["cur"] = handle["new"] /\ handle'["new"] = NoHandle
       /\ handle'["header"] = handle["header"]
       /\ \A q \in PageIds : Content(q)' = IF q = HeldPage("cur") THEN a
                                           ELSE IF q = HeldPage("new") THEN b ELSE Content(q)
  <2>1. HeldPage("cur") # HeldPage("new") /\ TRUE \in BOOLEAN
    BY <1>2, <1>3
  <2>2. data'[handle["cur"].frame] = a /\ data'[handle["new"].frame] = b
    BY <1>5, <1>13
  <2>3. \A h \in Frames : h # handle["cur"].frame /\ h # handle["new"].frame
                            => data'[h] = data[h]
    BY <1>5, <1>13
  <2>4. PICK x \in Images, y \in Images : x = a /\ y = b
    BY <1>11, <1>12
  <2>5. data'[handle["cur"].frame] = x /\ data'[handle["new"].frame] = y
    BY <2>2, <2>4
  <2>6. /\ PoolOK' /\ handle'["cur"] = handle["new"] /\ handle'["new"] = NoHandle
        /\ handle'["header"] = handle["header"]
        /\ \A q \in PageIds : Content(q)' = IF q = HeldPage("cur") THEN x
                                            ELSE IF q = HeldPage("new") THEN y ELSE Content(q)
    BY <1>0, <1>1, <1>2, <1>13, <1>14, <1>15, <2>1, <2>3, <2>5, MoveOnFacts
  <2>7. QED
    BY <2>4, <2>6
<1>17. /\ IsHeld("cur")' /\ HeldPage("cur")' = n /\ ~IsHeld("new")'
       /\ IsHeld("header")' <=> IsHeld("header")
  BY <1>2, <1>10, <1>16 DEF IsHeld, HeldPage
<1>18. Linked' = n /\ n = p + 1 /\ next_page_id' - 1 = n /\ next_page_id' = next_page_id
  BY <1>1, <1>3, <1>4 DEF Linked
<1>19. /\ Content(p)' = a /\ Content(n)' = b /\ n # p /\ p \in HeapPages /\ n \in HeapPages
       /\ \A q \in HeapPages : q # p /\ q # n => Content(q)' = Content(q)
  BY <1>2, <1>3, <1>4, <1>10, <1>16
<1>20. PagesOK'
  <2>1. ASSUME NEW q \in 1 .. n PROVE PageOK(q, Content(q))'
    <3>1. q \in HeapPages /\ q \in Nat
      BY <1>3, <1>4
    <3>2. CASE q = n
      <4>1. RoomOK(Content(n))'
        BY <1>12, <1>19 DEF RoomOK, Cells, LiveSlots
      <4>2. p = n - 1 /\ n # first_page_id
        BY <1>3, <1>4 DEF first_page_id
      <4>3. Content(n)'.id = n /\ Content(n)'.prev = n - 1 /\ Content(n)'.next = INVALID_PAGE_ID
        BY <1>12, <1>19, <4>2
      <4>4. QED
        BY <1>18, <3>2, <4>1, <4>2, <4>3 DEF PageOK
    <3>3. CASE q = p
      <4>1. Content(p).id = p /\ Content(p).prev = IF p = first_page_id THEN INVALID_PAGE_ID
                                                   ELSE p - 1
        BY PageFacts
      <4>2. QED
        BY <1>11, <1>18, <1>19, <3>3, <4>1 DEF PageOK, RoomOK, Cells, LiveSlots
    <3>4. CASE q # n /\ q # p
      <4>1. q \in 1 .. Linked /\ q # Linked
        BY <1>3, <1>4, <3>1, <3>4
      <4>2. PageOK(q, Content(q)) /\ Content(q)' = Content(q)
        BY <1>19, <3>1, <3>4, <4>1 DEF HeapInv, PagesOK
      <4>3. QED
        BY <1>18, <3>4, <4>1, <4>2 DEF PageOK, RoomOK, Cells, LiveSlots
    <3>5. QED
      BY <3>2, <3>3, <3>4
  <2>2. live' = 0 .. next_page_id' - 1
    BY <1>1 DEF HeapInv, PagesOK
  <2>3. \A q \in 1 .. next_page_id' - 1 : ~(q > Linked')
    BY <1>3, <1>18
  <2>4. QED
    BY <1>18, <2>1, <2>2, <2>3 DEF PagesOK
<1>21. TableOK'
  <2>1. Content(n).slots = <<>>
    BY <1>3, <1>4 DEF HeapInv, PagesOK
  <2>2. \A i : ~IsLive(Content(n), i)
    BY <2>1 DEF IsLive
  <2>3. ASSUME NEW q \in HeapPages, NEW i
        PROVE  /\ IsLive(Content(q), i)' <=> IsLive(Content(q), i)
               /\ IsLive(Content(q), i) => Content(q)'.slots[i] = Content(q).slots[i]
    <3>1. CASE q = n
      BY <1>12, <1>19, <2>2, <3>1 DEF IsLive
    <3>2. CASE q = p
      BY <1>11, <1>19, <3>2 DEF IsLive
    <3>3. CASE q # n /\ q # p
      BY <1>19, <3>3 DEF IsLive
    <3>4. QED
      BY <3>1, <3>2, <3>3
  <2>4. HeapPages' = HeapPages /\ live \subseteq live'
    BY <1>1 DEF HeapPages
  <2>5. QED
    BY <1>1, <2>3, <2>4, TuplesStay
<1>22. PointerOK'
  <2>1. n \in 1 .. n
    BY <1>3, <1>4
  <2>2. IsHeld("header") <=> FALSE
    BY <1>0, <1>1 DEF PointerOK
  <2>3. QED
    BY <1>1, <1>17, <1>18, <2>1, <2>2 DEF PointerOK
<1>23. ControlOK'
  <2>1. cursor' # EOF => cursor' \in Rids /\ cursor'[1] \in 1 .. Linked'
    BY <1>0, <1>1, <1>3, <1>4, <1>18 DEF ControlOK
  <2>2. arg' \in Tuples /\ next_page_id' > 2
    BY <1>0, <1>1, <1>18 DEF ControlOK
  <2>3. QED
    BY <1>1, <1>3, <1>18, <2>1, <2>2 DEF ControlOK, PCs
<1>24. ScanOK'
  BY <1>1, ScanStays
<1>25. QED
  BY <1>16, <1>20, <1>21, <1>22, <1>23, <1>24 DEF HeapInv

\* TableHeap's constructor formats the first page.
LEMMA FormatPreserves ==
  ASSUME HeapInv, Step("format", "record"), UNCHANGED <<arg, rid, nxt, cursor, owed, table>>,
         SetPage("cur", Formatted(first_page_id, INVALID_PAGE_ID)),
         Release("cur", first_page_id, TRUE)
  PROVE  HeapInv'
<1>0. /\ Clients = {"cur", "new", "header"} /\ PointerOK /\ ControlOK /\ PoolOK
      /\ "cur" \in Clients
  BY ClientAssumption DEF HeapInv
<1>1. pc = "format" /\ pc' = "record"
  BY DEF Step
<1>2. IsHeld("cur") /\ HeldPage("cur") = first_page_id /\ next_page_id = 2 /\ Linked = 0
  BY <1>0, <1>1 DEF PointerOK, ControlOK, Linked
<1>3. HeapPages = {1} /\ 1 \in PageIds /\ first_page_id = 1
  BY <1>2, NumberFacts DEF first_page_id
<1>4. PICK new \in Images : new = Formatted(first_page_id, INVALID_PAGE_ID)
  BY <1>3, FormattedFacts
<1>5. /\ RoomOK(new) /\ new.id = 1 /\ new.prev = INVALID_PAGE_ID
      /\ new.next = INVALID_PAGE_ID /\ new.slots = <<>> /\ \A i : ~IsLive(new, i)
  BY <1>3, <1>4, FormattedFacts
<1>6. SetPage("cur", new) /\ Release("cur", HeldPage("cur"), TRUE)
  BY <1>2, <1>4
<1>7. /\ PoolOK' /\ Taken("cur") /\ UNCHANGED <<live, next_page_id>>
      /\ \A q \in PageIds : Content(q)' = IF q = HeldPage("cur") THEN new ELSE Content(q)
  BY <1>0, <1>2, <1>6, ReleaseFacts
<1>8. Content(1)' = new /\ Linked' = 1 /\ next_page_id' = 2
  BY <1>1, <1>2, <1>3, <1>7 DEF Linked
<1>9. PagesOK'
  <2>1. RoomOK(Content(1))'
    BY <1>5, <1>8 DEF RoomOK, Cells, LiveSlots
  <2>2. PageOK(1, Content(1))'
    BY <1>5, <1>8, <2>1 DEF PageOK, first_page_id
  <2>3. live' = 0 .. next_page_id' - 1
    BY <1>7 DEF HeapInv, PagesOK
  <2>4. \A p \in 1 .. Linked' : p = 1
    BY <1>8
  <2>5. \A p \in 1 .. next_page_id' - 1 : ~(p > Linked')
    BY <1>8
  <2>6. QED
    BY <2>2, <2>3, <2>4, <2>5 DEF PagesOK
<1>10. TableOK'
  <2>1. Content(1).slots = <<>>
    BY <1>2 DEF HeapInv, PagesOK
  <2>2. \A i : ~IsLive(Content(1), i) /\ ~IsLive(Content(1), i)'
    BY <1>5, <1>8, <2>1 DEF IsLive
  <2>3. HeapPages' = HeapPages /\ live \subseteq live'
    BY <1>7 DEF HeapPages
  <2>4. QED
    BY <1>3, <2>2, <2>3, TuplesStay
<1>11. /\ ~IsHeld("cur")'
       /\ \A d \in Clients : d # "cur" => /\ IsHeld(d)' <=> IsHeld(d)
                                          /\ HeldPage(d)' = HeldPage(d)
  BY <1>0, <1>7, TakenFacts
<1>12. PointerOK'
  BY <1>0, <1>1, <1>11 DEF PointerOK
<1>13. ControlOK'
  <2>1. cursor' = EOF
    <3>1. ~(cursor[1] \in 1 .. Linked)
      BY <1>2
    <3>2. QED
      BY <1>0, <3>1 DEF ControlOK
  <2>2. QED
    BY <1>1, <1>8, <2>1 DEF ControlOK, PCs
<1>14. ScanOK'
  BY <1>1, ScanStays
<1>15. QED
  BY <1>7, <1>9, <1>10, <1>12, <1>13, <1>14 DEF HeapInv

\* VtabCreate adds a record to the header page.
LEMMA RecordPreserves ==
  ASSUME HeapInv, Step("record", "idle"), UNCHANGED <<arg, rid, nxt, cursor, owed, table>>,
         SetPage("header", [Page("header") EXCEPT !.id = 1]),
         Release("header", HEADER_PAGE_ID, TRUE)
  PROVE  HeapInv'
<1>0. /\ Clients = {"cur", "new", "header"} /\ PointerOK /\ ControlOK /\ PoolOK
      /\ "header" \in Clients
  BY ClientAssumption DEF HeapInv
<1>1. pc = "record" /\ pc' = "idle"
  BY DEF Step
<1>2. IsHeld("header") /\ HeldPage("header") = HEADER_PAGE_ID
  BY <1>0, <1>1 DEF PointerOK
<1>3. 1 \in PageIds
  BY <1>1, NumberFacts
<1>4. PICK new \in Images : new = [Page("header") EXCEPT !.id = 1]
  <2>1. Page("header") \in Images
    BY <1>0, <1>2, HandleFacts
  <2>2. QED
    BY <1>3, <2>1, FieldFacts
<1>5. SetPage("header", new) /\ Release("header", HeldPage("header"), TRUE)
  BY <1>2, <1>4
<1>6. /\ PoolOK' /\ Taken("header") /\ UNCHANGED <<live, next_page_id>>
      /\ \A q \in PageIds : Content(q)' = IF q = HeldPage("header") THEN new ELSE Content(q)
  BY <1>0, <1>2, <1>5, ReleaseFacts
<1>7. Linked' = Linked
  BY <1>1, <1>6 DEF Linked
<1>8. PagesOK' /\ TableOK'
  BY <1>2, <1>6, <1>7, QuietStep
<1>9. /\ ~IsHeld("header")'
      /\ \A d \in Clients : d # "header" => /\ IsHeld(d)' <=> IsHeld(d)
                                            /\ HeldPage(d)' = HeldPage(d)
  BY <1>0, <1>6, TakenFacts
<1>10. PointerOK'
  BY <1>0, <1>1, <1>7, <1>9 DEF PointerOK
<1>11. ControlOK'
  BY <1>0, <1>1, <1>6, <1>7 DEF ControlOK, PCs
<1>12. ScanOK'
  BY <1>1, ScanStays
<1>13. QED
  BY <1>6, <1>8, <1>10, <1>11, <1>12 DEF HeapInv

\* Creating the table.
LEMMA CreatePreserves ==
  ASSUME HeapInv, Create, PoolKeepsContract
  PROVE  HeapInv'
<1>0. /\ Clients = {"cur", "new", "header"} /\ PointerOK /\ ControlOK
      /\ "cur" \in Clients /\ "header" \in Clients
  BY ClientAssumption DEF HeapInv
<1>1. UNCHANGED <<arg, rid, nxt, cursor, owed, table>>
  BY DEF Create, scanVars
<1>2. CASE Step("start", "init") /\ NewPage("header")
  <2>1. pc = "start" /\ pc' = "init" /\ next_page_id = 0
    BY <1>0, <1>2 DEF Step, ControlOK
  <2>2. /\ Linked' = Linked /\ next_page_id' = next_page_id + 1
        /\ PoolOK' /\ PagesOK' /\ TableOK'
        /\ IsHeld("header")' /\ HeldPage("header")' = next_page_id
        /\ \A d \in Clients : d # "header" => /\ IsHeld(d)' <=> IsHeld(d)
                                              /\ HeldPage(d)' = HeldPage(d)
    BY <1>0, <1>1, <1>2, <2>1, NewStep
  <2>3. PointerOK'
    BY <1>0, <2>1, <2>2 DEF PointerOK, HEADER_PAGE_ID
  <2>4. ControlOK'
    BY <1>0, <1>1, <2>1, <2>2 DEF ControlOK, PCs
  <2>5. ScanOK'
    BY <1>1, <2>1, ScanStays
  <2>6. QED
    BY <2>2, <2>3, <2>4, <2>5 DEF HeapInv
<1>3. CASE Step("init", "create") /\ Release("header", HEADER_PAGE_ID, TRUE) /\ UNCHANGED data
  <2>1. pc = "init" /\ pc' = "create"
    BY <1>3 DEF Step
  <2>2. IsHeld("header") /\ HeldPage("header") = HEADER_PAGE_ID
    BY <1>0, <2>1 DEF PointerOK
  <2>3. SamePhase /\ Release("header", HeldPage("header"), TRUE) /\ UNCHANGED <<data, table>>
    BY <1>1, <1>3, <2>1, <2>2 DEF SamePhase
  <2>4. /\ Linked' = Linked /\ UNCHANGED next_page_id
        /\ PoolOK' /\ PagesOK' /\ TableOK' /\ ~IsHeld("header")'
        /\ \A d \in Clients : d # "header" => /\ IsHeld(d)' <=> IsHeld(d)
                                              /\ HeldPage(d)' = HeldPage(d)
    BY <1>0, <2>2, <2>3, ReleaseStep
  <2>5. PointerOK'
    BY <1>0, <2>1, <2>4 DEF PointerOK
  <2>6. ControlOK'
    BY <1>0, <1>1, <2>1, <2>4 DEF ControlOK, PCs
  <2>7. ScanOK'
    BY <1>1, <2>1, ScanStays
  <2>8. QED
    BY <2>4, <2>5, <2>6, <2>7 DEF HeapInv
<1>4. CASE Step("create", "first") /\ FetchPage("header", HEADER_PAGE_ID)
  <2>1. pc = "create" /\ pc' = "first" /\ next_page_id = 1
    BY <1>0, <1>4 DEF Step, ControlOK
  <2>2. HEADER_PAGE_ID \in PageIds
    BY <2>1, NumberFacts DEF PageIds, HEADER_PAGE_ID
  <2>3. SamePhase
    BY <2>1 DEF SamePhase
  <2>4. /\ Linked' = Linked /\ UNCHANGED next_page_id
        /\ PoolOK' /\ PagesOK' /\ TableOK'
        /\ IsHeld("header")' /\ HeldPage("header")' = HEADER_PAGE_ID
        /\ \A d \in Clients : d # "header" => /\ IsHeld(d)' <=> IsHeld(d)
                                              /\ HeldPage(d)' = HeldPage(d)
    BY <1>0, <1>1, <1>4, <2>2, <2>3, FetchStep
  <2>5. PointerOK'
    BY <1>0, <2>1, <2>4 DEF PointerOK
  <2>6. ControlOK'
    BY <1>0, <1>1, <2>1, <2>4 DEF ControlOK, PCs
  <2>7. ScanOK'
    BY <1>1, <2>1, ScanStays
  <2>8. QED
    BY <2>4, <2>5, <2>6, <2>7 DEF HeapInv
<1>5. CASE Step("first", "format") /\ NewPage("cur")
  <2>1. pc = "first" /\ pc' = "format" /\ next_page_id = 1
    BY <1>0, <1>5 DEF Step, ControlOK
  <2>2. /\ Linked' = Linked /\ next_page_id' = next_page_id + 1
        /\ PoolOK' /\ PagesOK' /\ TableOK'
        /\ IsHeld("cur")' /\ HeldPage("cur")' = next_page_id
        /\ \A d \in Clients : d # "cur" => /\ IsHeld(d)' <=> IsHeld(d)
                                           /\ HeldPage(d)' = HeldPage(d)
    BY <1>0, <1>1, <1>5, <2>1, NewStep
  <2>3. PointerOK'
    BY <1>0, <2>1, <2>2 DEF PointerOK, first_page_id
  <2>4. ControlOK'
    BY <1>0, <1>1, <2>1, <2>2 DEF ControlOK, PCs
  <2>5. ScanOK'
    BY <1>1, <2>1, ScanStays
  <2>6. QED
    BY <2>2, <2>3, <2>4, <2>5 DEF HeapInv
<1>6. CASE /\ Step("format", "record") /\ Release("cur", first_page_id, TRUE)
           /\ SetPage("cur", Formatted(first_page_id, INVALID_PAGE_ID))
  BY <1>1, <1>6, FormatPreserves
<1>7. CASE /\ Step("record", "idle") /\ Release("header", HEADER_PAGE_ID, TRUE)
           /\ SetPage("header", [Page("header") EXCEPT !.id = 1])
  BY <1>1, <1>7, RecordPreserves
<1>8. QED
  BY <1>2, <1>3, <1>4, <1>5, <1>6, <1>7 DEF Create

-----------------------------------------------------------------------------
(* The iterator.                                                           *)

\* The iterator reaches the tuple after slot i of page p, and what it still owes
\* is not before that.
LEMMA ReachFacts ==
  ASSUME HeapInv, NEW p \in 1 .. Linked, NEW i \in Nat, NEW r, r = RidAfter(Content(p), i),
         Reach(r), UNCHANGED table,
         \A s \in owed : s[1] > p \/ (s[1] = p /\ s[2] > i)
  PROVE  /\ ScanOK' /\ pc' \in {"idle", "load"} /\ UNCHANGED <<arg, rid>>
         /\ pc' = "load" <=> cursor' # EOF
         /\ cursor' # EOF => cursor' \in Rids /\ cursor'[1] = p
<1>1. /\ cursor' = r /\ pc' = (IF r = EOF THEN "idle" ELSE "load")
      /\ owed' = (IF r = EOF THEN {} ELSE owed) /\ UNCHANGED <<arg, rid>>
  BY DEF Reach
<1>2. Content(p) \in Images /\ Content(p).id = p
  BY PageFacts
<1>3. \/ r = EOF
      \/ /\ r # EOF /\ r \in Rids /\ r[1] = p
         /\ \A j : IsLive(Content(p), j) /\ i < j => r[2] <= j
  BY <1>2, RidFacts
<1>4. \A s \in owed : s \in Rids /\ table[s] # NoTuple
  BY DEF HeapInv, ScanOK
<1>5. CASE r = EOF
  BY <1>1, <1>5 DEF ScanOK
<1>6. CASE r # EOF
  <2>0. cursor' = r /\ pc' = "load" /\ owed' = owed
    BY <1>1, <1>6
  <2>1. /\ r \in Rids /\ r[1] = p /\ r[2] \in Nat /\ r = <<r[1], r[2]>>
        /\ \A j : IsLive(Content(p), j) /\ i < j => r[2] <= j
    BY <1>3, <1>6 DEF Rids
  <2>2. ASSUME NEW s \in owed PROVE Before(r, s) \/ s = r
    <3>1. /\ s[1] \in Nat /\ s[2] \in Nat /\ IsLive(Content(s[1]), s[2]) /\ s = <<s[1], s[2]>>
      BY <1>4, StoredFacts
    <3>2. CASE s[1] > p
      BY <2>1, <3>1, <3>2 DEF Before
    <3>3. CASE s[1] = p /\ s[2] > i
      <4>1. r[2] <= s[2]
        BY <2>1, <3>1, <3>3
      <4>2. CASE r[2] = s[2]
        BY <2>1, <3>1, <3>3, <4>2
      <4>3. CASE r[2] < s[2]
        BY <2>1, <3>3, <4>3 DEF Before
      <4>4. QED
        BY <2>1, <3>1, <4>1, <4>2, <4>3
    <3>4. QED
      BY <3>2, <3>3
  <2>3. \A s \in owed' : Before(cursor, s)' \/ s = cursor'
    BY <2>0, <2>2 DEF Before
  <2>4. ScanOK'
    BY <1>4, <1>6, <2>0, <2>3 DEF ScanOK
  <2>5. QED
    BY <1>1, <1>6, <2>0, <2>1, <2>4
<1>7. QED
  BY <1>5, <1>6

\* Where an operation is when the iterator has reached a tuple or the end.
LEMMA ReachControl ==
  ASSUME HeapInv, Linked' = Linked, UNCHANGED next_page_id, NEW p \in 1 .. Linked,
         pc \in {"begin", "advance", "crossed"},
         pc' \in {"idle", "load"}, pc' = "load" <=> cursor' # EOF,
         cursor' # EOF => cursor' \in Rids /\ cursor'[1] = p,
         ~IsHeld("cur")', IsHeld("new")' <=> IsHeld("new"), IsHeld("header")' <=> IsHeld("header")
  PROVE  PointerOK' /\ ControlOK'
<1>1. ~IsHeld("new") /\ ~IsHeld("header")
  BY DEF HeapInv, PointerOK
<1>2. next_page_id' # 0 /\ next_page_id' # 1
  BY DEF HeapInv, ControlOK
<1>3. PointerOK'
  BY <1>1 DEF PointerOK
<1>4. ControlOK'
  BY <1>2 DEF ControlOK, PCs
<1>5. QED
  BY <1>3, <1>4

\* TableHeap::begin.
LEMMA BeginPreserves ==
  ASSUME HeapInv, Begin, PoolKeepsContract
  PROVE  HeapInv'
<1>0. Clients = {"cur", "new", "header"} /\ "cur" \in Clients /\ PointerOK /\ ControlOK /\ ScanOK
  BY ClientAssumption DEF HeapInv
<1>1. CASE /\ Step("idle", "begin") /\ cursor = EOF /\ FetchPage("cur", first_page_id)
           /\ owed' = {r \in Rids : table[r] # NoTuple}
           /\ UNCHANGED <<arg, rid, nxt, cursor, table>>
  <2>1. pc = "idle" /\ pc' = "begin"
    BY <1>1 DEF Step
  <2>2. first_page_id \in PageIds
    BY <2>1, NumberFacts DEF PageIds, first_page_id
  <2>3. SamePhase
    BY <2>1 DEF SamePhase
  <2>4. /\ Linked' = Linked /\ UNCHANGED next_page_id
        /\ PoolOK' /\ PagesOK' /\ TableOK'
        /\ IsHeld("cur")' /\ HeldPage("cur")' = first_page_id
        /\ \A d \in Clients : d # "cur" => /\ IsHeld(d)' <=> IsHeld(d)
                                           /\ HeldPage(d)' = HeldPage(d)
    BY <1>0, <1>1, <2>2, <2>3, FetchStep
  <2>5. PointerOK'
    BY <1>0, <2>1, <2>4 DEF PointerOK
  <2>6. ControlOK'
    BY <1>0, <1>1, <2>1, <2>4 DEF ControlOK, PCs
  <2>7. ScanOK'
    BY <1>1, <2>1 DEF ScanOK
  <2>8. QED
    BY <2>4, <2>5, <2>6, <2>7 DEF HeapInv
<1>2. CASE /\ pc = "begin" /\ Release("cur", first_page_id, FALSE)
           /\ Reach(FirstRid(Page("cur"))) /\ UNCHANGED <<data, table>>
  <2>1. IsHeld("cur") /\ HeldPage("cur") = first_page_id
    BY <1>0, <1>2 DEF PointerOK
  <2>2. PICK p \in 1 .. Linked : p = first_page_id
    BY <1>2, NumberFacts DEF first_page_id
  <2>3. Page("cur") = Content(p)
    BY <2>1, <2>2, CurrentPage
  <2>4. PICK r : r = RidAfter(Content(p), 0)
    OBVIOUS
  <2>5. Reach(r) /\ 0 \in Nat
    BY <1>2, <2>3, <2>4 DEF FirstRid
  <2>6. \A s \in owed : s[1] > p \/ (s[1] = p /\ s[2] > 0)
    <3>1. ASSUME NEW s \in owed PROVE s[1] \in 1 .. next_page_id - 1 /\ s[2] \in 1 .. MaxSlots
      BY <1>0, StoredFacts DEF ScanOK, Rids
    <3>2. p = 1
      BY <2>2 DEF first_page_id
    <3>3. QED
      BY <3>1, <3>2, NumberFacts, SizeAssumption
  <2>7. /\ ScanOK' /\ pc' \in {"idle", "load"}
        /\ pc' = "load" <=> cursor' # EOF
        /\ cursor' # EOF => cursor' \in Rids /\ cursor'[1] = p
    BY <1>2, <2>4, <2>5, <2>6, ReachFacts
  <2>8. SamePhase /\ Release("cur", HeldPage("cur"), FALSE)
    BY <1>2, <2>1, <2>7 DEF SamePhase
  <2>9. /\ Linked' = Linked /\ UNCHANGED next_page_id
        /\ PoolOK' /\ PagesOK' /\ TableOK' /\ ~IsHeld("cur")'
        /\ \A d \in Clients : d # "cur" => /\ IsHeld(d)' <=> IsHeld(d)
                                           /\ HeldPage(d)' = HeldPage(d)
    BY <1>0, <1>2, <2>1, <2>8, ReleaseStep
  <2>10. PointerOK' /\ ControlOK'
    <3>1. (IsHeld("new")' <=> IsHeld("new")) /\ (IsHeld("header")' <=> IsHeld("header"))
      BY <1>0, <2>9
    <3>2. QED
      BY <1>2, <2>7, <2>9, <3>1, ReachControl
  <2>11. QED
    BY <2>7, <2>9, <2>10 DEF HeapInv
<1>3. QED
  BY <1>1, <1>2 DEF Begin

\* The iterator loads its tuple.
LEMMA LoadPreserves ==
  ASSUME HeapInv, Load, PoolKeepsContract
  PROVE  HeapInv'
<1>0. Clients = {"cur", "new", "header"} /\ "cur" \in Clients /\ PointerOK /\ ControlOK /\ ScanOK
  BY ClientAssumption DEF HeapInv
<1>1. UNCHANGED <<arg, rid, nxt, cursor, table>>
  BY DEF Load
<1>2. CASE Step("load", "loaded") /\ FetchPage("cur", cursor[1]) /\ UNCHANGED owed
  <2>1. pc = "load" /\ pc' = "loaded" /\ cursor # EOF
    BY <1>0, <1>2 DEF Step, ControlOK
  <2>2. PICK p \in 1 .. Linked : p = cursor[1]
    BY <1>0, <2>1 DEF ControlOK
  <2>3. SamePhase /\ FetchPage("cur", p) /\ p \in PageIds
    BY <1>2, <2>1, <2>2, NumberFacts DEF SamePhase
  <2>4. /\ Linked' = Linked /\ UNCHANGED next_page_id
        /\ PoolOK' /\ PagesOK' /\ TableOK'
        /\ IsHeld("cur")' /\ HeldPage("cur")' = p
        /\ \A d \in Clients : d # "cur" => /\ IsHeld(d)' <=> IsHeld(d)
                                           /\ HeldPage(d)' = HeldPage(d)
    BY <1>0, <1>1, <2>3, FetchStep
  <2>5. PointerOK'
    BY <1>0, <1>1, <2>1, <2>2, <2>4 DEF PointerOK
  <2>6. ControlOK'
    BY <1>0, <1>1, <2>1, <2>4 DEF ControlOK, PCs
  <2>7. ScanOK'
    BY <1>0, <1>1, <1>2, <2>1 DEF ScanOK, Before
  <2>8. QED
    BY <2>4, <2>5, <2>6, <2>7 DEF HeapInv
<1>3. CASE /\ Step("loaded", "idle") /\ Release("cur", cursor[1], FALSE)
           /\ owed' = owed \ {cursor} /\ UNCHANGED data
  <2>1. pc = "loaded" /\ pc' = "idle" /\ cursor # EOF
    BY <1>0, <1>3 DEF Step, ControlOK
  <2>2. IsHeld("cur") /\ HeldPage("cur") = cursor[1]
    BY <1>0, <2>1 DEF PointerOK
  <2>3. SamePhase /\ Release("cur", HeldPage("cur"), FALSE) /\ UNCHANGED <<data, table>>
    BY <1>1, <1>3, <2>1, <2>2 DEF SamePhase
  <2>4. /\ Linked' = Linked /\ UNCHANGED next_page_id
        /\ PoolOK' /\ PagesOK' /\ TableOK' /\ ~IsHeld("cur")'
        /\ \A d \in Clients : d # "cur" => /\ IsHeld(d)' <=> IsHeld(d)
                                           /\ HeldPage(d)' = HeldPage(d)
    BY <1>0, <2>2, <2>3, ReleaseStep
  <2>5. PointerOK'
    BY <1>0, <2>1, <2>4 DEF PointerOK
  <2>6. ControlOK'
    BY <1>0, <1>1, <2>1, <2>4 DEF ControlOK, PCs
  <2>7. ScanOK'
    BY <1>0, <1>1, <1>3, <2>1 DEF ScanOK, Before
  <2>8. QED
    BY <2>4, <2>5, <2>6, <2>7 DEF HeapInv
<1>4. QED
  BY <1>2, <1>3 DEF Load

\* operator++ fetches the page of the tuple.
LEMMA AdvancePreserves ==
  ASSUME HeapInv, Advance, PoolKeepsContract
  PROVE  HeapInv'
<1>0. Clients = {"cur", "new", "header"} /\ "cur" \in Clients /\ PointerOK /\ ControlOK
  BY ClientAssumption DEF HeapInv
<1>1. /\ UNCHANGED <<arg, rid, nxt, cursor, owed, table>> /\ pc = "idle" /\ pc' = "advance"
      /\ cursor # EOF /\ FetchPage("cur", cursor[1])
  BY DEF Advance, scanVars, Step
<1>2. PICK p \in 1 .. Linked : p = cursor[1]
  BY <1>0, <1>1 DEF ControlOK
<1>3. SamePhase /\ FetchPage("cur", p) /\ p \in PageIds
  BY <1>1, <1>2, NumberFacts DEF SamePhase
<1>4. /\ Linked' = Linked /\ UNCHANGED next_page_id
      /\ PoolOK' /\ PagesOK' /\ TableOK'
      /\ IsHeld("cur")' /\ HeldPage("cur")' = p
      /\ \A d \in Clients : d # "cur" => /\ IsHeld(d)' <=> IsHeld(d)
                                         /\ HeldPage(d)' = HeldPage(d)
  BY <1>0, <1>1, <1>3, FetchStep
<1>5. PointerOK'
  BY <1>0, <1>1, <1>2, <1>4 DEF PointerOK
<1>6. ControlOK'
  BY <1>0, <1>1, <1>4 DEF ControlOK, PCs
<1>7. ScanOK'
  BY <1>1, ScanStays
<1>8. QED
  BY <1>4, <1>5, <1>6, <1>7 DEF HeapInv

\* What operator++ sees: the page of the tuple, and nothing owed before the tuple.
LEMMA AdvanceFacts ==
  ASSUME HeapInv, pc \in {"advance", "cross", "crossed"}
  PROVE  /\ IsHeld("cur") /\ HeldPage("cur") = cursor[1] /\ cursor \in Rids
         /\ cursor[1] \in 1 .. Linked /\ cursor[2] \in Nat
         /\ Page("cur") = Content(cursor[1])
         /\ (Page("cur").next = INVALID_PAGE_ID <=> cursor[1] = Linked)
         /\ cursor[1] # Linked => Page("cur").next = cursor[1] + 1
         /\ \A s \in owed : s[1] > cursor[1] \/ (s[1] = cursor[1] /\ s[2] > cursor[2])
<1>0. PointerOK /\ ControlOK /\ ScanOK
  BY DEF HeapInv
<1>1. /\ IsHeld("cur") /\ HeldPage("cur") = cursor[1] /\ cursor \in Rids
      /\ cursor[1] \in 1 .. Linked /\ cursor # EOF
  BY <1>0 DEF PointerOK, ControlOK
<1>2. /\ Page("cur") = Content(cursor[1])
      /\ (Page("cur").next = INVALID_PAGE_ID <=> cursor[1] = Linked)
      /\ cursor[1] # Linked => Page("cur").next = cursor[1] + 1
  BY <1>1, CurrentPage
<1>3. cursor[2] \in Nat /\ cursor[1] \in Nat
  BY <1>1, MaxPagesAssumption DEF Rids, PageIds
<1>4. ASSUME NEW s \in owed PROVE s[1] > cursor[1] \/ (s[1] = cursor[1] /\ s[2] > cursor[2])
  <2>1. Before(cursor, s) /\ s \in Rids /\ table[s] # NoTuple
    BY <1>0, <1>1 DEF ScanOK
  <2>2. s[1] \in Nat /\ s[2] \in Nat
    BY <2>1, StoredFacts
  <2>3. QED
    BY <1>3, <2>1, <2>2 DEF Before
<1>5. QED
  BY <1>1, <1>2, <1>3, <1>4

\* operator++ finds the next tuple in the page, or has seen the last page.
LEMMA AdvanceHerePreserves ==
  ASSUME HeapInv, AdvanceHere
  PROVE  HeapInv'
<1>0. Clients = {"cur", "new", "header"} /\ "cur" \in Clients
  BY ClientAssumption
<1>1. /\ pc = "advance" /\ Release("cur", cursor[1], FALSE)
      /\ Reach(RidAfter(Page("cur"), cursor[2])) /\ UNCHANGED <<data, table>>
  BY DEF AdvanceHere
<1>2. PICK p \in 1 .. Linked, i \in Nat : p = cursor[1] /\ i = cursor[2]
  BY <1>1, AdvanceFacts
<1>3. /\ IsHeld("cur") /\ HeldPage("cur") = p /\ Page("cur") = Content(p)
      /\ \A s \in owed : s[1] > p \/ (s[1] = p /\ s[2] > i)
  BY <1>1, <1>2, AdvanceFacts
<1>4. PICK r : r = RidAfter(Content(p), i)
  OBVIOUS
<1>5. Reach(r)
  BY <1>1, <1>2, <1>3, <1>4
<1>6. /\ ScanOK' /\ pc' \in {"idle", "load"}
      /\ pc' = "load" <=> cursor' # EOF
      /\ cursor' # EOF => cursor' \in Rids /\ cursor'[1] = p
  BY <1>1, <1>3, <1>4, <1>5, ReachFacts
<1>7. SamePhase /\ Release("cur", HeldPage("cur"), FALSE)
  BY <1>1, <1>2, <1>3, <1>6 DEF SamePhase
<1>8. /\ Linked' = Linked /\ UNCHANGED next_page_id
      /\ PoolOK' /\ PagesOK' /\ TableOK' /\ ~IsHeld("cur")'
      /\ \A d \in Clients : d # "cur" => /\ IsHeld(d)' <=> IsHeld(d)
                                         /\ HeldPage(d)' = HeldPage(d)
  BY <1>0, <1>1, <1>3, <1>7, ReleaseStep
<1>9. PointerOK' /\ ControlOK'
  <2>1. (IsHeld("new")' <=> IsHeld("new")) /\ (IsHeld("header")' <=> IsHeld("header"))
    BY <1>0, <1>8
  <2>2. QED
    BY <1>1, <1>6, <1>8, <2>1, ReachControl
<1>10. QED
  BY <1>6, <1>8, <1>9 DEF HeapInv

\* operator++ goes on to the next page.
LEMMA AdvanceToNextPagePreserves ==
  ASSUME HeapInv, AdvanceToNextPage, PoolKeepsContract
  PROVE  HeapInv'
<1>0. /\ Clients = {"cur", "new", "header"} /\ "cur" \in Clients /\ "new" \in Clients
      /\ PointerOK /\ ControlOK /\ ScanOK /\ PoolOK
  BY ClientAssumption DEF HeapInv
<1>1. CASE /\ Step("advance", "cross") /\ RidAfter(Page("cur"), cursor[2]) = EOF
           /\ Page("cur").next # INVALID_PAGE_ID /\ FetchPage("new", Page("cur").next)
           /\ UNCHANGED <<arg, rid, nxt, scanVars, table>>
  <2>1. pc = "advance" /\ pc' = "cross" /\ UNCHANGED <<arg, rid, nxt, cursor, owed, table>>
    BY <1>1 DEF Step, scanVars
  <2>2. PICK p \in 1 .. Linked, i \in Nat : p = cursor[1] /\ i = cursor[2]
    BY <2>1, AdvanceFacts
  <2>3. /\ Page("cur") = Content(p) /\ p # Linked /\ Page("cur").next = p + 1
        /\ \A s \in owed : s[1] > p \/ (s[1] = p /\ s[2] > i)
    BY <1>1, <2>1, <2>2, AdvanceFacts
  <2>4. p < Linked /\ p + 1 \in 1 .. Linked /\ p \in Nat
    BY <2>3, NumberFacts
  <2>5. PICK n \in PageIds : n = p + 1
    BY <2>4, NumberFacts
  <2>6. SamePhase /\ FetchPage("new", n)
    BY <1>1, <2>1, <2>3, <2>5 DEF SamePhase
  <2>7. /\ Linked' = Linked /\ UNCHANGED next_page_id
        /\ PoolOK' /\ PagesOK' /\ TableOK'
        /\ IsHeld("new")' /\ HeldPage("new")' = n
        /\ \A d \in Clients : d # "new" => /\ IsHeld(d)' <=> IsHeld(d)
                                           /\ HeldPage(d)' = HeldPage(d)
    BY <1>0, <2>1, <2>6, FetchStep
  <2>8. PointerOK'
    BY <1>0, <2>1, <2>2, <2>4, <2>5, <2>7 DEF PointerOK
  <2>9. ControlOK'
    BY <1>0, <2>1, <2>7 DEF ControlOK, PCs
  <2>10. ScanOK'
    <3>1. \A j : IsLive(Content(p), j) => j <= i
      <4>1. Content(p) \in Images /\ RidAfter(Content(p), i) = EOF
        BY <1>1, <2>2, <2>3, PageFacts
      <4>2. QED
        BY <4>1, RidFacts
    <3>2. ASSUME NEW s \in owed PROVE p < s[1]
      <4>1. s[1] \in Nat /\ s[2] \in Nat /\ IsLive(Content(s[1]), s[2])
        BY <1>0, StoredFacts DEF ScanOK
      <4>2. ~(s[1] = p /\ s[2] > i)
        BY <3>1, <4>1
      <4>3. QED
        BY <2>3, <2>4, <4>1, <4>2
    <3>3. \A s \in owed' : cursor'[1] < s[1]
      BY <2>1, <2>2, <3>2
    <3>4. cursor' # EOF /\ \A s \in owed' : Before(cursor, s)'
      BY <1>0, <2>1, <3>3 DEF ControlOK, Before
    <3>5. QED
      BY <1>0, <2>1, <3>3, <3>4 DEF ScanOK
  <2>11. QED
    BY <2>7, <2>8, <2>9, <2>10 DEF HeapInv
<1>2. CASE /\ Step("cross", "crossed") /\ nxt' = FirstRid(Page("new"))
           /\ Release("new", Page("cur").next, FALSE)
           /\ UNCHANGED <<data, arg, rid, scanVars, table>>
  <2>1. pc = "cross" /\ pc' = "crossed" /\ UNCHANGED <<data, arg, rid, cursor, owed, table>>
    BY <1>2 DEF Step, scanVars
  <2>2. /\ IsHeld("new") /\ HeldPage("new") = cursor[1] + 1 /\ cursor[1] < Linked
        /\ cursor # EOF
    BY <1>0, <2>1 DEF PointerOK, ControlOK
  <2>3. Page("cur").next = cursor[1] + 1
    <3>1. cursor[1] # Linked
      BY <2>1, <2>2, AdvanceFacts, NumberFacts
    <3>2. QED
      BY <2>1, <3>1, AdvanceFacts
  <2>4. PICK n \in PageIds : n = cursor[1] + 1 /\ n = HeldPage("new") /\ Page("new") = Content(n)
    BY <1>0, <2>2, HandleFacts DEF HeldPage
  <2>5. SamePhase /\ Release("new", HeldPage("new"), FALSE) /\ UNCHANGED <<data, table>>
    BY <1>2, <2>1, <2>2, <2>3 DEF SamePhase
  <2>6. /\ Linked' = Linked /\ UNCHANGED next_page_id /\ SameContent
        /\ PoolOK' /\ PagesOK' /\ TableOK' /\ ~IsHeld("new")'
        /\ \A d \in Clients : d # "new" => /\ IsHeld(d)' <=> IsHeld(d)
                                           /\ HeldPage(d)' = HeldPage(d)
    BY <1>0, <2>2, <2>5, ReleaseStep
  <2>7. nxt' = FirstRid(Content(cursor[1] + 1))'
    <3>1. Content(n)' = Content(n)
      BY <2>6 DEF SameContent
    <3>2. nxt' = FirstRid(Content(n)')
      BY <1>2, <2>4, <3>1
    <3>3. n = cursor'[1] + 1
      BY <2>1, <2>4
    <3>4. QED
      BY <3>2, <3>3 DEF FirstRid, RidAfter, LiveSlots, Content, InTable, Lookup, OnDisk
  <2>8. PointerOK'
    BY <1>0, <2>1, <2>2, <2>6 DEF PointerOK
  <2>9. ControlOK'
    BY <1>0, <2>1, <2>2, <2>6, <2>7 DEF ControlOK, PCs
  <2>10. ScanOK'
    BY <1>0, <2>1 DEF ScanOK, Before
  <2>11. QED
    BY <2>6, <2>8, <2>9, <2>10 DEF HeapInv
<1>3. CASE /\ pc = "crossed" /\ Release("cur", cursor[1], FALSE) /\ Reach(nxt)
           /\ UNCHANGED <<data, table>>
  <2>1. /\ IsHeld("cur") /\ HeldPage("cur") = cursor[1] /\ cursor[1] \in 1 .. Linked
        /\ cursor[1] < Linked /\ nxt = FirstRid(Content(cursor[1] + 1))
    BY <1>0, <1>3, AdvanceFacts DEF ControlOK
  <2>2. PICK p \in 1 .. Linked : p = cursor[1] + 1
    BY <2>1, NumberFacts
  <2>3. PICK r : r = RidAfter(Content(p), 0)
    OBVIOUS
  <2>4. Reach(r) /\ 0 \in Nat
    BY <1>3, <2>1, <2>2, <2>3 DEF FirstRid
  <2>5. \A s \in owed : s[1] > p \/ (s[1] = p /\ s[2] > 0)
    <3>1. ASSUME NEW s \in owed PROVE s[1] > p \/ (s[1] = p /\ s[2] > 0)
      <4>1. s[1] \in Nat /\ s[2] \in 1 .. MaxSlots /\ cursor[1] < s[1]
        BY <1>0, <1>3, StoredFacts DEF ScanOK, Rids
      <4>2. QED
        BY <2>1, <2>2, <4>1, NumberFacts, SizeAssumption
    <3>2. QED
      BY <3>1
  <2>6. /\ ScanOK' /\ pc' \in {"idle", "load"}
        /\ pc' = "load" <=> cursor' # EOF
        /\ cursor' # EOF => cursor' \in Rids /\ cursor'[1] = p
    BY <1>3, <2>3, <2>4, <2>5, ReachFacts
  <2>7. SamePhase /\ Release("cur", HeldPage("cur"), FALSE)
    BY <1>3, <2>1, <2>6 DEF SamePhase
  <2>8. /\ Linked' = Linked /\ UNCHANGED next_page_id
        /\ PoolOK' /\ PagesOK' /\ TableOK' /\ ~IsHeld("cur")'
        /\ \A d \in Clients : d # "cur" => /\ IsHeld(d)' <=> IsHeld(d)
                                           /\ HeldPage(d)' = HeldPage(d)
    BY <1>0, <1>3, <2>1, <2>7, ReleaseStep
  <2>9. PointerOK' /\ ControlOK'
    <3>1. (IsHeld("new")' <=> IsHeld("new")) /\ (IsHeld("header")' <=> IsHeld("header"))
      BY <1>0, <2>8
    <3>2. QED
      BY <1>3, <2>6, <2>8, <3>1, ReachControl
  <2>10. QED
    BY <2>6, <2>8, <2>9 DEF HeapInv
<1>4. QED
  BY <1>1, <1>2, <1>3 DEF AdvanceToNextPage

-----------------------------------------------------------------------------
(* The theorems.                                                           *)

\* Initially there is no page and no operation is under way.
LEMMA InitHeapInv == HeapInit => HeapInv
<1> SUFFICES ASSUME HeapInit PROVE HeapInv
  OBVIOUS
<1>1. /\ Init /\ pc = "start" /\ cursor = EOF /\ owed = {}
      /\ table = [r \in Rids |-> NoTuple] /\ next_page_id = 0 /\ live = {}
      /\ handle = [c \in Clients |-> NoHandle] /\ pin_count = [f \in Frames |-> 0]
  BY DEF HeapInit, Init, DiskInit
<1>2. PoolInv
  BY <1>1, InitPoolInv
<1>3. Clients = {"cur", "new", "header"}
  BY ClientAssumption
<1>4. \A c \in Clients : handle[c] = NoHandle
  BY <1>1
<1>5. PinsOK
  <2>1. ASSUME NEW f \in Frames
        PROVE  Held("cur", f) = 0 /\ Held("new", f) = 0 /\ Held("header", f) = 0
    BY <1>3, <1>4, PoolIsNotEmpty DEF Held, NoHandle, Frames
  <2>2. QED
    BY <1>1, <2>1 DEF PinsOK
<1>6. PointersOK
  BY <1>4 DEF PointersOK
<1>7. Linked = 0
  BY <1>1 DEF Linked
<1>8. PagesOK
  <2>1. live = 0 .. next_page_id - 1
    BY <1>1
  <2>2. 1 .. Linked = {} /\ 1 .. next_page_id - 1 = {}
    BY <1>1, <1>7
  <2>3. QED
    BY <2>1, <2>2 DEF PagesOK
<1>9. PointerOK
  BY <1>1, <1>3, <1>4 DEF PointerOK, IsHeld
<1>10. ControlOK
  BY <1>1 DEF ControlOK, PCs
<1>11. TableOK
  <2>1. HeapPages = {}
    BY <1>1 DEF HeapPages
  <2>2. \A r \in Rids : Stored(r) = NoTuple
    BY <2>1 DEF Stored
  <2>3. QED
    BY <1>1, <2>2 DEF TableOK
<1>12. ScanOK
  BY <1>1 DEF ScanOK
<1>13. QED
  BY <1>2, <1>5, <1>6, <1>8, <1>9, <1>10, <1>11, <1>12 DEF HeapInv, PoolOK

\* Every operation preserves the invariant on a pool that keeps its contract.
LEMMA OperationPreserves ==
  ASSUME HeapInv, Operation, PoolKeepsContract
  PROVE  HeapInv'
<1>1. CASE Create
  BY <1>1, CreatePreserves
<1>2. CASE Connect
  BY <1>2, ConnectPreserves
<1>3. CASE Disconnect
  BY <1>3, DisconnectPreserves
<1>4. CASE \E t \in Tuples : InsertTuple(t)
  BY <1>4, InsertTuplePreserves
<1>5. CASE InsertHere
  BY <1>5, InsertHerePreserves
<1>6. CASE InsertGoesOn
  BY <1>6, InsertGoesOnPreserves
<1>7. CASE InsertNewPage
  BY <1>7, InsertNewPagePreserves
<1>8. CASE InsertLink
  BY <1>8, InsertLinkPreserves
<1>9. CASE \E r \in Rids : DeleteTuple(r) \/ GetTuple(r)
  <2>1. PICK r \in Rids : DeleteTuple(r) \/ GetTuple(r)
    BY <1>9
  <2>2. Call("delete", r) \/ Call("get", r)
    BY <2>1 DEF DeleteTuple, GetTuple
  <2>3. QED
    BY <2>2, CallPreserves
<1>10. CASE \E r \in Rids, t \in Tuples : UpdateTuple(t, r)
  <2>1. PICK r \in Rids, t \in Tuples : UpdateTuple(t, r)
    BY <1>10
  <2>2. Call("update", r) /\ arg' \in Tuples
    BY <2>1 DEF UpdateTuple
  <2>3. QED
    BY <2>2, CallPreserves
<1>11. CASE DeleteInPage
  BY <1>11, DeleteInPagePreserves
<1>12. CASE UpdateInPage
  BY <1>12, UpdateInPagePreserves
<1>13. CASE GetInPage
  BY <1>13, GetInPagePreserves
<1>14. CASE Begin
  BY <1>14, BeginPreserves
<1>15. CASE Load
  BY <1>15, LoadPreserves
<1>16. CASE Advance
  BY <1>16, AdvancePreserves
<1>17. CASE AdvanceHere
  BY <1>17, AdvanceHerePreserves
<1>18. CASE AdvanceToNextPage
  BY <1>18, AdvanceToNextPagePreserves
<1>19. QED
  BY <1>1, <1>2, <1>3, <1>4, <1>5, <1>6, <1>7, <1>8, <1>9, <1>10, <1>11, <1>12, <1>13,
     <1>14, <1>15, <1>16, <1>17, <1>18 DEF Operation

\* Nothing changes, and the invariant stays.
LEMMA StutterKeepsHeap ==
  ASSUME Inv, UNCHANGED heapVars
  PROVE  Inv'
<1>1. UNCHANGED <<page_id, pin_count, is_dirty, data, db_file, next_page_id, page_table,
                  replacer, free_list, handle, live>>
  BY DEF heapVars, poolVars, vars, frameVars, diskVars, clientVars
<1>2. UNCHANGED <<pc, arg, rid, nxt, cursor, owed, table, broken>>
  BY DEF heapVars, opVars, scanVars
<1> SUFFICES ASSUME HeapInv PROVE HeapInv'
  BY <1>2 DEF Inv
<1>3. PoolOK'
  BY <1>1 DEF HeapInv, PoolOK, PoolInv, TypeOK, TableMatchesFrames, FreeFramesAreBlank,
              IdleFramesAreReplaceable, Has, PinsOK, PointersOK, Held
<1>4. \A q : Content(q)' = Content(q)
  BY <1>1 DEF Content, InTable, Lookup, OnDisk
<1>5. Linked' = Linked
  BY <1>1, <1>2 DEF Linked
<1>6. PagesOK' /\ TableOK'
  BY <1>1, <1>2, <1>4, <1>5, QuietStep
<1>7. PointerOK'
  BY <1>1, <1>2, <1>5 DEF HeapInv, PointerOK, IsHeld, HeldPage
<1>8. ControlOK'
  <2>1. nxt = FirstRid(Content(cursor[1] + 1)) => nxt' = FirstRid(Content(cursor[1] + 1))'
    BY <1>1, <1>2 DEF FirstRid, RidAfter, LiveSlots, Content, InTable, Lookup, OnDisk
  <2>2. QED
    BY <1>1, <1>2, <1>5, <2>1 DEF HeapInv, ControlOK
<1>9. ScanOK'
  BY <1>2 DEF HeapInv, ScanOK, Before
<1>10. QED
  BY <1>3, <1>6, <1>7, <1>8, <1>9 DEF HeapInv

\* The invariant of the table heap, up to the first time that the pool gives away a
\* frame in use or loses what was in it.
THEOREM HeapInvariant == ContractSpec => []Inv
<1>1. HeapInit => Inv
  BY InitHeapInv DEF Inv
<1>2. Inv /\ [ContractNext]_heapVars => Inv'
  <2> SUFFICES ASSUME Inv, [ContractNext]_heapVars PROVE Inv'
    OBVIOUS
  <2>1. CASE UNCHANGED heapVars
    BY <2>1, StutterKeepsHeap
  <2>2. CASE ~broken /\ HeapNext
    <3> SUFFICES ASSUME ~broken' PROVE HeapInv'
      BY DEF Inv
    <3>1. PoolKeepsContract /\ Operation /\ HeapInv
      BY <2>2 DEF HeapNext, Inv
    <3>2. QED
      BY <3>1, OperationPreserves
  <2>3. QED
    BY <2>1, <2>2 DEF ContractNext
<1>3. QED
  BY <1>1, <1>2, PTL DEF ContractSpec

\* Between operations of TableHeap and TableIterator no frame is pinned: every
\* path through an operation unpins each page it fetched exactly once.
THEOREM PinsAreGivenBack == ContractSpec => []NoPinIsLeft
<1>1. Inv => NoPinIsLeft
  <2> SUFFICES ASSUME HeapInv, pc = "idle", NEW f \in Frames PROVE pin_count[f] = 0
    BY DEF Inv, NoPinIsLeft, AtRest
  <2>1. \A c \in Clients : ~IsHeld(c)
    BY ClientAssumption DEF HeapInv, PointerOK
  <2>2. \A c \in Clients : handle[c].frame = 0
    BY <2>1 DEF IsHeld, NoHandle
  <2>3. f # 0
    BY PoolIsNotEmpty DEF Frames
  <2>4. Held("cur", f) = 0 /\ Held("new", f) = 0 /\ Held("header", f) = 0
    BY <2>2, <2>3, ClientAssumption DEF Held
  <2>5. QED
    BY <2>4 DEF HeapInv, PoolOK, PinsOK
<1>2. QED
  BY <1>1, HeapInvariant, PTL

\* While the pool keeps its contract, a frame that none of the pointers holds
\* can be had again, so that FetchPage and NewPage find one for the table.
THEOREM FramesStayInReach == ContractSpec => [](~broken => NoFrameIsLost)
<1>1. Inv => (~broken => NoFrameIsLost)
  <2> SUFFICES ASSUME HeapInv, NEW f \in Frames, HeldBy(f) = {}
               PROVE  Has(free_list, f) \/ Has(replacer, f)
    BY DEF Inv, NoFrameIsLost
  <2>1. Held("cur", f) = 0 /\ Held("new", f) = 0 /\ Held("header", f) = 0
    BY ClientAssumption DEF HeldBy, Held
  <2>2. PoolInv /\ pin_count[f] = 0
    BY <2>1 DEF HeapInv, PoolOK, PinsOK
  <2> QED
    BY <2>2 DEF PoolInv, FreeFramesAreBlank, IdleFramesAreReplaceable
<1> QED
  BY <1>1, HeapInvariant, PTL

\* The pages that InsertTuple links into the table form a doubly linked list that
\* starts at first_page_id, wherever the pages are, in the pool or on disk.
THEOREM PagesAreLinked == ContractSpec => []ListIsLinked
<1>1. Inv => ListIsLinked
  <2> SUFFICES ASSUME HeapInv, pc = "idle" PROVE IsDoublyLinkedList
    BY DEF Inv, ListIsLinked, AtRest
  <2>1. /\ Linked = next_page_id - 1 /\ Linked >= 1 /\ Linked \in Nat
        /\ HeapPages = 1 .. Linked
    BY NumberFacts
  <2>2. ASSUME NEW p \in HeapPages
        PROVE  /\ Content(p).id = p
               /\ Content(p).prev = IF p = first_page_id THEN INVALID_PAGE_ID ELSE p - 1
               /\ Content(p).next = IF p = Linked THEN INVALID_PAGE_ID ELSE p + 1
    BY <2>1, PageFacts
  <2>3. Content(first_page_id).prev = INVALID_PAGE_ID
    BY <2>1, <2>2 DEF first_page_id
  <2>4. ASSUME NEW p \in HeapPages, Content(p).next # INVALID_PAGE_ID
        PROVE  Content(p).next \in HeapPages /\ Content(Content(p).next).prev = p
    <3>1. p # Linked /\ p + 1 \in HeapPages /\ Content(p).next = p + 1
      BY <2>1, <2>2, <2>4
    <3>2. PICK n \in HeapPages : n = p + 1
      BY <3>1
    <3>3. Content(n).prev = p
      BY <2>1, <2>2, <3>2 DEF first_page_id
    <3>4. QED
      BY <3>1, <3>2, <3>3
  <2>5. ASSUME NEW p \in HeapPages, p # first_page_id
        PROVE  Content(p).prev \in HeapPages /\ Content(Content(p).prev).next = p
    <3>1. p - 1 \in HeapPages /\ Content(p).prev = p - 1
      BY <2>1, <2>2, <2>5 DEF first_page_id
    <3>2. PICK n \in HeapPages : n = p - 1
      BY <3>1
    <3>3. Content(n).next = p
      BY <2>1, <2>2, <3>2
    <3>4. QED
      BY <3>1, <3>2, <3>3
  <2>6. \E p \in HeapPages : Content(p).next = INVALID_PAGE_ID
    <3>1. Linked \in HeapPages
      BY <2>1
    <3>2. QED
      BY <2>2, <3>1
  <2>7. QED
    BY <2>2, <2>3, <2>4, <2>5, <2>6 DEF IsDoublyLinkedList
<1>2. QED
  BY <1>1, HeapInvariant, PTL

\* A tuple that InsertTuple or UpdateTuple has stored is under its rid until it is
\* updated or deleted, through every eviction, and nothing else is in the table.
THEOREM TuplesAreKept == ContractSpec => []TableIsIntact
<1>1. Inv => TableIsIntact
  BY DEF Inv, TableIsIntact, AtRest, HeapInv, TableOK, Stored
<1>2. QED
  BY <1>1, HeapInvariant, PTL

\* InsertTuple never returns the rid of a tuple that is in the table.
THEOREM RidsAreFresh == ContractSpec => InsertReturnsFreshRid
<1>1. Inv /\ [ContractNext]_heapVars => [InsertHere => table[NewRid] = NoTuple]_heapVars
  <2> SUFFICES ASSUME Inv, ~broken, InsertHere PROVE table[NewRid] = NoTuple
    BY DEF ContractNext
  <2>1. HeapInv /\ pc = "insert" /\ Fits(Page("cur"), arg)
    BY DEF Inv, InsertHere
  <2>2. QED
    BY <2>1, SlotIsFree
<1>2. QED
  BY <1>1, HeapInvariant, PTL DEF ContractSpec, InsertReturnsFreshRid

\* A scan that no empty page stops has returned every tuple that was in the table
\* from its beginning to its end.
THEOREM ScansAreComplete == ContractSpec => ScanIsComplete
<1> DEFINE Full == \A p \in HeapPages : LiveSlots(Content(p)) # {}
           Ends == pc \in {"begin", "advance", "crossed"} /\ pc' = "idle"
<1>1. ASSUME HeapInv, Operation, Ends, Full PROVE owed = {}
  <2>0. ScanOK /\ ControlOK
    BY <1>1 DEF HeapInv
  <2>1. /\ Linked = next_page_id - 1 /\ Linked >= 1 /\ Linked \in Nat /\ HeapPages = 1 .. Linked
    BY <1>1, NumberFacts
  <2>2. ASSUME NEW p \in 1 .. Linked PROVE FirstRid(Content(p)) # EOF
    <3>1. Content(p) \in Images
      BY <1>1, PageFacts
    <3>2. PICK i : i \in LiveSlots(Content(p))
      BY <1>1, <2>1
    <3>3. IsLive(Content(p), i) /\ i \in Nat /\ ~(i <= 0)
      BY <3>1, <3>2, LiveFacts
    <3>4. QED
      BY <3>1, <3>3, RidFacts DEF FirstRid
  <2>3. CASE pc = "begin"
    <3>1. Reach(FirstRid(Page("cur")))
      BY <1>1, <2>3 DEF Operation, Create, Connect, Disconnect, InsertTuple, InsertHere,
           InsertGoesOn, InsertNewPage, InsertLink, DeleteTuple, GetTuple, UpdateTuple, Call,
           DeleteInPage, UpdateInPage, GetInPage, Begin, Load, Advance, AdvanceHere,
           AdvanceToNextPage, Step
    <3>2. Page("cur") = Content(1)
      <4>1. IsHeld("cur") /\ HeldPage("cur") = 1
        BY <1>1, <2>3 DEF HeapInv, PointerOK, first_page_id
      <4>2. QED
        BY <1>1, <2>1, <4>1, CurrentPage
    <3>3. FirstRid(Page("cur")) # EOF
      BY <2>1, <2>2, <3>2
    <3>4. QED
      BY <1>1, <3>1, <3>3 DEF Reach
  <2>4. CASE pc = "advance"
    <3>1. AdvanceHere
      BY <1>1, <2>4 DEF Operation, Create, Connect, Disconnect, InsertTuple, InsertHere,
           InsertGoesOn, InsertNewPage, InsertLink, DeleteTuple, GetTuple, UpdateTuple, Call,
           DeleteInPage, UpdateInPage, GetInPage, Begin, Load, Advance, AdvanceToNextPage, Step
    <3>2. /\ RidAfter(Page("cur"), cursor[2]) = EOF
          /\ Page("cur").next = INVALID_PAGE_ID
      BY <1>1, <3>1 DEF AdvanceHere, Reach
    <3>3. PICK p \in 1 .. Linked, i \in Nat : p = cursor[1] /\ i = cursor[2]
      BY <1>1, <2>4, AdvanceFacts
    <3>4. /\ Page("cur") = Content(p) /\ p = Linked
          /\ \A s \in owed : s[1] > p \/ (s[1] = p /\ s[2] > i)
      BY <1>1, <2>4, <3>2, <3>3, AdvanceFacts
    <3>5. \A j : IsLive(Content(p), j) => j <= i
      <4>1. Content(p) \in Images /\ RidAfter(Content(p), i) = EOF
        BY <1>1, <3>2, <3>3, <3>4, PageFacts
      <4>2. QED
        BY <4>1, RidFacts
    <3>6. ASSUME NEW s \in owed PROVE FALSE
      <4>1. /\ s[1] \in Nat /\ s[2] \in Nat /\ IsLive(Content(s[1]), s[2])
            /\ s[1] \in 1 .. next_page_id - 1
        BY <1>1, <2>0, StoredFacts DEF ScanOK
      <4>2. s[1] = p /\ s[2] > i
        BY <2>1, <3>4, <4>1
      <4>3. QED
        BY <3>5, <4>1, <4>2
    <3>7. QED
      BY <3>6
  <2>5. CASE pc = "crossed"
    <3>1. Reach(nxt)
      BY <1>1, <2>5 DEF Operation, Create, Connect, Disconnect, InsertTuple, InsertHere,
           InsertGoesOn, InsertNewPage, InsertLink, DeleteTuple, GetTuple, UpdateTuple, Call,
           DeleteInPage, UpdateInPage, GetInPage, Begin, Load, Advance, AdvanceHere,
           AdvanceToNextPage, Step
    <3>2. cursor[1] < Linked /\ cursor[1] \in 1 .. Linked
          /\ nxt = FirstRid(Content(cursor[1] + 1))
      BY <1>1, <2>0, <2>5, AdvanceFacts DEF ControlOK
    <3>3. PICK p \in 1 .. Linked : p = cursor[1] + 1
      BY <2>1, <3>2
    <3>4. nxt # EOF
      BY <2>2, <3>2, <3>3
    <3>5. QED
      BY <1>1, <3>1, <3>4 DEF Reach
  <2>6. QED
    BY <1>1, <2>3, <2>4, <2>5
<1>2. Inv /\ [ContractNext]_heapVars => [Ends /\ Full => owed = {}]_heapVars
  <2> SUFFICES ASSUME Inv, ~broken, HeapNext, Ends, Full PROVE owed = {}
    BY DEF ContractNext
  <2>1. HeapInv /\ Operation
    BY DEF Inv, HeapNext
  <2>2. QED
    BY <1>1, <2>1
<1>3. QED
  BY <1>2, HeapInvariant, PTL DEF ContractSpec, ScanIsComplete
=============================================================================
