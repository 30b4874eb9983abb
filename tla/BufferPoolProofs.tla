--------------------------- MODULE BufferPoolProofs ---------------------------
(***************************************************************************)
(* Proofs about BufferPoolManager for every pool of up to TableBucketSize  *)
(* frames, every number of pages and every finite set of clients.          *)
(***************************************************************************)
EXTENDS BufferPoolManager, SequenceTheorems, FiniteSetTheorems, TLAPS

\* The constructor makes at least one frame.
LEMMA PoolIsNotEmpty == PoolSize \in Nat \ {0}
  BY PoolSizeAssumption DEF TableBucketSize

-----------------------------------------------------------------------------
(* The lists of the pool.                                                  *)

\* A list without its head has the other elements of the list, and the head
\* only if it occurs again.
LEMMA TailHas ==
  ASSUME NEW S, NEW s \in Seq(S), s # <<>>
  PROVE  /\ Head(s) \in S
         /\ Tail(s) \in Seq(S)
         /\ Has(s, Head(s))
         /\ \A f : Has(s, f) /\ f # Head(s) => Has(Tail(s), f)
         /\ \A f : Has(Tail(s), f) => Has(s, f)
<1>1. Len(s) \in Nat \ {0} /\ s \in [1 .. Len(s) -> S]
  OBVIOUS
<1>2. Head(s) = s[1] /\ Head(s) \in S
  BY <1>1
<1>3. Tail(s) \in Seq(S) /\ DOMAIN Tail(s) = 1 .. Len(s) - 1
  OBVIOUS
<1>4. \A i \in 1 .. Len(s) - 1 : Tail(s)[i] = s[i + 1]
  OBVIOUS
<1>5. Has(s, Head(s))
  BY <1>1, <1>2 DEF Has
<1>6. ASSUME NEW f, Has(s, f), f # Head(s) PROVE Has(Tail(s), f)
  <2>1. PICK i \in 1 .. Len(s) : s[i] = f
    BY <1>1, <1>6 DEF Has
  <2>2. i - 1 \in 1 .. Len(s) - 1 /\ Tail(s)[i - 1] = f
    BY <1>1, <1>2, <1>4, <1>6, <2>1
  <2> QED
    BY <1>3, <2>2 DEF Has
<1>7. ASSUME NEW f, Has(Tail(s), f) PROVE Has(s, f)
  <2>1. PICK i \in 1 .. Len(s) - 1 : Tail(s)[i] = f
    BY <1>3, <1>7 DEF Has
  <2> QED
    BY <1>1, <1>4, <2>1 DEF Has
<1> QED
  BY <1>2, <1>3, <1>5, <1>6, <1>7

\* No element of a list without repetition occurs again in its tail.
LEMMA TailDistinct ==
  ASSUME NEW S, NEW s \in Seq(S), s # <<>>,
         \A i, j \in DOMAIN s : s[i] = s[j] => i = j
  PROVE  /\ \A i, j \in DOMAIN Tail(s) : Tail(s)[i] = Tail(s)[j] => i = j
         /\ ~Has(Tail(s), Head(s))
<1>1. /\ Len(s) \in Nat \ {0} /\ DOMAIN s = 1 .. Len(s)
      /\ DOMAIN Tail(s) = 1 .. Len(s) - 1
      /\ \A i \in 1 .. Len(s) - 1 : Tail(s)[i] = s[i + 1]
      /\ Head(s) = s[1]
  OBVIOUS
<1> QED
  BY <1>1 DEF Has

\* Append adds one element to the list.
LEMMA AppendHas ==
  ASSUME NEW S, NEW s \in Seq(S), NEW e \in S
  PROVE  /\ Append(s, e) \in Seq(S)
         /\ \A f : Has(Append(s, e), f) <=> Has(s, f) \/ f = e
         /\ (\A i, j \in DOMAIN s : s[i] = s[j] => i = j) /\ ~Has(s, e)
              => \A i, j \in DOMAIN Append(s, e) :
                   Append(s, e)[i] = Append(s, e)[j] => i = j
<1>1. /\ Len(s) \in Nat /\ DOMAIN s = 1 .. Len(s)
      /\ DOMAIN Append(s, e) = 1 .. Len(s) + 1
      /\ \A i \in 1 .. Len(s) : Append(s, e)[i] = s[i]
      /\ Append(s, e)[Len(s) + 1] = e
  OBVIOUS
<1>2. Append(s, e) \in Seq(S)
  OBVIOUS
<1>3. ASSUME NEW f PROVE Has(Append(s, e), f) <=> Has(s, f) \/ f = e
  BY <1>1 DEF Has
<1>4. ASSUME \A i, j \in DOMAIN s : s[i] = s[j] => i = j, ~Has(s, e)
      PROVE  \A i, j \in DOMAIN Append(s, e) :
               Append(s, e)[i] = Append(s, e)[j] => i = j
  BY <1>1, <1>4 DEF Has
<1> QED
  BY <1>2, <1>3, <1>4

\* Erase keeps every other element.
LEMMA EraseHas ==
  ASSUME NEW S, NEW s \in Seq(S), NEW e
  PROVE  /\ Erase(s, e) \in Seq(S)
         /\ \A f : Has(s, f) /\ f # e => Has(Erase(s, e), f)
<1>1. CASE ~Has(s, e)
  BY <1>1 DEF Erase
<1>2. CASE Has(s, e)
  <2> DEFINE k == CHOOSE i \in DOMAIN s : s[i] = e
             r == [j \in 1 .. Len(s) - 1 |-> IF j < k THEN s[j] ELSE s[j + 1]]
  <2>1. Len(s) \in Nat /\ DOMAIN s = 1 .. Len(s) /\ s \in [1 .. Len(s) -> S]
    OBVIOUS
  <2>2. k \in 1 .. Len(s) /\ s[k] = e
    BY <1>2, <2>1 DEF Has
  <2>3. Erase(s, e) = r
    BY <1>2 DEF Erase
  <2> HIDE DEF k
  <2>4. r \in Seq(S)
    <3>1. Len(s) - 1 \in Nat
      BY <2>1, <2>2
    <3>2. r \in [1 .. Len(s) - 1 -> S]
      BY <2>1, <2>2
    <3> QED
      BY <3>1, <3>2, SeqDef
  <2>5. ASSUME NEW f, Has(s, f), f # e PROVE Has(r, f)
    <3>1. PICK i \in 1 .. Len(s) : s[i] = f
      BY <2>1, <2>5 DEF Has
    <3>2. CASE i < k
      <4>1. i \in DOMAIN r /\ r[i] = f
        BY <2>1, <2>2, <3>1, <3>2
      <4> QED
        BY <4>1 DEF Has
    <3>3. CASE i > k
      <4>1. i - 1 \in DOMAIN r /\ r[i - 1] = f
        BY <2>1, <2>2, <3>1, <3>3
      <4> QED
        BY <4>1 DEF Has
    <3> QED
      BY <2>1, <2>2, <2>5, <3>1, <3>2, <3>3
  <2> QED
    BY <2>3, <2>4, <2>5
<1> QED
  BY <1>1, <1>2

-----------------------------------------------------------------------------
\* What a step that takes a frame may rely on: the frame comes from the free
\* list exactly when it holds no page, and no other frame leaves a list.
LEMMA TakenFrame ==
  ASSUME PoolInv, TakeFrame
  PROVE  LET f == ChosenFrame
         IN  /\ f \in Frames
             /\ free_list # <<>> <=> page_id[f] = INVALID_PAGE_ID
             /\ free_list' \in Seq(Frames)
             /\ replacer' \in Seq(Frames)
             /\ \A i, j \in DOMAIN free_list' : free_list'[i] = free_list'[j] => i = j
             /\ \A g : Has(free_list', g) <=> Has(free_list, g) /\ g # f
             /\ \A g : Has(replacer, g) /\ g # f => Has(replacer', g)
<1>1. free_list \in Seq(Frames) /\ replacer \in Seq(Frames)
  BY DEF PoolInv, TypeOK
<1>2. \A g \in Frames : page_id[g] = INVALID_PAGE_ID <=> Has(free_list, g)
  BY DEF PoolInv, FreeFramesAreBlank
<1>3. \A i, j \in DOMAIN free_list : free_list[i] = free_list[j] => i = j
  BY DEF PoolInv, FreeFramesAreBlank
<1>4. CASE free_list # <<>>
  <2>1. ChosenFrame = Head(free_list) /\ free_list' = Tail(free_list) /\ replacer' = replacer
    BY <1>4 DEF TakeFrame, ChosenFrame
  <2> QED
    BY <1>1, <1>2, <1>3, <1>4, <2>1, TailHas, TailDistinct
<1>5. CASE free_list = <<>>
  <2>1. /\ replacer # <<>>
        /\ ChosenFrame = Head(replacer)
        /\ replacer' = Tail(replacer)
        /\ free_list' = free_list
    BY <1>5 DEF TakeFrame, ChosenFrame
  <2>2. \A g : ~Has(free_list, g)
    BY <1>5 DEF Has
  <2> QED
    BY <1>1, <1>2, <1>3, <1>5, <2>1, <2>2, TailHas
<1> QED
  BY <1>4, <1>5

\* The table after a frame f has changed from its old page, if any, to p.
LEMMA FrameChangesPage ==
  ASSUME PoolInv, NEW f \in Frames, NEW p \in PageIds, ~InTable(p),
         page_id' = [page_id EXCEPT ![f] = p],
         page_table' = TableInsert(TableRemove(page_table, page_id[f]), p, f)
  PROVE  /\ TableMatchesFrames'
         /\ page_table' \in [PageIds -> Seq(Frames)]
         /\ page_id' \in [Frames -> PageIds \cup {INVALID_PAGE_ID}]
<1> DEFINE old == page_id[f]
           mid == TableRemove(page_table, old)
<1>1. /\ page_id \in [Frames -> PageIds \cup {INVALID_PAGE_ID}]
      /\ page_table \in [PageIds -> Seq(Frames)]
  BY DEF PoolInv, TypeOK
<1>2. page_table[p] = <<>> /\ \A g \in Frames : page_id[g] # p
  BY DEF InTable, PoolInv, TableMatchesFrames
<1>3. \A g \in Frames : page_id'[g] = IF g = f THEN p ELSE page_id[g]
  BY <1>1
<1>4. mid \in [PageIds -> Seq(Frames)]
  BY <1>1, TailHas DEF TableRemove
<1>5. \A q \in PageIds \ {old} : mid[q] = page_table[q]
  BY DEF TableRemove
<1>6. old \in PageIds => mid[old] = <<>> /\ page_table[old] = <<f>>
  <2> SUFFICES ASSUME old \in PageIds PROVE mid[old] = <<>> /\ page_table[old] = <<f>>
    OBVIOUS
  <2>1. page_table[old] = <<f>>
    BY DEF PoolInv, TableMatchesFrames
  <2>2. <<f>> # <<>> /\ Tail(<<f>>) = <<>>
    OBVIOUS
  <2>3. mid[old] = IF page_table[old] # <<>> THEN Tail(page_table[old]) ELSE page_table[old]
    BY DEF TableRemove
  <2> QED
    BY <2>1, <2>2, <2>3
<1> HIDE DEF mid
<1>7. mid[p] = <<>>
  BY <1>2, <1>5
<1>8. page_table' = [mid EXCEPT ![p] = Append(@, f)]
  BY DEF TableInsert, mid
<1>9. page_table'[p] = <<f>> /\ \A q \in PageIds \ {p} : page_table'[q] = mid[q]
  BY <1>4, <1>7, <1>8
<1>10. page_table' \in [PageIds -> Seq(Frames)]
  BY <1>4, <1>8, AppendHas
<1>11. TableMatchesFrames'
  <2> SUFFICES ASSUME NEW q \in PageIds
               PROVE  \/ page_table'[q] = <<>> /\ \A g \in Frames : page_id'[g] # q
                      \/ \E h \in Frames : /\ page_table'[q] = <<h>>
                                          /\ \A g \in Frames : page_id'[g] = q <=> g = h
    BY DEF TableMatchesFrames
  <2>1. CASE q = p
    BY <1>2, <1>3, <1>9, <2>1
  <2>2. CASE q # p /\ q = old
    <3>1. page_table'[q] = <<>>
      BY <1>6, <1>9, <2>2
    <3>2. \A g \in Frames : page_id[g] = q <=> g = f
      <4>1. PICK h \in Frames : /\ page_table[q] = <<h>>
                                /\ \A g \in Frames : page_id[g] = q <=> g = h
        BY <1>6, <2>2 DEF PoolInv, TableMatchesFrames
      <4> QED
        BY <2>2, <4>1
    <3> QED
      BY <1>3, <2>2, <3>1, <3>2
  <2>3. CASE q # p /\ q # old
    <3>1. page_table'[q] = page_table[q]
      BY <1>5, <1>9, <2>3
    <3>2. \A g \in Frames : page_id'[g] = q <=> page_id[g] = q
      BY <1>3, <2>3
    <3> QED
      BY <3>1, <3>2 DEF PoolInv, TableMatchesFrames
  <2> QED
    BY <2>1, <2>2, <2>3
<1> QED
  BY <1>1, <1>10, <1>11

\* A page in the table is in the frame the table names.
LEMMA LookupFrame ==
  ASSUME PoolInv, NEW p, InTable(p)
  PROVE  /\ Lookup(p) \in Frames
         /\ page_table[p] = <<Lookup(p)>>
         /\ \A g \in Frames : page_id[g] = p <=> g = Lookup(p)
<1>1. PICK f \in Frames : /\ page_table[p] = <<f>>
                          /\ \A g \in Frames : page_id[g] = p <=> g = f
  BY DEF InTable, PoolInv, TableMatchesFrames
<1>2. Lookup(p) = f
  BY <1>1 DEF Lookup
<1> QED
  BY <1>1, <1>2

\* Writing a page leaves a file of pages.
LEMMA WritePageType ==
  ASSUME NEW file \in [PageIds -> Contents \cup {Absent}], NEW p, NEW d \in Contents
  PROVE  WritePage(file, p, d) \in [PageIds -> Contents \cup {Absent}]
  BY ContentsAssumption DEF WritePage

\* Initially all frames are free.
LEMMA InitPoolInv == Init => PoolInv
<1> SUFFICES ASSUME Init PROVE PoolInv
  OBVIOUS
<1> USE DEF Init, DiskInit
<1>1. free_list \in Seq(Frames) /\ DOMAIN free_list = Frames /\ \A f \in Frames : free_list[f] = f
  <2>1. free_list \in [1 .. PoolSize -> Frames]
    BY DEF Frames
  <2> QED
    BY <2>1, PoolIsNotEmpty, SeqDef DEF Frames
<1>2. is_dirty \in [Frames -> BOOLEAN]
  BY Zenon
<1>3. handle \in [Clients -> Handles \cup {NoHandle}]
  OBVIOUS
<1>4. TypeOK
  <2>1. next_page_id = 0 /\ 0 \in 0 .. MaxPages
    BY MaxPagesAssumption
  <2>2. \A c \in Clients : handle[c].page = -1
    BY DEF NoHandle, INVALID_PAGE_ID
  <2>3. page_table \in [PageIds -> Seq(Frames)] /\ replacer \in Seq(Frames)
    OBVIOUS
  <2> QED
    BY <1>1, <1>2, <1>3, <2>1, <2>2, <2>3, ContentsAssumption DEF TypeOK, INVALID_PAGE_ID
<1>5. TableMatchesFrames
  BY DEF TableMatchesFrames, INVALID_PAGE_ID, PageIds
<1>6. FreeFramesAreBlank
  BY <1>1 DEF FreeFramesAreBlank, Has
<1>7. IdleFramesAreReplaceable
  BY DEF IdleFramesAreReplaceable
<1> QED
  BY <1>4, <1>5, <1>6, <1>7 DEF PoolInv

-----------------------------------------------------------------------------
\* FetchPage of a page in the pool: only a pin count and a handle change.
LEMMA FetchHitPreserves ==
  ASSUME PoolInv, NEW c \in Clients, NEW p \in PageIds, FetchHit(c, p)
  PROVE  PoolInv'
<1> DEFINE f == Lookup(p)
<1>1. f \in Frames /\ page_id[f] = p
  BY LookupFrame DEF FetchHit
<1>2. TypeOK
  BY DEF PoolInv
<1>3. /\ pin_count' = [pin_count EXCEPT ![f] = @ + 1]
      /\ UNCHANGED <<page_id, is_dirty, data, db_file, next_page_id, page_table,
                     replacer, free_list, live>>
      /\ handle' = [handle EXCEPT ![c] = [frame |-> f, page |-> p, wrote |-> FALSE]]
  BY DEF FetchHit, diskVars, Give
<1> HIDE DEF f
<1>4. TypeOK'
  <2>1. p < next_page_id
    BY <1>1, <1>2 DEF TypeOK
  <2>2. [frame |-> f, page |-> p, wrote |-> FALSE] \in Handles
    BY <1>1 DEF Handles
  <2>3. /\ handle' \in [Clients -> Handles \cup {NoHandle}]
        /\ \A d \in Clients : handle'[d].page < next_page_id
    BY <1>2, <1>3, <2>1, <2>2 DEF TypeOK
  <2>4. pin_count' \in [Frames -> Nat]
    BY <1>1, <1>2, <1>3 DEF TypeOK
  <2> QED
    BY <1>2, <1>3, <2>3, <2>4 DEF TypeOK
<1>5. TableMatchesFrames'
  BY <1>3 DEF PoolInv, TableMatchesFrames
<1>6. FreeFramesAreBlank'
  <2>1. p # INVALID_PAGE_ID
    BY DEF PageIds, INVALID_PAGE_ID
  <2>2. \A g \in Frames : g # f => pin_count'[g] = pin_count[g]
    BY <1>2, <1>3 DEF TypeOK
  <2> QED
    BY <1>1, <1>3, <2>1, <2>2 DEF PoolInv, FreeFramesAreBlank, Has
<1>7. IdleFramesAreReplaceable'
  <2>1. \A g \in Frames : pin_count'[g] = 0 => pin_count[g] = 0
    BY <1>1, <1>2, <1>3 DEF TypeOK
  <2> QED
    BY <1>3, <2>1 DEF PoolInv, IdleFramesAreReplaceable, Has
<1> QED
  BY <1>4, <1>5, <1>6, <1>7 DEF PoolInv

\* A step that gives a frame to page p, pins it and leaves it clean keeps the
\* two lists right, wherever the frame came from.
LEMMA GivenFrame ==
  ASSUME PoolInv, TakeFrame, NEW p \in PageIds,
         page_id' = [page_id EXCEPT ![ChosenFrame] = p],
         pin_count' = [pin_count EXCEPT ![ChosenFrame] = @ + 1],
         \A g \in Frames \ {ChosenFrame} : ~is_dirty[g] => ~is_dirty'[g]
  PROVE  /\ FreeFramesAreBlank'
         /\ IdleFramesAreReplaceable'
         /\ pin_count' \in [Frames -> Nat]
<1> DEFINE f == ChosenFrame
<1>1. /\ f \in Frames
      /\ \A i, j \in DOMAIN free_list' : free_list'[i] = free_list'[j] => i = j
      /\ \A g : Has(free_list', g) <=> Has(free_list, g) /\ g # f
      /\ \A g : Has(replacer, g) /\ g # f => Has(replacer', g)
  BY TakenFrame
<1>2. /\ page_id \in [Frames -> PageIds \cup {INVALID_PAGE_ID}]
      /\ pin_count \in [Frames -> Nat]
  BY DEF PoolInv, TypeOK
<1> HIDE DEF f
<1>3. /\ page_id'[f] = p /\ p # INVALID_PAGE_ID
      /\ pin_count'[f] > 0
      /\ pin_count' \in [Frames -> Nat]
      /\ \A g \in Frames \ {f} : page_id'[g] = page_id[g] /\ pin_count'[g] = pin_count[g]
  BY <1>1, <1>2 DEF f, PageIds, INVALID_PAGE_ID
<1>4. FreeFramesAreBlank'
  <2>1. \A g \in Frames : page_id'[g] = INVALID_PAGE_ID <=> Has(free_list', g)
    BY <1>1, <1>3 DEF PoolInv, FreeFramesAreBlank
  <2>2. \A g \in Frames :
          page_id'[g] = INVALID_PAGE_ID => pin_count'[g] = 0 /\ ~is_dirty'[g]
    BY <1>3 DEF PoolInv, FreeFramesAreBlank, f
  <2>3. INVALID_PAGE_ID' = INVALID_PAGE_ID
    BY DEF INVALID_PAGE_ID
  <2>4. \A g : Has(free_list, g)' <=> Has(free_list', g)
    BY DEF Has
  <2> QED
    BY <1>1, <2>1, <2>2, <2>3, <2>4 DEF FreeFramesAreBlank
<1>5. IdleFramesAreReplaceable'
  <2>1. \A g \in Frames :
          page_id'[g] # INVALID_PAGE_ID /\ pin_count'[g] = 0 => Has(replacer', g)
    BY <1>1, <1>3 DEF PoolInv, IdleFramesAreReplaceable
  <2>2. \A g : Has(replacer, g)' <=> Has(replacer', g)
    BY DEF Has
  <2> QED
    BY <2>1, <2>2 DEF IdleFramesAreReplaceable, INVALID_PAGE_ID
<1> QED
  BY <1>3, <1>4, <1>5

\* FetchPage of a page that is not in the pool.
LEMMA FetchMissPreserves ==
  ASSUME PoolInv, NEW c \in Clients, NEW p \in PageIds, FetchMiss(c, p)
  PROVE  PoolInv'
<1> DEFINE f == ChosenFrame
           file == IF is_dirty[f] THEN WritePage(db_file, page_id[f], data[f]) ELSE db_file
<1>1. TypeOK
  BY DEF PoolInv
<1>2. /\ f \in Frames
      /\ free_list' \in Seq(Frames)
      /\ replacer' \in Seq(Frames)
  BY TakenFrame DEF FetchMiss
<1>3. /\ ~InTable(p) /\ p \in live /\ TakeFrame
      /\ db_file' = file
      /\ page_table' = TableInsert(TableRemove(page_table, page_id[f]), p, f)
      /\ page_id' = [page_id EXCEPT ![f] = p]
      /\ pin_count' = [pin_count EXCEPT ![f] = @ + 1]
      /\ is_dirty' = [is_dirty EXCEPT ![f] = FALSE]
      /\ data' = [data EXCEPT ![f] = ReadPage(file, p, @)]
      /\ handle' = [handle EXCEPT ![c] = [frame |-> f, page |-> p, wrote |-> FALSE]]
      /\ UNCHANGED <<next_page_id, live>>
  BY DEF FetchMiss, Give
<1>4. /\ TableMatchesFrames'
      /\ page_table' \in [PageIds -> Seq(Frames)]
      /\ page_id' \in [Frames -> PageIds \cup {INVALID_PAGE_ID}]
  BY <1>2, <1>3, FrameChangesPage
<1>5. is_dirty' \in [Frames -> BOOLEAN] /\ \A g \in Frames \ {f} : is_dirty'[g] = is_dirty[g]
  BY <1>1, <1>2, <1>3, Zenon DEF TypeOK
<1>6. /\ FreeFramesAreBlank'
      /\ IdleFramesAreReplaceable'
      /\ pin_count' \in [Frames -> Nat]
  BY <1>3, <1>5, GivenFrame
<1>7. db_file' \in [PageIds -> Contents \cup {Absent}]
  <2>1. data[f] \in Contents /\ db_file \in [PageIds -> Contents \cup {Absent}]
    BY <1>1, <1>2 DEF TypeOK
  <2> QED
    BY <1>3, <2>1, WritePageType
<1>8. data' \in [Frames -> Contents]
  <2>1. data[f] \in Contents /\ file[p] \in Contents \cup {Absent}
    BY <1>1, <1>2, <1>3, <1>7 DEF TypeOK
  <2>2. ReadPage(file, p, data[f]) \in Contents
    BY <2>1 DEF ReadPage
  <2> HIDE DEF file, f
  <2> QED
    BY <1>1, <1>2, <1>3, <2>2 DEF TypeOK
<1>9. p < next_page_id
  BY <1>1, <1>3 DEF TypeOK
<1>10. /\ handle' \in [Clients -> Handles \cup {NoHandle}]
       /\ \A d \in Clients : handle'[d].page < next_page_id
  <2>1. [frame |-> f, page |-> p, wrote |-> FALSE] \in Handles
    BY <1>2 DEF Handles
  <2> HIDE DEF f
  <2> QED
    BY <1>1, <1>3, <1>9, <2>1 DEF TypeOK
<1>11. \A g \in Frames : page_id'[g] < next_page_id
  BY <1>1, <1>2, <1>3, <1>9 DEF TypeOK
<1> HIDE DEF f, file
<1>12. TypeOK'
  BY <1>1, <1>2, <1>3, <1>4, <1>5, <1>6, <1>7, <1>8, <1>10, <1>11 DEF TypeOK
<1> QED
  BY <1>4, <1>6, <1>12 DEF PoolInv

\* UnpinPage: a frame whose last pin goes is put into the replacer.  The caller
\* may have written into its frame and lets go of the page.
LEMMA UnpinKeeps ==
  ASSUME PoolInv, NEW p, NEW dirty \in BOOLEAN, Unpin(p, dirty),
         data' \in [Frames -> Contents],
         handle' \in [Clients -> Handles \cup {NoHandle}],
         \A d \in Clients : handle'[d].page < next_page_id,
         UNCHANGED <<page_id, db_file, next_page_id, page_table, free_list, live>>
  PROVE  PoolInv'
<1> DEFINE f == Lookup(p)
<1>1. TypeOK
  BY DEF PoolInv
<1>2. UNCHANGED <<page_id, db_file, next_page_id, page_table, free_list, live>>
  OBVIOUS
<1>3. /\ handle' \in [Clients -> Handles \cup {NoHandle}] /\ data' \in [Frames -> Contents]
      /\ \A d \in Clients : handle'[d].page < next_page_id
  OBVIOUS
<1>4. TableMatchesFrames'
  BY <1>2 DEF PoolInv, TableMatchesFrames
<1>5. CASE CanUnpin(p)
  <2>1. /\ f \in Frames
        /\ page_id[f] = p
        /\ p \in PageIds
        /\ pin_count[f] > 0
    BY <1>5, LookupFrame DEF InTable, CanUnpin
  <2>2. /\ is_dirty' = [is_dirty EXCEPT ![f] = dirty]
        /\ pin_count' = [pin_count EXCEPT ![f] = @ - 1]
        /\ replacer' = IF pin_count[f] = 1 THEN ReplacerInsert(f) ELSE replacer
    BY <1>5 DEF Unpin
  <2> HIDE DEF f
  <2>4. /\ is_dirty' \in [Frames -> BOOLEAN]
        /\ \A g \in Frames \ {f} : is_dirty'[g] = is_dirty[g]
    BY <1>1, <2>1, <2>2, Zenon DEF TypeOK
  <2>5. /\ pin_count' \in [Frames -> Nat]
        /\ pin_count'[f] = pin_count[f] - 1
        /\ \A g \in Frames \ {f} : pin_count'[g] = pin_count[g]
    BY <1>1, <2>1, <2>2 DEF TypeOK
  <2>6. /\ replacer' \in Seq(Frames)
        /\ \A g : Has(replacer, g) => Has(replacer', g)
        /\ pin_count[f] = 1 => Has(replacer', f)
    <3>1. replacer \in Seq(Frames)
      BY <1>1 DEF TypeOK
    <3>2. /\ Erase(replacer, f) \in Seq(Frames)
          /\ \A g : Has(replacer, g) /\ g # f => Has(Erase(replacer, f), g)
      BY <3>1, EraseHas
    <3>3. /\ ReplacerInsert(f) \in Seq(Frames)
          /\ \A g : Has(ReplacerInsert(f), g) <=> Has(Erase(replacer, f), g) \/ g = f
      BY <2>1, <3>2, AppendHas DEF ReplacerInsert
    <3> QED
      BY <2>2, <3>1, <3>2, <3>3
  <2>7. TypeOK'
    BY <1>1, <1>2, <1>3, <2>4, <2>5, <2>6 DEF TypeOK
  <2>8. FreeFramesAreBlank'
    <3>1. page_id[f] # INVALID_PAGE_ID
      BY <2>1 DEF PageIds, INVALID_PAGE_ID
    <3> QED
      BY <1>2, <2>4, <2>5, <3>1 DEF PoolInv, FreeFramesAreBlank, Has
  <2>9. IdleFramesAreReplaceable'
    <3>1. \A g \in Frames :
            page_id'[g] # INVALID_PAGE_ID /\ pin_count'[g] = 0 => Has(replacer', g)
      <4> SUFFICES ASSUME NEW g \in Frames, page_id[g] # INVALID_PAGE_ID, pin_count'[g] = 0
                   PROVE  Has(replacer', g)
        BY <1>2
      <4>1. CASE g = f
        BY <1>1, <2>1, <2>5, <2>6, <4>1 DEF TypeOK
      <4>2. CASE g # f
        BY <2>5, <2>6, <4>2 DEF PoolInv, IdleFramesAreReplaceable
      <4> QED
        BY <4>1, <4>2
    <3>2. \A g : Has(replacer, g)' <=> Has(replacer', g)
      BY DEF Has
    <3> QED
      BY <3>1, <3>2 DEF IdleFramesAreReplaceable, INVALID_PAGE_ID
  <2> QED
    BY <1>4, <2>7, <2>8, <2>9 DEF PoolInv
<1>6. CASE ~CanUnpin(p)
  <2>1. UNCHANGED <<is_dirty, pin_count, replacer>>
    BY <1>6 DEF Unpin
  <2>2. TypeOK'
    BY <1>1, <1>2, <1>3, <2>1 DEF TypeOK
  <2> QED
    BY <1>2, <1>4, <2>1, <2>2 DEF PoolInv, FreeFramesAreBlank, IdleFramesAreReplaceable, Has
<1> QED
  BY <1>5, <1>6

\* UnpinPage by a client of the pool.
LEMMA UnpinPreserves ==
  ASSUME PoolInv, NEW c \in Clients, UnpinPage(c)
  PROVE  PoolInv'
<1>1. TypeOK
  BY DEF PoolInv
<1>2. /\ handle' = [handle EXCEPT ![c] = NoHandle] /\ Unpin(handle[c].page, handle[c].wrote)
      /\ UNCHANGED <<page_id, data, db_file, next_page_id, page_table, free_list, live>>
  BY DEF UnpinPage, diskVars
<1>3. /\ handle' \in [Clients -> Handles \cup {NoHandle}]
      /\ \A d \in Clients : handle'[d].page < next_page_id
  <2>1. NoHandle.page < next_page_id
    BY <1>1 DEF TypeOK, NoHandle, INVALID_PAGE_ID
  <2> QED
    BY <1>1, <1>2, <2>1 DEF TypeOK
<1>4. handle[c].wrote \in BOOLEAN
  <2>1. handle[c] \in Handles
    BY <1>1 DEF TypeOK, UnpinPage
  <2> QED
    BY <2>1, Zenon DEF Handles
<1>5. data' \in [Frames -> Contents]
  BY <1>1, <1>2 DEF TypeOK
<1> QED
  BY <1>2, <1>3, <1>4, <1>5, UnpinKeeps

\* FlushPage: the file and a dirty flag change.
LEMMA FlushPreserves ==
  ASSUME PoolInv, NEW p \in PageIds, FlushPage(p)
  PROVE  PoolInv'
<1> DEFINE f == Lookup(p)
<1>1. TypeOK
  BY DEF PoolInv
<1>2. f \in Frames
  BY LookupFrame DEF FlushPage
<1>3. /\ db_file' = WritePage(db_file, page_id[f], data[f])
      /\ is_dirty' = [is_dirty EXCEPT ![f] = FALSE]
      /\ UNCHANGED <<page_id, pin_count, data, next_page_id, page_table, replacer,
                     free_list, handle, live>>
  BY DEF FlushPage, clientVars
<1> HIDE DEF f
<1>4. /\ is_dirty' \in [Frames -> BOOLEAN]
      /\ \A g \in Frames : ~is_dirty[g] => ~is_dirty'[g]
  BY <1>1, <1>2, <1>3, Zenon DEF TypeOK
<1>5. db_file' \in [PageIds -> Contents \cup {Absent}]
  BY <1>1, <1>2, <1>3, WritePageType DEF TypeOK
<1>6. TypeOK'
  BY <1>1, <1>3, <1>4, <1>5 DEF TypeOK
<1>7. TableMatchesFrames' /\ IdleFramesAreReplaceable'
  BY <1>3 DEF PoolInv, TableMatchesFrames, IdleFramesAreReplaceable, Has
<1>8. FreeFramesAreBlank'
  BY <1>3, <1>4 DEF PoolInv, FreeFramesAreBlank, Has
<1> QED
  BY <1>6, <1>7, <1>8 DEF PoolInv

\* FlushAllPages: only the file changes.  No page is in two dirty frames, so
\* the order in which they are written does not matter.
LEMMA FlushAllPreserves ==
  ASSUME PoolInv, FlushAllPages
  PROVE  PoolInv'
<1>1. TypeOK
  BY DEF PoolInv
<1>2. /\ db_file' = FlushedFile
      /\ UNCHANGED <<page_id, pin_count, is_dirty, data, next_page_id, page_table,
                     replacer, free_list, handle, live>>
  BY DEF FlushAllPages, frameVars, clientVars
<1>3. ASSUME NEW p \in PageIds, DirtyFrames(p) # {}
      PROVE  data[LastOf(DirtyFrames(p))] \in Contents
  <2>1. PICK f \in Frames : DirtyFrames(p) = {f}
    <3>1. PICK f \in Frames : page_id[f] = p /\ f \in DirtyFrames(p)
      BY <1>3 DEF DirtyFrames
    <3>2. \A g \in Frames : page_id[g] = p => g = f
      BY <3>1 DEF PoolInv, TableMatchesFrames
    <3> QED
      BY <3>1, <3>2 DEF DirtyFrames
  <2>2. LastOf({f}) = f
    <3>1. f \in {f} /\ \A g \in {f} : g <= f
      BY DEF Frames
    <3> QED
      BY <3>1 DEF LastOf
  <2> QED
    BY <1>1, <2>1, <2>2 DEF TypeOK
<1>4. FlushedFile \in [PageIds -> Contents \cup {Absent}]
  BY <1>1, <1>3, ContentsAssumption DEF FlushedFile, TypeOK
<1>5. TypeOK'
  BY <1>1, <1>2, <1>4 DEF TypeOK
<1> QED
  BY <1>2, <1>5 DEF PoolInv, TableMatchesFrames, FreeFramesAreBlank,
                    IdleFramesAreReplaceable, Has

\* DeletePage: the page leaves the table and its frame joins the free list.
LEMMA DeletePreserves ==
  ASSUME PoolInv, NEW p \in PageIds, DeletePage(p)
  PROVE  PoolInv'
<1> DEFINE f == Lookup(p)
<1>1. TypeOK
  BY DEF PoolInv
<1>2. /\ live' = live \ {p}
      /\ UNCHANGED <<data, db_file, next_page_id, replacer, handle>>
  BY DEF DeletePage, DeallocatePage
<1>3. CASE ~InTable(p)
  <2>1. UNCHANGED <<page_table, page_id, pin_count, is_dirty, free_list>>
    BY <1>3 DEF DeletePage
  <2>2. TypeOK'
    BY <1>1, <1>2, <2>1 DEF TypeOK
  <2> QED
    BY <1>2, <2>1, <2>2 DEF PoolInv, TableMatchesFrames, FreeFramesAreBlank,
                            IdleFramesAreReplaceable, Has
<1>4. CASE InTable(p)
  <2>1. /\ f \in Frames
        /\ page_table[p] = <<f>>
        /\ \A g \in Frames : page_id[g] = p <=> g = f
    BY <1>4, LookupFrame
  <2>2. /\ page_table' = TableRemove(page_table, p)
        /\ page_id' = [page_id EXCEPT ![f] = INVALID_PAGE_ID]
        /\ pin_count' = [pin_count EXCEPT ![f] = 0]
        /\ is_dirty' = [is_dirty EXCEPT ![f] = FALSE]
        /\ free_list' = Append(free_list, f)
    BY <1>4 DEF DeletePage
  <2> HIDE DEF f
  <2>3. /\ page_id' \in [Frames -> PageIds \cup {INVALID_PAGE_ID}]
        /\ page_id'[f] = INVALID_PAGE_ID
        /\ \A g \in Frames \ {f} : page_id'[g] = page_id[g]
        /\ pin_count' \in [Frames -> Nat]
        /\ pin_count'[f] = 0
        /\ \A g \in Frames \ {f} : pin_count'[g] = pin_count[g]
    BY <1>1, <2>1, <2>2 DEF TypeOK
  <2>4. /\ is_dirty' \in [Frames -> BOOLEAN]
        /\ ~is_dirty'[f]
        /\ \A g \in Frames \ {f} : is_dirty'[g] = is_dirty[g]
    BY <1>1, <2>1, <2>2, Zenon DEF TypeOK
  <2>5. /\ page_table' \in [PageIds -> Seq(Frames)]
        /\ page_table'[p] = <<>>
        /\ \A q \in PageIds \ {p} : page_table'[q] = page_table[q]
    <3>1. <<f>> # <<>> /\ Tail(<<f>>) = <<>>
      OBVIOUS
    <3>2. \A q \in PageIds :
            page_table'[q] = IF q = p /\ page_table[q] # <<>> THEN Tail(page_table[q])
                                                              ELSE page_table[q]
      BY <2>2 DEF TableRemove
    <3>3. page_table'[p] = <<>> /\ \A q \in PageIds \ {p} : page_table'[q] = page_table[q]
      BY <2>1, <3>1, <3>2
    <3>4. \A q \in PageIds : page_table'[q] \in Seq(Frames)
      <4>1. <<>> \in Seq(Frames) /\ \A q \in PageIds : page_table[q] \in Seq(Frames)
        BY <1>1 DEF TypeOK
      <4> QED
        BY <3>3, <4>1
    <3>5. page_table' = [q \in PageIds |-> page_table'[q]]
      BY <2>2 DEF TableRemove
    <3> QED
      BY <3>3, <3>4, <3>5
  <2>6. p # INVALID_PAGE_ID
    BY DEF PageIds, INVALID_PAGE_ID
  <2>7. TableMatchesFrames'
    <3> SUFFICES ASSUME NEW q \in PageIds
                 PROVE  \/ page_table'[q] = <<>> /\ \A g \in Frames : page_id'[g] # q
                        \/ \E h \in Frames : /\ page_table'[q] = <<h>>
                                            /\ \A g \in Frames : page_id'[g] = q <=> g = h
      BY DEF TableMatchesFrames
    <3>1. q # INVALID_PAGE_ID
      BY DEF PageIds, INVALID_PAGE_ID
    <3>2. CASE q = p
      BY <2>1, <2>3, <2>5, <3>1, <3>2
    <3>3. CASE q # p
      <4>1. \A g \in Frames : page_id'[g] = q <=> page_id[g] = q
        BY <2>1, <2>3, <3>1, <3>3
      <4> QED
        BY <2>5, <3>3, <4>1 DEF PoolInv, TableMatchesFrames
    <3> QED
      BY <3>2, <3>3
  <2>8. /\ free_list' \in Seq(Frames)
        /\ \A g : Has(free_list', g) <=> Has(free_list, g) \/ g = f
        /\ \A i, j \in DOMAIN free_list' : free_list'[i] = free_list'[j] => i = j
    <3>1. free_list \in Seq(Frames)
      BY <1>1 DEF TypeOK
    <3>2. ~Has(free_list, f)
      BY <2>1, <2>6 DEF PoolInv, FreeFramesAreBlank
    <3>3. \A i, j \in DOMAIN free_list : free_list[i] = free_list[j] => i = j
      BY DEF PoolInv, FreeFramesAreBlank
    <3> QED
      BY <2>1, <2>2, <3>1, <3>2, <3>3, AppendHas
  <2>9. TypeOK'
    <3>1. \A g \in Frames : page_id'[g] < next_page_id
      <4>1. INVALID_PAGE_ID < next_page_id
        BY <1>1 DEF TypeOK, INVALID_PAGE_ID
      <4>2. \A g \in Frames : page_id[g] < next_page_id
        BY <1>1 DEF TypeOK
      <4> QED
        BY <2>3, <4>1, <4>2
    <3> QED
      BY <1>1, <1>2, <2>3, <2>4, <2>5, <2>8, <3>1 DEF TypeOK
  <2>10. FreeFramesAreBlank'
    <3>1. \A g \in Frames : page_id'[g] = INVALID_PAGE_ID <=> Has(free_list', g)
      BY <2>3, <2>8 DEF PoolInv, FreeFramesAreBlank
    <3>2. \A g \in Frames :
            page_id'[g] = INVALID_PAGE_ID => pin_count'[g] = 0 /\ ~is_dirty'[g]
      BY <2>3, <2>4 DEF PoolInv, FreeFramesAreBlank
    <3>3. \A g : Has(free_list, g)' <=> Has(free_list', g)
      BY DEF Has
    <3> QED
      BY <2>8, <3>1, <3>2, <3>3 DEF FreeFramesAreBlank, INVALID_PAGE_ID
  <2>11. IdleFramesAreReplaceable'
    BY <1>2, <2>3 DEF PoolInv, IdleFramesAreReplaceable, Has, INVALID_PAGE_ID
  <2> QED
    BY <2>7, <2>9, <2>10, <2>11 DEF PoolInv
<1> QED
  BY <1>3, <1>4

\* NewPage: the new page gets an id that no frame and no table entry has.
LEMMA NewPagePreserves ==
  ASSUME PoolInv, NEW c \in Clients, NewPage(c)
  PROVE  PoolInv'
<1> DEFINE f == ChosenFrame
           p == next_page_id
           old == page_id[f]
           lost == free_list = <<>> /\ InTable(old)
<1>1. TypeOK
  BY DEF PoolInv
<1>2. /\ f \in Frames
      /\ free_list # <<>> <=> page_id[f] = INVALID_PAGE_ID
      /\ free_list' \in Seq(Frames)
      /\ replacer' \in Seq(Frames)
  BY TakenFrame DEF NewPage
<1>3. /\ TakeFrame
      /\ p < MaxPages /\ next_page_id' = p + 1
      /\ db_file' = IF lost THEN WritePage(db_file, page_id[Lookup(old)], data[Lookup(old)])
                            ELSE db_file
      /\ is_dirty' = IF lost THEN [is_dirty EXCEPT ![Lookup(old)] = FALSE] ELSE is_dirty
      /\ page_table' = TableInsert(IF free_list = <<>> THEN TableRemove(page_table, old)
                                                       ELSE page_table, p, f)
      /\ data' = [data EXCEPT ![f] = Zero]
      /\ pin_count' = [pin_count EXCEPT ![f] = @ + 1]
      /\ page_id' = [page_id EXCEPT ![f] = p]
      /\ handle' = [handle EXCEPT ![c] = [frame |-> f, page |-> p, wrote |-> FALSE]]
      /\ live' = live \cup {p}
  BY DEF NewPage, Give, AllocatePage
<1>4. p \in PageIds /\ next_page_id' \in 0 .. MaxPages
  BY <1>1, <1>3, MaxPagesAssumption DEF TypeOK, PageIds
<1>5. ~InTable(p)
  <2>1. \A g \in Frames : page_id[g] # p
    <3>1. \A g \in Frames : page_id[g] \in Int /\ page_id[g] < next_page_id
      BY <1>1 DEF TypeOK, PageIds, INVALID_PAGE_ID
    <3> QED
      BY <1>4, <3>1 DEF PageIds
  <2> QED
    BY <1>4, <2>1, LookupFrame
<1>6. page_table' = TableInsert(TableRemove(page_table, old), p, f)
  <2>1. CASE free_list = <<>>
    BY <1>3, <2>1
  <2>2. CASE free_list # <<>>
    <3>1. old \notin PageIds
      BY <1>2, <2>2 DEF PageIds, INVALID_PAGE_ID
    <3>2. TableRemove(page_table, old) = page_table
      BY <1>1, <3>1 DEF TableRemove, TypeOK
    <3> QED
      BY <1>3, <2>2, <3>2
  <2> QED
    BY <2>1, <2>2
<1>7. /\ TableMatchesFrames'
      /\ page_table' \in [PageIds -> Seq(Frames)]
      /\ page_id' \in [Frames -> PageIds \cup {INVALID_PAGE_ID}]
  BY <1>2, <1>3, <1>4, <1>5, <1>6, FrameChangesPage
<1>8. lost => Lookup(old) \in Frames
  BY LookupFrame
<1> HIDE DEF lost, old, f
<1>9. /\ is_dirty' \in [Frames -> BOOLEAN]
      /\ \A g \in Frames : ~is_dirty[g] => ~is_dirty'[g]
  <2>1. CASE lost
    <3>1. is_dirty' = [is_dirty EXCEPT ![Lookup(old)] = FALSE]
      BY <1>3, <2>1
    <3> QED
      BY <1>1, <1>8, <2>1, <3>1, Zenon DEF TypeOK
  <2>2. CASE ~lost
    BY <1>1, <1>3, <2>2 DEF TypeOK
  <2> QED
    BY <2>1, <2>2
<1>10. /\ FreeFramesAreBlank'
       /\ IdleFramesAreReplaceable'
       /\ pin_count' \in [Frames -> Nat]
  BY <1>3, <1>4, <1>9, GivenFrame DEF f
<1>11. db_file' \in [PageIds -> Contents \cup {Absent}]
  <2>1. CASE lost
    <3>1. data[Lookup(old)] \in Contents /\ db_file \in [PageIds -> Contents \cup {Absent}]
      BY <1>1, <1>8, <2>1 DEF TypeOK
    <3> QED
      BY <1>3, <2>1, <3>1, WritePageType
  <2>2. CASE ~lost
    BY <1>1, <1>3, <2>2 DEF TypeOK
  <2> QED
    BY <2>1, <2>2
<1>12. data' \in [Frames -> Contents]
  BY <1>1, <1>2, <1>3, ContentsAssumption DEF TypeOK
<1>13. /\ handle' \in [Clients -> Handles \cup {NoHandle}]
       /\ \A d \in Clients : handle'[d].page < p + 1
  <2>1. [frame |-> f, page |-> p, wrote |-> FALSE] \in Handles
    BY <1>2, <1>4 DEF Handles
  <2>2. handle' \in [Clients -> Handles \cup {NoHandle}]
    BY <1>1, <1>3, <2>1 DEF TypeOK
  <2>3. ASSUME NEW d \in Clients PROVE handle'[d].page < p + 1
    <3>1. CASE d = c
      BY <1>1, <1>3, <1>4, <3>1 DEF TypeOK, PageIds
    <3>2. CASE d # c
      <4>1. handle'[d] = handle[d] /\ handle[d].page < next_page_id
        BY <1>1, <1>3, <3>2 DEF TypeOK
      <4>2. handle[d].page \in Int
        <5>1. handle[d] \in Handles \cup {NoHandle}
          BY <1>1 DEF TypeOK
        <5> QED
          BY <5>1 DEF Handles, NoHandle, PageIds, INVALID_PAGE_ID
      <4> QED
        BY <1>4, <4>1, <4>2 DEF PageIds
    <3> QED
      BY <3>1, <3>2
  <2> QED
    BY <2>2, <2>3
<1>14. \A g \in Frames : page_id'[g] < p + 1
  <2>1. \A g \in Frames : page_id[g] \in Int /\ page_id[g] < next_page_id
    BY <1>1 DEF TypeOK, PageIds, INVALID_PAGE_ID
  <2>2. \A g \in Frames : page_id'[g] = IF g = f THEN p ELSE page_id[g]
    BY <1>1, <1>3 DEF TypeOK
  <2> QED
    BY <1>4, <2>1, <2>2 DEF PageIds
<1>15. live' \subseteq 0 .. next_page_id' - 1
  BY <1>1, <1>3, <1>4 DEF TypeOK, PageIds
<1>16. TypeOK'
  BY <1>2, <1>3, <1>4, <1>7, <1>9, <1>10, <1>11, <1>12, <1>13, <1>14, <1>15 DEF TypeOK
<1> QED
  BY <1>7, <1>10, <1>16 DEF PoolInv

\* NewPage without a frame uses up a page id; a client's write changes the
\* data of a frame.
LEMMA OthersPreserve ==
  ASSUME PoolInv,
         \/ NewPageFails
         \/ \E c \in Clients, d \in Contents : Write(c, d)
  PROVE  PoolInv'
<1>1. TypeOK
  BY DEF PoolInv
<1>2. UNCHANGED <<page_id, pin_count, is_dirty, db_file, page_table, replacer, free_list, live>>
  BY DEF NewPageFails, Write, frameVars, diskVars, clientVars
<1>3. CASE NewPageFails
  <2>1. /\ next_page_id < MaxPages /\ next_page_id' = next_page_id + 1
        /\ UNCHANGED <<data, handle>>
    BY <1>3 DEF NewPageFails, AllocatePage, frameVars, clientVars
  <2>2. next_page_id \in Nat /\ next_page_id' \in 0 .. MaxPages
    BY <1>1, <2>1, MaxPagesAssumption DEF TypeOK
  <2>3. \A f \in Frames : page_id[f] < next_page_id'
    <3>1. \A f \in Frames : page_id[f] \in Int /\ page_id[f] < next_page_id
      BY <1>1 DEF TypeOK, PageIds, INVALID_PAGE_ID
    <3> QED
      BY <2>1, <2>2, <3>1
  <2>4. ASSUME NEW c \in Clients PROVE handle[c].page < next_page_id'
    <3>1. handle[c] \in Handles \cup {NoHandle} /\ handle[c].page < next_page_id
      BY <1>1 DEF TypeOK
    <3>2. handle[c].page \in Int
      BY <3>1 DEF Handles, NoHandle, PageIds, INVALID_PAGE_ID
    <3> QED
      BY <2>1, <2>2, <3>1, <3>2
  <2>5. live \subseteq 0 .. next_page_id' - 1
    BY <1>1, <2>1, <2>2 DEF TypeOK
  <2>6. TypeOK'
    BY <1>1, <1>2, <2>1, <2>2, <2>3, <2>4, <2>5 DEF TypeOK
  <2> QED
    BY <1>2, <2>6 DEF PoolInv, TableMatchesFrames, FreeFramesAreBlank,
                      IdleFramesAreReplaceable, Has
<1>4. ASSUME NEW c \in Clients, NEW d \in Contents, Write(c, d) PROVE PoolInv'
  <2>1. /\ handle[c] # NoHandle
        /\ data' = [data EXCEPT ![handle[c].frame] = d]
        /\ handle' = [handle EXCEPT ![c].wrote = TRUE]
        /\ UNCHANGED next_page_id
    BY <1>4 DEF Write, diskVars
  <2>2. handle[c] \in Handles
    BY <1>1, <2>1 DEF TypeOK
  <2>3. data' \in [Frames -> Contents]
    BY <1>1, <2>1 DEF TypeOK
  <2>4. /\ [handle[c] EXCEPT !.wrote = TRUE] \in Handles
        /\ [handle[c] EXCEPT !.wrote = TRUE].page = handle[c].page
    BY <2>2 DEF Handles
  <2>5. /\ handle' \in [Clients -> Handles \cup {NoHandle}]
        /\ \A e \in Clients : handle'[e].page = handle[e].page
    BY <1>1, <2>1, <2>4 DEF TypeOK
  <2>6. TypeOK'
    BY <1>1, <1>2, <2>1, <2>3, <2>5 DEF TypeOK
  <2> QED
    BY <1>2, <2>6 DEF PoolInv, TableMatchesFrames, FreeFramesAreBlank,
                      IdleFramesAreReplaceable, Has
<1> QED
  BY <1>3, <1>4

\* PoolInv is an invariant of the buffer pool.
THEOREM PoolInvariant == Spec => []PoolInv
<1>1. PoolInv /\ [Next]_vars => PoolInv'
  <2> SUFFICES ASSUME PoolInv, [Next]_vars PROVE PoolInv'
    OBVIOUS
  <2>1. CASE Next
    BY <2>1, FetchHitPreserves, FetchMissPreserves, UnpinPreserves, NewPagePreserves,
       FlushPreserves, DeletePreserves, FlushAllPreserves, OthersPreserve
       DEF Next, FetchPage
  <2>2. CASE UNCHANGED vars
    BY <2>2 DEF vars, frameVars, diskVars, clientVars, PoolInv, TypeOK, TableMatchesFrames,
                FreeFramesAreBlank, IdleFramesAreReplaceable, Has
  <2> QED
    BY <2>1, <2>2
<1> QED
  BY InitPoolInv, <1>1, PTL DEF Spec

\* Pin counts stay natural numbers and ids in use stay below the counter.
THEOREM PoolTypeCorrect == Spec => []TypeOK
  BY PoolInvariant, PTL DEF PoolInv

\* The page table always names, for each resident page, the one frame that
\* holds it.
THEOREM TableIsCorrect == Spec => []TableMatchesFrames
  BY PoolInvariant, PTL DEF PoolInv

\* The free list is exactly the set of blank frames.
THEOREM FreeListIsCorrect == Spec => []FreeFramesAreBlank
  BY PoolInvariant, PTL DEF PoolInv

-----------------------------------------------------------------------------
(* PinSpec: pins and the clients that hold them.                           *)

\* A client that held nothing and gets frame f is one more holder of f, and of
\* no other frame.
LEMMA HolderAdded ==
  ASSUME TypeOK, NEW c \in Clients, handle[c] = NoHandle,
         NEW f \in Frames, NEW p \in PageIds, Give(c, f, p)
  PROVE  /\ Cardinality(HeldBy(f)') = Cardinality(HeldBy(f)) + 1
         /\ \A g \in Frames \ {f} : HeldBy(g)' = HeldBy(g)
         /\ handle'[c].frame = f /\ handle'[c].page = p
         /\ \A e \in Clients \ {c} : handle'[e] = handle[e]
<1>1. /\ handle \in [Clients -> Handles \cup {NoHandle}]
      /\ handle' = [handle EXCEPT ![c] = [frame |-> f, page |-> p, wrote |-> FALSE]]
  BY DEF TypeOK, Give
<1>2. /\ handle'[c].frame = f /\ handle'[c].page = p
      /\ \A e \in Clients \ {c} : handle'[e] = handle[e]
  BY <1>1
<1>3. \A g \in Frames : c \notin HeldBy(g)
  BY PoolIsNotEmpty DEF HeldBy, NoHandle, Frames
<1>4. \A g \in Frames : IsFiniteSet(HeldBy(g))
  BY ClientsAssumption, FS_Subset DEF HeldBy
<1>5. HeldBy(f)' = HeldBy(f) \cup {c}
  BY <1>2 DEF HeldBy
<1>6. \A g \in Frames \ {f} : HeldBy(g)' = HeldBy(g)
  BY <1>2, <1>3 DEF HeldBy
<1>7. Cardinality(HeldBy(f) \cup {c}) = Cardinality(HeldBy(f)) + 1
  BY <1>3, <1>4, FS_AddElement
<1> QED
  BY <1>2, <1>5, <1>6, <1>7

\* A frame without pins has no holder, and one with a holder has a pin.
LEMMA HoldersHavePins ==
  ASSUME PinInv, NEW f \in Frames
  PROVE  /\ pin_count[f] = 0 <=> HeldBy(f) = {}
         /\ Cardinality(HeldBy(f)) \in Nat
<1>1. IsFiniteSet(HeldBy(f))
  BY ClientsAssumption, FS_Subset DEF HeldBy
<1>2. pin_count[f] = Cardinality(HeldBy(f))
  BY DEF PinInv, PinsMatchHandles
<1> QED
  BY <1>1, <1>2, FS_EmptySet, FS_CardinalityType

\* A step that gives an unpinned frame to page p and to client c keeps pins
\* and handles in accord.
LEMMA PinAfterGiving ==
  ASSUME PinInv, NEW c \in Clients, handle[c] = NoHandle,
         NEW f \in Frames, NEW p \in PageIds, pin_count[f] = 0, Give(c, f, p),
         page_id' = [page_id EXCEPT ![f] = p],
         pin_count' = [pin_count EXCEPT ![f] = @ + 1]
  PROVE  PinsMatchHandles'
<1>1. TypeOK
  BY DEF PinInv, PoolInv
<1>2. /\ Cardinality(HeldBy(f)') = Cardinality(HeldBy(f)) + 1
      /\ \A g \in Frames \ {f} : HeldBy(g)' = HeldBy(g)
      /\ handle'[c].frame = f /\ handle'[c].page = p
      /\ \A e \in Clients \ {c} : handle'[e] = handle[e]
  BY <1>1, HolderAdded
<1>3. \A e \in Clients : handle[e].frame # f
  BY HoldersHavePins DEF HeldBy
<1>4. \A g \in Frames : pin_count'[g] = Cardinality(HeldBy(g)')
  <2> SUFFICES ASSUME NEW g \in Frames PROVE pin_count'[g] = Cardinality(HeldBy(g)')
    OBVIOUS
  <2>1. pin_count \in [Frames -> Nat] /\ pin_count[g] = Cardinality(HeldBy(g))
    BY <1>1 DEF TypeOK, PinInv, PinsMatchHandles
  <2>2. CASE g = f
    BY <1>2, <2>1, <2>2
  <2>3. CASE g # f
    BY <1>2, <2>1, <2>3
  <2> QED
    BY <2>2, <2>3
<1>5. ASSUME NEW e \in Clients, handle'[e] # NoHandle
      PROVE  page_id'[handle'[e].frame] = handle'[e].page
  <2>1. page_id \in [Frames -> PageIds \cup {INVALID_PAGE_ID}]
    BY <1>1 DEF TypeOK
  <2>2. CASE e = c
    BY <1>2, <2>1, <2>2
  <2>3. CASE e # c
    <3>1. handle[e] # NoHandle /\ handle'[e] = handle[e]
      BY <1>2, <1>5, <2>3
    <3>2. handle[e].frame \in Frames
      BY <1>1, <3>1 DEF TypeOK, Handles
    <3> QED
      BY <1>3, <2>1, <3>1, <3>2 DEF PinInv, PinsMatchHandles
  <2> QED
    BY <2>2, <2>3
<1> QED
  BY <1>4, <1>5 DEF PinsMatchHandles

\* FetchPage and NewPage.
LEMMA PinFetchHit ==
  ASSUME PinInv, NEW c \in Clients, NEW p \in PageIds, FetchHit(c, p)
  PROVE  PinsMatchHandles'
<1>1. TypeOK /\ PoolInv
  BY DEF PinInv, PoolInv
<1>2. PICK f \in Frames : f = Lookup(p) /\ page_id[f] = p
  BY <1>1, LookupFrame DEF FetchHit
<1>3. /\ handle[c] = NoHandle /\ Give(c, f, p)
      /\ pin_count' = [pin_count EXCEPT ![f] = @ + 1] /\ page_id' = page_id
  BY <1>2 DEF FetchHit
<1>4. /\ Cardinality(HeldBy(f)') = Cardinality(HeldBy(f)) + 1
      /\ \A g \in Frames \ {f} : HeldBy(g)' = HeldBy(g)
      /\ handle'[c].frame = f /\ handle'[c].page = p
      /\ \A e \in Clients \ {c} : handle'[e] = handle[e]
  BY <1>1, <1>2, <1>3, HolderAdded
<1>5. \A g \in Frames : pin_count'[g] = Cardinality(HeldBy(g)')
  <2> SUFFICES ASSUME NEW g \in Frames PROVE pin_count'[g] = Cardinality(HeldBy(g)')
    OBVIOUS
  <2>1. pin_count \in [Frames -> Nat] /\ pin_count[g] = Cardinality(HeldBy(g))
    BY <1>1 DEF TypeOK, PinInv, PinsMatchHandles
  <2>2. CASE g = f
    BY <1>2, <1>3, <1>4, <2>1, <2>2
  <2>3. CASE g # f
    BY <1>2, <1>3, <1>4, <2>1, <2>3
  <2> QED
    BY <2>2, <2>3
<1>6. ASSUME NEW e \in Clients, handle'[e] # NoHandle
      PROVE  page_id'[handle'[e].frame] = handle'[e].page
  <2>1. CASE e = c
    BY <1>2, <1>3, <1>4, <2>1
  <2>2. CASE e # c
    <3>1. handle'[e] = handle[e] /\ handle[e] # NoHandle
      BY <1>4, <1>6, <2>2
    <3> QED
      BY <1>3, <3>1 DEF PinInv, PinsMatchHandles
  <2> QED
    BY <2>1, <2>2
<1> QED
  BY <1>5, <1>6 DEF PinsMatchHandles

LEMMA PinFetchMiss ==
  ASSUME PinInv, PinnedStay, NEW c \in Clients, NEW p \in PageIds, FetchMiss(c, p)
  PROVE  PinsMatchHandles'
<1>1. TypeOK /\ PoolInv
  BY DEF PinInv, PoolInv
<1>2. PICK f \in Frames : f = ChosenFrame
  BY <1>1, TakenFrame DEF FetchMiss
<1>3. /\ handle[c] = NoHandle /\ Give(c, f, p)
      /\ page_id' = [page_id EXCEPT ![f] = p]
      /\ pin_count' = [pin_count EXCEPT ![f] = @ + 1]
  BY <1>2 DEF FetchMiss
<1>4. page_id[f] # p
  BY <1>1, <1>2 DEF FetchMiss, InTable, PoolInv, TableMatchesFrames
<1>5. page_id'[f] = p
  BY <1>1, <1>2, <1>3 DEF TypeOK
<1>6. pin_count[f] = 0
  BY <1>2, <1>4, <1>5 DEF PinnedStay
<1> QED
  BY <1>2, <1>3, <1>6, PinAfterGiving

LEMMA PinNewPage ==
  ASSUME PinInv, PinnedStay, NEW c \in Clients, NewPage(c)
  PROVE  PinsMatchHandles'
<1>1. TypeOK /\ PoolInv
  BY DEF PinInv, PoolInv
<1>2. PICK f \in Frames : f = ChosenFrame
  BY <1>1, TakenFrame DEF NewPage
<1>3. next_page_id \in PageIds
  BY <1>1, MaxPagesAssumption DEF TypeOK, NewPage, AllocatePage, PageIds
<1>4. PICK p \in PageIds : p = next_page_id
  BY <1>3
<1>5. /\ handle[c] = NoHandle /\ Give(c, f, p)
      /\ page_id' = [page_id EXCEPT ![f] = p]
      /\ pin_count' = [pin_count EXCEPT ![f] = @ + 1]
  BY <1>2, <1>4 DEF NewPage
<1>6. page_id[f] # p
  <2>1. page_id[f] < next_page_id /\ page_id[f] \in PageIds \cup {INVALID_PAGE_ID}
    BY <1>1 DEF TypeOK
  <2> QED
    BY <1>4, <2>1 DEF PageIds, INVALID_PAGE_ID
<1>7. page_id'[f] = p
  BY <1>1, <1>5 DEF TypeOK
<1>8. pin_count[f] = 0
  BY <1>6, <1>7 DEF PinnedStay
<1> QED
  BY <1>5, <1>8, PinAfterGiving

\* UnpinPage finds the page of a client that holds it in the client's frame,
\* with a pin to take.
LEMMA PinUnpin ==
  ASSUME PinInv, NEW c \in Clients, UnpinPage(c)
  PROVE  PinsMatchHandles'
<1>1. TypeOK /\ PoolInv
  BY DEF PinInv, PoolInv
<1>2. /\ handle[c] # NoHandle /\ handle' = [handle EXCEPT ![c] = NoHandle]
      /\ Unpin(handle[c].page, handle[c].wrote) /\ page_id' = page_id
  BY DEF UnpinPage
<1>3. PICK f \in Frames, p \in PageIds :
        f = handle[c].frame /\ p = handle[c].page /\ page_id[f] = p
  BY <1>1, <1>2 DEF TypeOK, Handles, PinInv, PinsMatchHandles
<1>4. InTable(p) /\ Lookup(p) = f
  <2>1. PICK g \in Frames : page_table[p] = <<g>>
    BY <1>1, <1>3 DEF PoolInv, TableMatchesFrames
  <2>2. <<g>> # <<>>
    OBVIOUS
  <2>3. InTable(p)
    BY <2>1, <2>2 DEF InTable
  <2> QED
    BY <1>1, <1>3, <2>3, LookupFrame
<1>5. /\ c \in HeldBy(f) /\ IsFiniteSet(HeldBy(f))
      /\ Cardinality(HeldBy(f)) \in Nat /\ pin_count[f] # 0
  BY <1>3, HoldersHavePins, ClientsAssumption, FS_Subset DEF HeldBy
<1>6. pin_count' = [pin_count EXCEPT ![f] = @ - 1]
  <2>1. pin_count[f] > 0
    BY <1>1, <1>3, <1>5 DEF TypeOK
  <2> QED
    BY <1>2, <1>3, <1>4, <2>1 DEF Unpin, CanUnpin
<1>7. /\ handle'[c] = NoHandle
      /\ \A e \in Clients \ {c} : handle'[e] = handle[e]
  BY <1>1, <1>2 DEF TypeOK
<1>8. HeldBy(f)' = HeldBy(f) \ {c}
  BY <1>3, <1>7, PoolIsNotEmpty DEF HeldBy, NoHandle, Frames
<1>9. \A g \in Frames \ {f} : HeldBy(g)' = HeldBy(g)
  BY <1>3, <1>7, PoolIsNotEmpty DEF HeldBy, NoHandle, Frames
<1>10. Cardinality(HeldBy(f) \ {c}) = Cardinality(HeldBy(f)) - 1
  BY <1>5, FS_RemoveElement
<1>11. \A g \in Frames : pin_count'[g] = Cardinality(HeldBy(g)')
  <2> SUFFICES ASSUME NEW g \in Frames PROVE pin_count'[g] = Cardinality(HeldBy(g)')
    OBVIOUS
  <2>1. pin_count \in [Frames -> Nat] /\ pin_count[g] = Cardinality(HeldBy(g))
    BY <1>1 DEF TypeOK, PinInv, PinsMatchHandles
  <2>2. CASE g = f
    BY <1>3, <1>6, <1>8, <1>10, <2>1, <2>2
  <2>3. CASE g # f
    BY <1>3, <1>6, <1>9, <2>1, <2>3
  <2> QED
    BY <2>2, <2>3
<1>12. ASSUME NEW e \in Clients, handle'[e] # NoHandle
       PROVE  page_id'[handle'[e].frame] = handle'[e].page
  BY <1>2, <1>7, <1>12 DEF PinInv, PinsMatchHandles
<1> QED
  BY <1>11, <1>12 DEF PinsMatchHandles

\* DeletePage takes the page out of a frame that nobody holds.
LEMMA PinDelete ==
  ASSUME PinInv, NEW p \in PageIds, DeletePage(p)
  PROVE  PinsMatchHandles'
<1> DEFINE f == Lookup(p)
<1>1. TypeOK /\ PoolInv
  BY DEF PinInv, PoolInv
<1>2. handle' = handle
  BY DEF DeletePage
<1>3. \A g : HeldBy(g)' = HeldBy(g)
  BY <1>2 DEF HeldBy
<1>4. CASE ~InTable(p)
  <2>1. UNCHANGED <<page_id, pin_count>>
    BY <1>4 DEF DeletePage
  <2> QED
    BY <1>2, <1>3, <2>1 DEF PinInv, PinsMatchHandles
<1>5. CASE InTable(p)
  <2>1. /\ f \in Frames /\ pin_count[f] <= 0
        /\ page_id' = [page_id EXCEPT ![f] = INVALID_PAGE_ID]
        /\ pin_count' = [pin_count EXCEPT ![f] = 0]
    BY <1>1, <1>5, LookupFrame DEF DeletePage
  <2> HIDE DEF f
  <2>2. pin_count \in [Frames -> Nat] /\ page_id \in [Frames -> PageIds \cup {INVALID_PAGE_ID}]
    BY <1>1 DEF TypeOK
  <2>3. pin_count[f] = 0
    BY <2>1, <2>2
  <2>4. \A e \in Clients : handle[e].frame # f
    BY <2>1, <2>3, HoldersHavePins DEF HeldBy
  <2>5. pin_count' = pin_count
    BY <2>1, <2>2, <2>3
  <2>6. ASSUME NEW e \in Clients, handle[e] # NoHandle
        PROVE  page_id'[handle[e].frame] = handle[e].page
    <3>1. handle[e].frame \in Frames
      BY <1>1, <2>6 DEF TypeOK, Handles
    <3> QED
      BY <2>1, <2>2, <2>4, <2>6, <3>1 DEF PinInv, PinsMatchHandles
  <2> QED
    BY <1>2, <1>3, <2>5, <2>6 DEF PinInv, PinsMatchHandles
<1> QED
  BY <1>4, <1>5

\* The other steps leave pins, pages and handles alone, but for the note that a
\* client has written.
LEMMA PinOthers ==
  ASSUME PinInv, UNCHANGED <<page_id, pin_count>>,
         \A c \in Clients : /\ handle'[c].frame = handle[c].frame
                            /\ handle'[c].page = handle[c].page
                            /\ handle'[c] # NoHandle => handle[c] # NoHandle
  PROVE  PinsMatchHandles'
<1>1. \A g : HeldBy(g)' = HeldBy(g)
  BY DEF HeldBy
<1>2. \A g \in Frames : pin_count'[g] = Cardinality(HeldBy(g)')
  BY <1>1 DEF PinInv, PinsMatchHandles
<1>3. \A c \in Clients : handle'[c] # NoHandle => page_id'[handle'[c].frame] = handle'[c].page
  BY DEF PinInv, PinsMatchHandles
<1> QED
  BY <1>2, <1>3 DEF PinsMatchHandles

LEMMA PinWrite ==
  ASSUME PinInv, NEW c \in Clients, NEW d \in Contents, Write(c, d)
  PROVE  PinsMatchHandles'
<1>1. /\ handle[c] # NoHandle /\ handle' = [handle EXCEPT ![c].wrote = TRUE]
      /\ UNCHANGED <<page_id, pin_count>>
  BY DEF Write
<1>2. handle[c] \in Handles /\ handle \in [Clients -> Handles \cup {NoHandle}]
  BY <1>1 DEF PinInv, PoolInv, TypeOK
<1>3. /\ [handle[c] EXCEPT !.wrote = TRUE].frame = handle[c].frame
      /\ [handle[c] EXCEPT !.wrote = TRUE].page = handle[c].page
  BY <1>2 DEF Handles
<1>4. \A e \in Clients : /\ handle'[e].frame = handle[e].frame
                         /\ handle'[e].page = handle[e].page
                         /\ handle'[e] # NoHandle => handle[e] # NoHandle
  BY <1>1, <1>2, <1>3
<1> QED
  BY <1>1, <1>4, PinOthers

\* As long as no pinned frame is taken away, pin counts are the numbers of
\* holders, for any such pool and any clients.
THEOREM PinInvariant == PinSpec => []PinInv
<1>1. Init => PinInv
  <2> SUFFICES ASSUME Init PROVE PinsMatchHandles
    BY InitPoolInv DEF PinInv
  <2>1. \A f \in Frames : HeldBy(f) = {} /\ pin_count[f] = 0
    BY PoolIsNotEmpty DEF Init, HeldBy, NoHandle, Frames
  <2>2. \A c \in Clients : handle[c] = NoHandle
    BY DEF Init
  <2> QED
    BY <2>1, <2>2, FS_EmptySet DEF PinsMatchHandles
<1>2. PinInv /\ [Next /\ PinnedStay]_vars => PinInv'
  <2> SUFFICES ASSUME PinInv, [Next /\ PinnedStay]_vars PROVE PinInv'
    OBVIOUS
  <2>0. PoolInv
    BY DEF PinInv
  <2>1. CASE Next /\ PinnedStay
    <3>1. PoolInv'
      BY <2>0, <2>1, FetchHitPreserves, FetchMissPreserves, UnpinPreserves,
         NewPagePreserves, FlushPreserves, DeletePreserves, FlushAllPreserves,
         OthersPreserve DEF Next, FetchPage
    <3>2. ASSUME NEW p \in PageIds, FlushPage(p) PROVE PinsMatchHandles'
      BY <3>2, PinOthers DEF FlushPage, clientVars
    <3>3. ASSUME FlushAllPages \/ NewPageFails PROVE PinsMatchHandles'
      BY <3>3, PinOthers DEF FlushAllPages, NewPageFails, clientVars, frameVars
    <3>4. PinsMatchHandles'
      <4>1. ASSUME NEW c \in Clients, NEW p \in PageIds, FetchPage(c, p)
            PROVE  PinsMatchHandles'
        BY <2>1, <4>1, PinFetchHit, PinFetchMiss DEF FetchPage
      <4>2. ASSUME NEW c \in Clients, UnpinPage(c) \/ NewPage(c)
            PROVE  PinsMatchHandles'
        BY <2>1, <4>2, PinUnpin, PinNewPage
      <4>3. ASSUME NEW c \in Clients, NEW d \in Contents, Write(c, d)
            PROVE  PinsMatchHandles'
        BY <4>3, PinWrite
      <4>4. ASSUME NEW p \in PageIds, DeletePage(p) PROVE PinsMatchHandles'
        BY <4>4, PinDelete
      <4> QED
        BY <2>1, <3>2, <3>3, <4>1, <4>2, <4>3, <4>4 DEF Next
    <3> QED
      BY <3>1, <3>4 DEF PinInv
  <2>2. CASE UNCHANGED vars
    <3>1. PoolInv'
      BY <2>0, <2>2 DEF vars, frameVars, diskVars, clientVars, PoolInv, TypeOK,
                        TableMatchesFrames, FreeFramesAreBlank,
                        IdleFramesAreReplaceable, Has
    <3>2. PinsMatchHandles'
      BY <2>2, PinOthers DEF vars, frameVars, clientVars
    <3> QED
      BY <3>1, <3>2 DEF PinInv
  <2> QED
    BY <2>1, <2>2
<1> QED
  BY <1>1, <1>2, PTL DEF PinSpec

\* As long as no pinned frame is taken away, a frame that nobody holds can be
\* taken: it is in the free list or in the replacer.
THEOREM FramesComeBack == PinSpec => []NoFrameIsLost
<1>1. PinInv => NoFrameIsLost
  <2> SUFFICES ASSUME PinInv, NEW f \in Frames, HeldBy(f) = {}
               PROVE  Has(free_list, f) \/ Has(replacer, f)
    BY DEF NoFrameIsLost
  <2>1. pin_count[f] = 0
    BY HoldersHavePins
  <2> QED
    BY <2>1 DEF PinInv, PoolInv, FreeFramesAreBlank, IdleFramesAreReplaceable
<1> QED
  BY <1>1, PinInvariant, PTL
=============================================================================
