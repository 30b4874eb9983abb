---------------------------- MODULE TablePageProofs ----------------------------
(***************************************************************************)
(* Proofs about TablePage for every page size, header, slot size and set of *)
(* tuples.                                                                  *)
(***************************************************************************)
EXTENDS TablePage, TLAPS

\* The space of the slots, as far as arithmetic on products is needed.
LEMMA SlotSpace ==
  ASSUME NEW n \in Nat
  PROVE  /\ n * SlotSize \in Nat
         /\ n <= n * SlotSize
         /\ (n + 1) * SlotSize = n * SlotSize + SlotSize
  BY SizeAssumption

\* A tuple is the sequence of its bytes.
LEMMA TupleBytes ==
  ASSUME NEW t \in Tuples
  PROVE  /\ Len(t) \in Nat \ {0}
         /\ t = [k \in 1 .. Len(t) |-> t[k]]
         /\ \A k \in 1 .. Len(t) : t[k] \in Byte
         /\ t # NoTuple
  BY TupleAssumption

\* What the invariant says of a slot that holds a tuple.
LEMMA LiveSlot ==
  ASSUME PageInv, NEW j \in Live
  PROVE  /\ j \in Used /\ j \in Slots
         /\ offset[j] \in Nat /\ size[j] \in Nat \ {0}
         /\ free_space_pointer \in Nat /\ free_space_pointer <= offset[j]
         /\ offset[j] + size[j] <= PageSize
         /\ \A k \in 1 .. size[j] : offset[j] + k - 1 \in Addresses
<1>1. j \in Used /\ size[j] > 0 /\ TypeOK /\ FitsInPage
  BY DEF PageInv, Live
<1>2. j \in Slots
  BY <1>1, SizeAssumption DEF Used, Slots, TypeOK
<1>3. offset[j] \in Nat /\ size[j] \in Nat \ {0} /\ free_space_pointer \in Nat
  BY <1>1, <1>2, SizeAssumption DEF TypeOK
<1>4. free_space_pointer <= offset[j] /\ offset[j] + size[j] <= PageSize
  BY <1>1 DEF FitsInPage
<1> QED
  BY <1>1, <1>2, <1>3, <1>4, SizeAssumption DEF Addresses

\* GetTuple finds a tuple in every slot that holds one.
LEMMA LiveIsTuple ==
  ASSUME PageInv, NEW j \in Live
  PROVE  GetTuple(j) # NoTuple
<1>1. \A k \in 1 .. size[j] : bytes[offset[j] + k - 1] \in Byte
  BY LiveSlot DEF PageInv, TypeOK
<1>2. GetTuple(j) \in Seq(Byte)
  BY <1>1, LiveSlot DEF GetTuple
<1> QED
  BY <1>2, TupleAssumption

\* Initially the page is empty.
LEMMA InitPage == Init => PageInv /\ Store!Init
<1> SUFFICES ASSUME Init PROVE PageInv /\ Store!Init
  OBVIOUS
<1>1. Live = {}
  BY DEF Init, Live, Used
<1>2. TypeOK
  BY SizeAssumption, ByteAssumption DEF Init, TypeOK, Slots, Addresses
<1>3. FitsInPage /\ TuplesAreDisjoint /\ NoByteIsLost
  BY <1>1, SizeAssumption DEF Init, FitsInPage, TuplesAreDisjoint, NoByteIsLost
<1>4. Store!Init
  BY <1>1 DEF Store!Init, GetTuple
<1> QED
  BY <1>2, <1>3, <1>4 DEF PageInv

\* An insertion writes below the free space pointer, where no tuple is.
LEMMA InsertStep ==
  ASSUME PageInv, NEW i \in Slots, NEW t \in Tuples, InsertTuple(i, t)
  PROVE  PageInv' /\ Store!Insert(i, t)
<1> DEFINE dst == free_space_pointer - Len(t)
<1>1. TypeOK /\ FitsInPage /\ TuplesAreDisjoint /\ NoByteIsLost
  BY DEF PageInv
<1>2. Len(t) \in Nat \ {0} /\ \A k \in 1 .. Len(t) : t[k] \in Byte
  BY TupleBytes
<1>3. /\ tuple_count \in Nat /\ free_space_pointer \in Nat
      /\ tuple_count * SlotSize \in Nat
      /\ HeaderSize + tuple_count * SlotSize <= dst
      /\ HeaderSize + tuple_count' * SlotSize <= dst
      /\ tuple_count' \in 0 .. PageSize
      /\ dst \in 0 .. PageSize
  <2>1. tuple_count \in Nat /\ free_space_pointer \in Nat /\ free_space_pointer <= PageSize
    BY <1>1, SizeAssumption DEF TypeOK
  <2>2. /\ tuple_count * SlotSize \in Nat
        /\ tuple_count <= tuple_count * SlotSize
        /\ (tuple_count + 1) * SlotSize = tuple_count * SlotSize + SlotSize
    BY <2>1, SlotSpace
  <2>3. HeaderSize + tuple_count * SlotSize <= dst
    BY <1>2, <2>1, <2>2, SizeAssumption DEF InsertTuple, HasRoom, GetFreeSpaceSize
  <2>4. CASE i = tuple_count
    <3>1. tuple_count' = tuple_count + 1
      BY <2>4 DEF InsertTuple
    <3>2. HeaderSize + tuple_count * SlotSize + SlotSize <= dst
      BY <1>2, <2>1, <2>2, <2>4, SizeAssumption DEF InsertTuple, HasRoom, GetFreeSpaceSize
    <3> QED
      BY <1>2, <2>1, <2>2, <2>3, <3>1, <3>2, SizeAssumption
  <2>5. CASE i # tuple_count
    <3>1. tuple_count' = tuple_count
      BY <2>5 DEF InsertTuple
    <3> QED
      BY <1>1, <1>2, <2>1, <2>2, <2>3, <3>1, SizeAssumption DEF TypeOK
  <2> QED
    BY <2>4, <2>5
<1>4. /\ free_space_pointer' = dst
      /\ bytes' = Copied(bytes, dst, t)
      /\ offset' = [offset EXCEPT ![i] = dst]
      /\ size' = [size EXCEPT ![i] = Len(t)]
  BY DEF InsertTuple
<1>5. i \notin Live /\ Live' = Live \cup {i}
  <2>1. i \in 0 .. tuple_count /\ (i < tuple_count => size[i] <= 0)
    BY DEF InsertTuple, FreeSlot
  <2>2. tuple_count' = IF i = tuple_count THEN tuple_count + 1 ELSE tuple_count
    BY DEF InsertTuple
  <2>3. i \notin Live
    BY <1>1, <1>3, <2>1 DEF Live, Used, TypeOK
  <2>4. \A j \in Used' : j \in Used \/ j = i
    BY <1>3, <2>1, <2>2 DEF Used
  <2>5. \A j \in Used \cup {i} : j \in Used' /\ j \in Slots
    BY <1>1, <1>3, <2>1, <2>2, SizeAssumption DEF Used, Slots, TypeOK
  <2>6. \A j \in Slots : size'[j] = IF j = i THEN Len(t) ELSE size[j]
    BY <1>1, <1>4 DEF TypeOK
  <2> QED
    BY <1>2, <2>3, <2>4, <2>5, <2>6 DEF Live
<1>6. \A j \in Live : j \in Slots /\ j # i /\ offset'[j] = offset[j] /\ size'[j] = size[j]
  BY <1>1, <1>4, <1>5, LiveSlot DEF TypeOK
<1>7. offset'[i] = dst /\ size'[i] = Len(t)
  BY <1>1, <1>4 DEF TypeOK
<1>8. \A j \in Live : /\ offset[j] \in Nat /\ size[j] \in Nat \ {0}
                      /\ free_space_pointer <= offset[j]
                      /\ offset[j] + size[j] <= PageSize
  BY LiveSlot
<1>9. TypeOK'
  <2>1. bytes' \in [Addresses -> Byte]
    BY <1>1, <1>2, <1>3, <1>4 DEF Copied, TypeOK, Addresses
  <2>2. Len(t) \in 0 .. PageSize
    BY <1>1, <1>2, <1>3, SizeAssumption DEF TypeOK
  <2> QED
    BY <1>1, <1>3, <1>4, <2>1, <2>2 DEF TypeOK
<1>10. FitsInPage'
  BY <1>2, <1>3, <1>4, <1>5, <1>6, <1>7, <1>8, SizeAssumption, <1>1 DEF FitsInPage, TypeOK
<1>11. TuplesAreDisjoint'
  BY <1>1, <1>2, <1>3, <1>5, <1>6, <1>7, <1>8 DEF TuplesAreDisjoint
<1>12. NoByteIsLost'
  <2> SUFFICES ASSUME NEW a \in dst .. PageSize - 1
               PROVE  \E j \in Live' : offset'[j] <= a /\ a < offset'[j] + size'[j]
    BY <1>4 DEF NoByteIsLost
  <2>1. CASE a < free_space_pointer
    BY <1>2, <1>3, <1>5, <1>7, <2>1
  <2>2. CASE a >= free_space_pointer
    <3>1. PICK j \in Live : offset[j] <= a /\ a < offset[j] + size[j]
      BY <1>1, <1>3, <2>2, SizeAssumption DEF NoByteIsLost
    <3> QED
      BY <1>5, <1>6, <3>1
  <2> QED
    BY <1>3, <2>1, <2>2, SizeAssumption
<1>13. \A j \in Live : GetTuple(j)' = GetTuple(j)
  <2> SUFFICES ASSUME NEW j \in Live PROVE GetTuple(j)' = GetTuple(j)
    OBVIOUS
  <2>1. \A k \in 1 .. size[j] : bytes'[offset[j] + k - 1] = bytes[offset[j] + k - 1]
    <3> SUFFICES ASSUME NEW a \in Addresses, a >= free_space_pointer PROVE bytes'[a] = bytes[a]
      BY <1>8, LiveSlot
    <3>1. a \notin dst .. dst + Len(t) - 1
      BY <1>2, <1>3 DEF Addresses
    <3> QED
      BY <1>4, <3>1 DEF Copied
  <2> QED
    BY <1>5, <1>6, <2>1 DEF GetTuple
<1>14. GetTuple(i)' = t
  <2>1. \A k \in 1 .. Len(t) : bytes'[dst + k - 1] = t[k]
    BY <1>1, <1>2, <1>3, <1>4, SizeAssumption DEF Copied, Addresses, TypeOK
  <2>2. GetTuple(i)' = [k \in 1 .. Len(t) |-> bytes'[dst + k - 1]]
    BY <1>5, <1>7 DEF GetTuple
  <2> QED
    BY <2>1, <2>2, TupleBytes
<1>15. Store!Insert(i, t)
  <2>1. \A j \in Slots : GetTuple(j)' = IF j = i THEN t ELSE GetTuple(j)
    <3>1. \A j \in Slots \ (Live \cup {i}) : GetTuple(j)' = NoTuple /\ GetTuple(j) = NoTuple
      BY <1>5 DEF GetTuple
    <3> QED
      BY <1>5, <1>13, <1>14, <3>1
  <2>2. GetTuple(i) = NoTuple
    BY <1>5 DEF GetTuple
  <2> QED
    BY <2>1, <2>2 DEF Store!Insert
<1> QED
  BY <1>9, <1>10, <1>11, <1>12, <1>15 DEF PageInv

\* A deletion moves the tuples below the deleted one up by its size.
LEMMA DeleteStep ==
  ASSUME PageInv, NEW i \in Slots, DeleteTuple(i)
  PROVE  PageInv' /\ Store!Delete(i)
<1> DEFINE fsp == free_space_pointer
           below(j) == offset[j] < offset[i]
<1>1. TypeOK /\ FitsInPage /\ TuplesAreDisjoint /\ NoByteIsLost
  BY DEF PageInv
<1>2. i \in Live /\ tuple_count' = tuple_count /\ fsp' = fsp + size[i]
  BY DEF DeleteTuple
<1>3. /\ offset[i] \in Nat /\ size[i] \in Nat \ {0}
      /\ fsp \in Nat /\ fsp <= offset[i] /\ offset[i] + size[i] <= PageSize
  BY <1>2, LiveSlot
<1>4. size' = [size EXCEPT ![i] = 0]
  BY DEF DeleteTuple
<1>5. Live' = Live \ {i}
  <2>1. \A j \in Used : j \in Slots
    BY <1>1, SizeAssumption DEF Used, Slots, TypeOK
  <2>2. Used' = Used /\ \A j \in Slots : size'[j] = IF j = i THEN 0 ELSE size[j]
    BY <1>1, <1>2, <1>4 DEF Used, TypeOK
  <2> QED
    BY <2>1, <2>2 DEF Live
<1>6. \A j \in Live \ {i} :
        /\ size'[j] = size[j]
        /\ offset'[j] = IF below(j) THEN offset[j] + size[i] ELSE offset[j]
  BY <1>1, <1>4, LiveSlot DEF DeleteTuple, TypeOK
<1>7. \A j \in Live \ {i} :
        /\ offset[j] \in Nat /\ size[j] \in Nat \ {0}
        /\ fsp <= offset[j] /\ offset[j] + size[j] <= PageSize
        /\ below(j) => offset[j] + size[j] <= offset[i]
        /\ ~below(j) => offset[i] + size[i] <= offset[j]
  BY <1>1, <1>2, <1>3, LiveSlot DEF TuplesAreDisjoint
<1>8. TypeOK'
  <2>1. fsp' \in 0 .. PageSize
    BY <1>2, <1>3, SizeAssumption
  <2>2. offset' \in [Slots -> 0 .. PageSize]
    <3> SUFFICES ASSUME NEW j \in Slots PROVE offset'[j] \in 0 .. PageSize
      BY DEF DeleteTuple
    <3>1. CASE j = i
      BY <3>1, SizeAssumption DEF DeleteTuple
    <3>2. CASE j \in Live \ {i}
      BY <1>3, <1>6, <1>7, <3>2, SizeAssumption
    <3>3. CASE j \notin Live /\ j # i
      BY <1>1, <3>3 DEF DeleteTuple, TypeOK
    <3> QED
      BY <3>1, <3>2, <3>3
  <2>3. bytes' \in [Addresses -> Byte]
    <3> SUFFICES ASSUME NEW a \in Addresses PROVE bytes'[a] \in Byte
      BY DEF DeleteTuple, Moved
    <3>1. CASE a \in fsp + size[i] .. fsp + size[i] + (offset[i] - fsp) - 1
      <4>1. a - (fsp + size[i]) + fsp \in Addresses
        BY <1>3, <3>1, SizeAssumption DEF Addresses
      <4>2. bytes'[a] = bytes[a - (fsp + size[i]) + fsp]
        BY <3>1 DEF DeleteTuple, Moved
      <4> QED
        BY <1>1, <4>1, <4>2 DEF TypeOK
    <3>2. CASE a \notin fsp + size[i] .. fsp + size[i] + (offset[i] - fsp) - 1
      BY <1>1, <3>2 DEF DeleteTuple, Moved, TypeOK
    <3> QED
      BY <3>1, <3>2
  <2>4. size' \in [Slots -> 0 .. PageSize]
    BY <1>1, <1>4, SizeAssumption DEF TypeOK
  <2> QED
    BY <1>1, <1>2, <2>1, <2>2, <2>3, <2>4 DEF TypeOK
<1>9. FitsInPage'
  <2>1. HeaderSize + tuple_count * SlotSize <= fsp /\ tuple_count * SlotSize \in Nat
    BY <1>1, SlotSpace, SizeAssumption DEF FitsInPage, TypeOK
  <2>2. HeaderSize + tuple_count' * SlotSize <= fsp'
    BY <1>2, <1>3, <2>1, SizeAssumption
  <2>3. \A j \in Live \ {i} : fsp' <= offset'[j] /\ offset'[j] + size'[j] <= PageSize
    BY <1>2, <1>3, <1>6, <1>7, SizeAssumption
  <2> QED
    BY <1>5, <2>2, <2>3 DEF FitsInPage
<1>10. TuplesAreDisjoint'
  <2> SUFFICES ASSUME NEW j \in Live \ {i}, NEW l \in Live \ {i}, j # l
               PROVE  offset'[j] + size'[j] <= offset'[l] \/ offset'[l] + size'[l] <= offset'[j]
    BY <1>5 DEF TuplesAreDisjoint
  <2>1. offset[j] + size[j] <= offset[l] \/ offset[l] + size[l] <= offset[j]
    BY <1>1 DEF TuplesAreDisjoint
  <2> QED
    BY <1>3, <1>6, <1>7, <2>1
<1>11. NoByteIsLost'
  <2> SUFFICES ASSUME NEW a \in fsp + size[i] .. PageSize - 1
               PROVE  \E j \in Live \ {i} : offset'[j] <= a /\ a < offset'[j] + size'[j]
    BY <1>2, <1>5 DEF NoByteIsLost
  <2>1. CASE a < offset[i] + size[i]
    <3>1. PICK j \in Live : offset[j] <= a - size[i] /\ a - size[i] < offset[j] + size[j]
      BY <1>1, <1>3, <2>1, SizeAssumption DEF NoByteIsLost
    <3>2. j # i /\ below(j)
      BY <1>3, <1>7, <2>1, <3>1
    <3> QED
      BY <1>3, <1>6, <1>7, <3>1, <3>2
  <2>2. CASE a >= offset[i] + size[i]
    <3>1. PICK j \in Live : offset[j] <= a /\ a < offset[j] + size[j]
      BY <1>1, <1>3, SizeAssumption DEF NoByteIsLost
    <3>2. j # i /\ ~below(j)
      BY <1>3, <1>7, <2>2, <3>1
    <3> QED
      BY <1>3, <1>6, <1>7, <3>1, <3>2
  <2> QED
    BY <1>3, <2>1, <2>2, SizeAssumption
<1>12. \A j \in Live \ {i} : GetTuple(j)' = GetTuple(j)
  <2> SUFFICES ASSUME NEW j \in Live \ {i} PROVE GetTuple(j)' = GetTuple(j)
    OBVIOUS
  <2>1. ASSUME NEW k \in 1 .. size[j]
        PROVE  bytes'[offset'[j] + k - 1] = bytes[offset[j] + k - 1]
    <3>1. offset[j] + k - 1 \in Addresses
      BY LiveSlot
    <3>2. CASE below(j)
      <4>1. /\ offset[j] + size[i] + k - 1 \in fsp + size[i] .. fsp + size[i] + (offset[i] - fsp) - 1
            /\ offset[j] + size[i] + k - 1 \in Addresses
            /\ offset[j] + size[i] + k - 1 - (fsp + size[i]) + fsp = offset[j] + k - 1
        BY <1>3, <1>7, <3>2, SizeAssumption DEF Addresses
      <4> DEFINE a == offset[j] + size[i] + k - 1
      <4>2. bytes'[a] = bytes[a - (fsp + size[i]) + fsp]
        BY <4>1 DEF DeleteTuple, Moved
      <4>3. offset'[j] + k - 1 = a
        BY <1>3, <1>6, <1>7, <3>2
      <4>4. a - (fsp + size[i]) + fsp = offset[j] + k - 1
        BY <1>3, <1>7, <4>1
      <4> HIDE DEF a
      <4> QED
        BY <4>2, <4>3, <4>4
    <3>3. CASE ~below(j)
      <4>1. offset[j] + k - 1 \notin fsp + size[i] .. fsp + size[i] + (offset[i] - fsp) - 1
        BY <1>3, <1>7, <3>3
      <4> QED
        BY <1>6, <3>1, <3>3, <4>1 DEF DeleteTuple, Moved
    <3> QED
      BY <3>2, <3>3
  <2> QED
    BY <1>5, <1>6, <2>1 DEF GetTuple
<1>13. Store!Delete(i)
  <2>1. \A j \in Slots : GetTuple(j)' = IF j = i THEN NoTuple ELSE GetTuple(j)
    BY <1>5, <1>12 DEF GetTuple
  <2>2. GetTuple(i) # NoTuple
    BY <1>2, LiveIsTuple
  <2> QED
    BY <2>1, <2>2 DEF Store!Delete
<1> QED
  BY <1>8, <1>9, <1>10, <1>11, <1>13 DEF PageInv

\* An update moves the tuples below the updated one by the difference in size,
\* which may be negative, and writes the new tuple against the old one's end.
LEMMA UpdateStep ==
  ASSUME PageInv, NEW i \in Slots, NEW t \in Tuples, UpdateTuple(i, t)
  PROVE  PageInv' /\ Store!Update(i, t)
<1> DEFINE fsp == free_space_pointer
<1>1. TypeOK /\ FitsInPage /\ TuplesAreDisjoint /\ NoByteIsLost
  BY DEF PageInv
<1>2. i \in Live /\ tuple_count' = tuple_count /\ fsp \in Nat
  BY SizeAssumption DEF UpdateTuple, PageInv, TypeOK
\* The tuple lies from start to end and moves by shift.
<1>3. PICK start \in Nat, end \in Nat, len \in Nat \ {0}, shift \in Int :
        /\ start = offset[i] /\ end = offset[i] + size[i] /\ len = Len(t)
        /\ shift = size[i] - Len(t)
  <2>1. /\ offset[i] \in Nat /\ offset[i] + size[i] \in Nat
        /\ Len(t) \in Nat \ {0} /\ size[i] - Len(t) \in Int
    BY <1>2, LiveSlot, TupleBytes
  <2> QED
    BY <2>1
<1>a. /\ fsp \in Nat /\ start + shift + len = end
      /\ fsp <= start /\ start < end /\ end <= PageSize
  BY <1>2, <1>3, LiveSlot, TupleBytes
<1> DEFINE below(j) == offset[j] < end
<1>0. fsp' = fsp + shift /\ \A k \in 1 .. len : t[k] \in Byte
  BY <1>3, TupleBytes DEF UpdateTuple
<1>4. size' = [size EXCEPT ![i] = len]
  BY <1>3 DEF UpdateTuple
<1>5. Live' = Live
  <2>1. \A j \in Used : j \in Slots
    BY <1>1, SizeAssumption DEF Used, Slots, TypeOK
  <2>2. Used' = Used /\ \A j \in Slots : size'[j] = IF j = i THEN len ELSE size[j]
    BY <1>1, <1>2, <1>4 DEF Used, TypeOK
  <2> QED
    BY <1>2, <1>3, <2>1, <2>2 DEF Live
<1>6. /\ size'[i] = len /\ offset'[i] = start + shift
      /\ \A j \in Live \ {i} :
           /\ size'[j] = size[j]
           /\ offset'[j] = IF below(j) THEN offset[j] + shift ELSE offset[j]
  <2>1. \A j \in Live : j \in Slots
    BY LiveSlot
  <2>2. \A j \in Live : offset'[j] = IF below(j) THEN offset[j] + shift ELSE offset[j]
    BY <1>3, <2>1 DEF UpdateTuple
  <2>3. below(i)
    BY <1>3, <1>a
  <2>4. \A j \in Live : size'[j] = IF j = i THEN len ELSE size[j]
    BY <1>1, <1>4, <2>1 DEF TypeOK
  <2> QED
    BY <1>2, <1>3, <2>2, <2>3, <2>4
<1>7. \A j \in Live \ {i} :
        /\ offset[j] \in Nat /\ size[j] \in Nat \ {0}
        /\ fsp <= offset[j] /\ offset[j] + size[j] <= PageSize
        /\ below(j) => offset[j] + size[j] <= start
        /\ ~below(j) => end <= offset[j]
  <2> SUFFICES ASSUME NEW j \in Live \ {i}
               PROVE  /\ offset[j] \in Nat /\ size[j] \in Nat \ {0}
                      /\ fsp <= offset[j] /\ offset[j] + size[j] <= PageSize
                      /\ below(j) => offset[j] + size[j] <= start
                      /\ ~below(j) => end <= offset[j]
    OBVIOUS
  <2>1. /\ offset[j] \in Nat /\ size[j] \in Nat \ {0}
        /\ fsp <= offset[j] /\ offset[j] + size[j] <= PageSize
    BY LiveSlot
  <2>2. end <= offset[j] \/ offset[j] + size[j] <= start
    BY <1>1, <1>2, <1>3 DEF TuplesAreDisjoint
  <2> QED
    BY <1>a, <2>1, <2>2
<1>8. /\ tuple_count * SlotSize \in Nat
      /\ HeaderSize + tuple_count * SlotSize <= fsp + shift
  <2>1. tuple_count * SlotSize \in Nat
    BY <1>1, SlotSpace, SizeAssumption DEF TypeOK
  <2>2. fsp - HeaderSize - tuple_count * SlotSize >= len - size[i]
    BY <1>3 DEF UpdateTuple, GetFreeSpaceSize
  <2>3. len - size[i] = 0 - shift
    BY <1>2, <1>3, LiveSlot, TupleBytes
  <2> QED
    BY <1>a, <2>1, <2>2, <2>3, SizeAssumption
<1>9. fsp + shift \in Nat
  BY <1>a, <1>8, SizeAssumption
<1> DEFINE moved == Moved(bytes, fsp + shift, fsp, start - fsp)
<1>10. bytes' = Copied(moved, start + shift, t)
  BY <1>3 DEF UpdateTuple
\* What the update does to the bytes: below, in and above the tuple.
<1>11. ASSUME NEW a \in fsp .. start - 1
       PROVE  a + shift \in Addresses /\ bytes'[a + shift] = bytes[a]
  <2>1. /\ a + shift \in Addresses
        /\ a + shift \in fsp + shift .. fsp + shift + (start - fsp) - 1
        /\ a + shift - (fsp + shift) + fsp = a
        /\ a + shift \notin start + shift .. start + shift + len - 1
    BY <1>a, <1>9, SizeAssumption DEF Addresses
  <2> DEFINE b == a + shift
  <2>2. moved[b] = bytes[b - (fsp + shift) + fsp]
    BY <2>1 DEF Moved
  <2>3. bytes'[b] = moved[b]
    BY <1>10, <2>1 DEF Copied
  <2>4. b - (fsp + shift) + fsp = a
    BY <1>a
  <2> HIDE DEF b
  <2>5. bytes'[b] = bytes[a]
    BY <2>2, <2>3, <2>4
  <2> QED
    BY <2>1, <2>5 DEF b
<1>12. ASSUME NEW k \in 1 .. len
       PROVE  bytes'[start + shift + k - 1] = t[k]
  <2> DEFINE b == start + shift + k - 1
  <2>1. /\ b \in Addresses
        /\ b \in start + shift .. start + shift + len - 1
        /\ b - (start + shift) + 1 = k
    BY <1>a, <1>9, SizeAssumption DEF Addresses
  <2>2. bytes'[b] = t[b - (start + shift) + 1]
    BY <1>3, <1>10, <2>1 DEF Copied
  <2> QED
    BY <2>1, <2>2
<1>13. ASSUME NEW a \in Addresses, a >= end \/ a < fsp + shift
       PROVE  bytes'[a] = bytes[a]
  <2>1. /\ a \notin fsp + shift .. fsp + shift + (start - fsp) - 1
        /\ a \notin start + shift .. start + shift + len - 1
    BY <1>a, <1>13 DEF Addresses
  <2>2. moved[a] = bytes[a]
    BY <2>1 DEF Moved
  <2> QED
    BY <1>3, <1>10, <2>1, <2>2 DEF Copied
<1>14. TypeOK'
  <2>1. fsp' \in 0 .. PageSize
    BY <1>0, <1>a, <1>9, SizeAssumption
  <2>2. offset' \in [Slots -> 0 .. PageSize]
    <3> SUFFICES ASSUME NEW j \in Slots PROVE offset'[j] \in 0 .. PageSize
      BY <1>3 DEF UpdateTuple
    <3>1. CASE j \in Live
      BY <1>a, <1>6, <1>7, <1>9, <3>1, SizeAssumption
    <3>2. CASE j \notin Live
      BY <1>1, <3>2 DEF UpdateTuple, TypeOK
    <3> QED
      BY <3>1, <3>2
  <2>3. bytes' \in [Addresses -> Byte]
    <3> SUFFICES ASSUME NEW a \in Addresses PROVE bytes'[a] \in Byte
      BY <1>10 DEF Copied
    <3>1. CASE a >= end \/ a < fsp + shift
      BY <1>1, <1>13, <3>1 DEF TypeOK
    <3>2. CASE a \in fsp + shift .. start + shift - 1
      <4>1. a - shift \in fsp .. start - 1 /\ (a - shift) + shift = a
        BY <1>a, <3>2 DEF Addresses
      <4>2. a - shift \in Addresses
        BY <1>a, <4>1, SizeAssumption DEF Addresses
      <4>3. bytes'[(a - shift) + shift] = bytes[a - shift]
        BY <1>11, <4>1
      <4> QED
        BY <1>1, <4>1, <4>2, <4>3 DEF TypeOK
    <3>3. CASE a \in start + shift .. end - 1
      <4>1. PICK k \in 1 .. len : a = start + shift + k - 1
        <5>1. a - (start + shift) + 1 \in 1 .. len
          BY <1>a, <3>3 DEF Addresses
        <5>2. a = start + shift + (a - (start + shift) + 1) - 1
          BY <1>a DEF Addresses
        <5> QED
          BY <5>1, <5>2
      <4> QED
        BY <1>0, <1>12, <4>1
    <3> QED
      BY <1>a, <1>9, <3>1, <3>2, <3>3 DEF Addresses
  <2>4. size' \in [Slots -> 0 .. PageSize]
    <3>1. len \in 0 .. PageSize
      BY <1>a, <1>9, SizeAssumption
    <3> QED
      BY <1>1, <1>4, <3>1 DEF TypeOK
  <2> QED
    BY <1>1, <1>2, <2>1, <2>2, <2>3, <2>4 DEF TypeOK
<1>15. FitsInPage'
  <2>1. HeaderSize + tuple_count' * SlotSize <= fsp'
    BY <1>0, <1>2, <1>8
  <2>2. \A j \in Live : fsp' <= offset'[j] /\ offset'[j] + size'[j] <= PageSize
    BY <1>0, <1>a, <1>6, <1>7, <1>9, SizeAssumption
  <2> QED
    BY <1>5, <2>1, <2>2 DEF FitsInPage
<1>16. TuplesAreDisjoint'
  <2> SUFFICES ASSUME NEW j \in Live, NEW l \in Live, j # l
               PROVE  offset'[j] + size'[j] <= offset'[l] \/ offset'[l] + size'[l] <= offset'[j]
    BY <1>5 DEF TuplesAreDisjoint
  <2>1. offset[j] + size[j] <= offset[l] \/ offset[l] + size[l] <= offset[j]
    BY <1>1 DEF TuplesAreDisjoint
  <2>2. CASE j = i
    BY <1>a, <1>6, <1>7, <2>2
  <2>3. CASE l = i
    BY <1>a, <1>6, <1>7, <2>3
  <2>4. CASE j # i /\ l # i
    BY <1>a, <1>6, <1>7, <2>1, <2>4
  <2> QED
    BY <2>2, <2>3, <2>4
<1>17. NoByteIsLost'
  <2> SUFFICES ASSUME NEW a \in fsp + shift .. PageSize - 1
               PROVE  \E j \in Live : offset'[j] <= a /\ a < offset'[j] + size'[j]
    BY <1>0, <1>5 DEF NoByteIsLost
  <2>1. CASE a < start + shift
    <3>1. PICK j \in Live : offset[j] <= a - shift /\ a - shift < offset[j] + size[j]
      BY <1>1, <1>a, <2>1, SizeAssumption DEF NoByteIsLost
    <3>2. j # i /\ below(j)
      BY <1>3, <1>a, <1>7, <2>1, <3>1
    <3> QED
      BY <1>a, <1>6, <1>7, <3>1, <3>2
  <2>2. CASE start + shift <= a /\ a < end
    BY <1>2, <1>a, <1>6, <2>2
  <2>3. CASE a >= end
    <3>1. PICK j \in Live : offset[j] <= a /\ a < offset[j] + size[j]
      BY <1>1, <1>a, <2>3, SizeAssumption DEF NoByteIsLost
    <3>2. j # i /\ ~below(j)
      BY <1>3, <1>a, <1>7, <2>3, <3>1
    <3> QED
      BY <1>a, <1>6, <1>7, <3>1, <3>2
  <2> QED
    BY <1>a, <1>9, <2>1, <2>2, <2>3, SizeAssumption
<1>18. \A j \in Live \ {i} : GetTuple(j)' = GetTuple(j)
  <2> SUFFICES ASSUME NEW j \in Live \ {i} PROVE GetTuple(j)' = GetTuple(j)
    OBVIOUS
  <2>1. ASSUME NEW k \in 1 .. size[j]
        PROVE  bytes'[offset'[j] + k - 1] = bytes[offset[j] + k - 1]
    <3> DEFINE a == offset[j] + k - 1
    <3>1. a \in Addresses
      BY LiveSlot
    <3>2. CASE below(j)
      <4>1. a \in fsp .. start - 1
        BY <1>a, <1>7, <3>2
      <4>2. offset'[j] + k - 1 = a + shift
        BY <1>a, <1>6, <1>7, <3>2
      <4> QED
        BY <1>11, <4>1, <4>2
    <3>3. CASE ~below(j)
      <4>1. a >= end
        BY <1>a, <1>7, <3>3
      <4>2. bytes'[a] = bytes[a]
        BY <1>13, <3>1, <4>1
      <4> QED
        BY <1>6, <3>3, <4>2
    <3> QED
      BY <3>2, <3>3
  <2> QED
    BY <1>5, <1>6, <2>1 DEF GetTuple
<1>19. GetTuple(i)' = t
  <2>1. GetTuple(i)' = [k \in 1 .. len |-> bytes'[start + shift + k - 1]]
    BY <1>2, <1>5, <1>6 DEF GetTuple
  <2> QED
    BY <1>3, <1>12, <2>1, TupleBytes
<1>20. Store!Update(i, t)
  <2>1. \A j \in Slots : GetTuple(j)' = IF j = i THEN t ELSE GetTuple(j)
    <3>1. \A j \in Slots \ Live : GetTuple(j)' = NoTuple /\ GetTuple(j) = NoTuple
      BY <1>5 DEF GetTuple
    <3> QED
      BY <1>2, <1>18, <1>19, <3>1
  <2>2. GetTuple(i) # NoTuple
    BY <1>2, LiveIsTuple
  <2> QED
    BY <2>1, <2>2 DEF Store!Update
<1> QED
  BY <1>14, <1>15, <1>16, <1>17, <1>20 DEF PageInv

\* A step of the page keeps the invariant and is a step of the store.
LEMMA PageStep ==
  ASSUME PageInv, [Next]_vars
  PROVE  PageInv' /\ [Store!Next]_([i \in Slots |-> GetTuple(i)])
<1>1. CASE UNCHANGED vars
  <2>1. PageInv'
    BY <1>1 DEF vars, PageInv, TypeOK, FitsInPage, TuplesAreDisjoint, NoByteIsLost, Live, Used
  <2>2. \A i \in Slots : GetTuple(i)' = GetTuple(i)
    BY <1>1 DEF vars, GetTuple, Live, Used
  <2> QED
    BY <2>1, <2>2
<1>2. ASSUME NEW i \in Slots, NEW t \in Tuples, InsertTuple(i, t)
      PROVE  PageInv' /\ Store!Next
  BY <1>2, InsertStep DEF Store!Next
<1>3. ASSUME NEW i \in Slots, NEW t \in Tuples, UpdateTuple(i, t)
      PROVE  PageInv' /\ Store!Next
  BY <1>3, UpdateStep DEF Store!Next
<1>4. ASSUME NEW i \in Slots, DeleteTuple(i)
      PROVE  PageInv' /\ Store!Next
  BY <1>4, DeleteStep DEF Store!Next
<1> QED
  BY <1>1, <1>2, <1>3, <1>4 DEF Next

\* The invariant holds in every state.
THEOREM PageInvariant == Spec => []PageInv
<1>1. Init => PageInv
  BY InitPage
<1>2. PageInv /\ [Next]_vars => PageInv'
  BY PageStep
<1> QED
  BY <1>1, <1>2, PTL DEF Spec

\* Every field of the page keeps its type: offsets and sizes stay in the page.
THEOREM PageTypeCorrect == Spec => []TypeOK
<1>1. PageInv => TypeOK
  BY DEF PageInv
<1> QED
  BY <1>1, PageInvariant, PTL

\* The slots never grow into the tuples and no tuple leaves the page.
THEOREM PageFits == Spec => []FitsInPage
<1>1. PageInv => FitsInPage
  BY DEF PageInv
<1> QED
  BY <1>1, PageInvariant, PTL

\* InsertTuple, UpdateTuple and DeleteTuple never make two tuples overlap.
THEOREM PageDisjoint == Spec => []TuplesAreDisjoint
<1>1. PageInv => TuplesAreDisjoint
  BY DEF PageInv
<1> QED
  BY <1>1, PageInvariant, PTL

\* The compaction of DeleteTuple and UpdateTuple leaves no byte unaccounted for.
THEOREM PageCompact == Spec => []NoByteIsLost
<1>1. PageInv => NoByteIsLost
  BY DEF PageInv
<1> QED
  BY <1>1, PageInvariant, PTL

\* The slotted page is a map from slots to tuples: what an operation writes is
\* what GetTuple then reads, and every other tuple reads as before.
THEOREM PageImplements == Spec => ImplementsTupleStore
<1>1. Init => Store!Init
  BY InitPage
<1>2. PageInv /\ [Next]_vars => [Store!Next]_([i \in Slots |-> GetTuple(i)])
  BY PageStep
<1> QED
  BY <1>1, <1>2, PageInvariant, PTL DEF Spec, ImplementsTupleStore, Store!Spec
=============================================================================
